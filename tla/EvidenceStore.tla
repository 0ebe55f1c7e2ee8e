---------------------------- MODULE EvidenceStore ----------------------------
(***************************************************************************)
(* The evidence service: uploads reserved in memory, files published by    *)
(* content hash with a rename, and a media type written beside them.       *)
(*                                                                         *)
(* A handler stops at every await, where other handlers run and where a    *)
(* crash may end it.  A PUT may be delivered again: it is idempotent for   *)
(* HTTP, and browsers and proxies repeat it when a connection drops.       *)
(***************************************************************************)
EXTENDS Integers, FiniteSets

CONSTANTS
  Contents,       \* contents of files, known by their hashes
  Uploads,        \* upload ids, in the order they are given out
  Deliveries,     \* deliveries of the PUT of one upload: at most two, for with
                  \* three a file still being written may be renamed
  None

ASSUME EvidenceStoreAssumption ==
  /\ Uploads \subseteq Nat /\ Deliveries \subseteq 1..2
  /\ None \notin Contents

VARIABLES
  uploads,        \* uploads[u]: the hash reserved for u, in memory
  temporary,      \* temporary[u]: the file "<u>.tmp"
  published,      \* published[c]: the file named c
  mediaType,      \* mediaType[c]: the file "<c>.media-type"
  metadata,       \* the metadata documents published, by hash
  handlers        \* handlers[<<u, n>>]: the handler of the n-th PUT of u

evidence_vars ==
  <<uploads, temporary, published, mediaType, metadata, handlers>>

Handlers == Uploads \X Deliveries

EvidenceInit ==
  /\ uploads = [u \in Uploads |-> None]
  /\ temporary = [u \in Uploads |-> "absent"]
  /\ published = [c \in Contents |-> "absent"]
  /\ mediaType = [c \in Contents |-> "absent"]
  /\ metadata = {}
  /\ handlers = [h \in Handlers |-> [at |-> "idle"]]

-----------------------------------------------------------------------------

\* randomUUID: ids are never given out twice, not even after a crash.
Reserve(u, c) ==
  /\ uploads' = [uploads EXCEPT ![u] = c]
  /\ UNCHANGED <<temporary, published, mediaType, metadata, handlers>>

\* Fifteen minutes pass: expired or pruned, the upload is refused.
Expire(u) ==
  /\ uploads[u] # None
  /\ uploads' = [uploads EXCEPT ![u] = None]
  /\ UNCHANGED <<temporary, published, mediaType, metadata, handlers>>

Proceeds(h, at) == handlers' = [handlers EXCEPT ![h].at = at]

\* storeUpload up to its first await.  The page sends what it has reserved:
\* size, type and hash agree.
Receive(h) ==
  LET u == h[1] IN
  /\ handlers[h].at = "idle"
  /\ handlers' = [handlers EXCEPT ![h] =
       IF uploads[u] = None THEN [at |-> "refused"]
                            ELSE [at |-> "opening", content |-> uploads[u]]]
  /\ UNCHANGED <<uploads, temporary, published, mediaType, metadata>>

\* writeFile(temporaryPath, bytes, { flag: "wx" }): the file must be new.
OpenTemporary(h) ==
  LET u == h[1] IN
  /\ handlers[h].at = "opening"
  /\ IF temporary[u] = "absent"
     THEN Proceeds(h, "writing") /\ temporary' = [temporary EXCEPT ![u] = "partial"]
     ELSE Proceeds(h, "refused") /\ UNCHANGED temporary
  /\ UNCHANGED <<uploads, published, mediaType, metadata>>

\* The rest of the bytes; they are lost when the file has been removed.
WriteTemporary(h) ==
  LET u == h[1] IN
  /\ handlers[h].at = "writing"
  /\ Proceeds(h, "renaming")
  /\ temporary' = [temporary EXCEPT ![u] = IF @ = "partial" THEN "whole" ELSE @]
  /\ UNCHANGED <<uploads, published, mediaType, metadata>>

Rename(h) ==
  LET u == h[1]
      c == handlers[h].content
  IN
  /\ handlers[h].at = "renaming"
  /\ IF temporary[u] # "absent"
     THEN /\ published' = [published EXCEPT ![c] = temporary[u]]
          /\ temporary' = [temporary EXCEPT ![u] = "absent"]
          /\ Proceeds(h, "clearing")
     ELSE Proceeds(h, "failing") /\ UNCHANGED <<published, temporary>>
  /\ UNCHANGED <<uploads, mediaType, metadata>>

\* The finally block, and the error when the rename has failed.
Clear(h) ==
  LET u == h[1] IN
  /\ handlers[h].at \in {"clearing", "failing"}
  /\ temporary' = [temporary EXCEPT ![u] = "absent"]
  /\ uploads' = [uploads EXCEPT ![u] = None]
  /\ Proceeds(h, IF handlers[h].at = "clearing" THEN "typing" ELSE "refused")
  /\ UNCHANGED <<published, mediaType, metadata>>

\* writeFile with the flag "w" empties the file before it fills it.
TruncateMediaType(h) ==
  /\ handlers[h].at = "typing"
  /\ mediaType' = [mediaType EXCEPT ![handlers[h].content] = "partial"]
  /\ Proceeds(h, "filling")
  /\ UNCHANGED <<uploads, temporary, published, metadata>>

WriteMediaType(h) ==
  /\ handlers[h].at = "filling"
  /\ mediaType' = [mediaType EXCEPT ![handlers[h].content] = "whole"]
  /\ Proceeds(h, "created")
  /\ UNCHANGED <<uploads, temporary, published, metadata>>

\* storeMetadata: its temporary name is its own, so only the rename shows.
StoreMetadata(m) ==
  /\ metadata' = metadata \cup {m}
  /\ UNCHANGED <<uploads, temporary, published, mediaType, handlers>>

\* The process dies: the files stay, the memory and the handlers are gone.
Crash ==
  /\ uploads' = [u \in Uploads |-> None]
  /\ handlers' = [h \in Handlers |->
       IF handlers[h].at \in {"idle", "created"} THEN handlers[h] ELSE [at |-> "refused"]]
  /\ UNCHANGED <<temporary, published, mediaType, metadata>>

Serve(h) ==
  \/ OpenTemporary(h) \/ WriteTemporary(h) \/ Rename(h)
  \/ Clear(h) \/ TruncateMediaType(h) \/ WriteMediaType(h)

-----------------------------------------------------------------------------

\* readEvidence: 404 without one of the files, 500 when one is not whole.
ReadEvidence(c) ==
  IF "absent" \in {published[c], mediaType[c]} THEN "not_found"
  ELSE IF "partial" \in {published[c], mediaType[c]} THEN "mismatch"
  ELSE "bytes"

=============================================================================
