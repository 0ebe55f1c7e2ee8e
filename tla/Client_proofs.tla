---------------------------- MODULE Client_proofs ----------------------------
(***************************************************************************)
(* The tab and the evidence service, proved for any number of actions,     *)
(* uploads, files, wallets and attempts, and for every session: a label is *)
(* held by one action, what the drawer calls confirmed was carried out,    *)
(* and what the registry's evidence names can be read.  First, the poll    *)
(* they vote in.                                                           *)
(***************************************************************************)
EXTENDS Client, FiniteSetTheorems, TLAPS

-----------------------------------------------------------------------------
(* The tallies of the poll, for every number of wallets and every u32.     *)

Cast == {v \in Voters : receipt[v] # NoVote}

ReceiptsInv ==
  /\ receipt \in [Voters -> Nat \cup {NoVote}]
  /\ options = NoPoll => \A v \in Voters : receipt[v] = NoVote

TotalInv == total = Saturated(Cardinality(Cast))

CountsInv ==
  options # NoPoll =>
    /\ options \in 2..4
    /\ DOMAIN counts = Options
    /\ counts \in [Options -> Nat]
    /\ \A option \in Options : counts[option] = Saturated(Cardinality(VotersFor(option)))

(***************************************************************************)
(* The inductive invariant: the total also matches before the poll is      *)
(* opened, when nobody has voted.                                          *)
(***************************************************************************)
SignalsInv == ReceiptsInv /\ TotalInv /\ CountsInv

\* The inductive invariant implies what the runs check.
LEMMA InvImpliesTally == SignalsInv => TallyMatchesReceipts
BY DEF SignalsInv, TotalInv, CountsInv, TallyMatchesReceipts, Cast

\* Saturating addition follows the number of votes it counts.
LEMMA SaturatingAddCounts ==
  ASSUME NEW n \in Nat
  PROVE  /\ SaturatingAdd(Saturated(n)) = Saturated(n + 1)
         /\ Saturated(n) \in Nat
BY SignalsAssumption DEF SaturatingAdd, Saturated

\* One more voter is one more vote.
LEMMA OneMore ==
  ASSUME NEW S \in SUBSET Voters, NEW v \in Voters \ S
  PROVE  /\ Cardinality(S) \in Nat
         /\ Cardinality(S \cup {v}) = Cardinality(S) + 1
<1>1. IsFiniteSet(S)
  BY FS_Subset, SignalsAssumption
<1>2. QED
  BY <1>1, FS_AddElement, FS_CardinalityType

\* Nobody's votes count nothing.
LEMMA NobodyCounts == Saturated(Cardinality({})) = 0
BY FS_EmptySet, SignalsAssumption DEF Saturated

\* It holds before the poll is opened,
LEMMA InitInv == SignalsInit => SignalsInv
<1> SUFFICES ASSUME SignalsInit PROVE SignalsInv
  OBVIOUS
<1>1. Cast = {}
  BY DEF SignalsInit, Cast
<1>2. QED
  BY <1>1, NobodyCounts DEF SignalsInit, SignalsInv, ReceiptsInv, TotalInv, CountsInv

\* after initialize,
LEMMA InitializeInv ==
  ASSUME SignalsInv, NEW n \in OptionInputs, Initialize(n)
  PROVE  SignalsInv'
<1> USE DEF Initialize, SignalsInv
<1>1. ReceiptsInv'
  BY SignalsAssumption DEF ReceiptsInv
<1>2. TotalInv'
  BY DEF TotalInv, Cast
<1>3. CountsInv'
  <2>1. options' \in 2..4 /\ Options' = 0..(n - 1)
    BY DEF Options
  <2>2. DOMAIN counts' = Options' /\ counts' \in [Options' -> Nat]
    BY <2>1
  <2>3. ASSUME NEW option \in Options'
        PROVE  counts'[option] = Saturated(Cardinality(VotersFor(option)'))
    <3>1. option \in Nat /\ counts'[option] = 0
      BY <2>1
    <3>2. VotersFor(option)' = {}
      BY <3>1, SignalsAssumption DEF VotersFor, ReceiptsInv
    <3>3. QED
      BY <3>1, <3>2, NobodyCounts
  <2>4. QED
    BY <2>1, <2>2, <2>3 DEF CountsInv
<1>4. QED
  BY <1>1, <1>2, <1>3

\* and after every vote.
LEMMA VoteInv ==
  ASSUME SignalsInv, NEW v \in Voters, NEW option \in Nat, Vote(v, option)
  PROVE  SignalsInv'
<1> USE DEF Vote, SignalsInv
<1>1. ReceiptsInv'
  BY DEF ReceiptsInv
<1>2. receipt[v] = NoVote /\ receipt'[v] = option /\ option # NoVote
  BY SignalsAssumption DEF ReceiptsInv
<1>3. \A w \in Voters \ {v} : receipt'[w] = receipt[w]
  BY DEF ReceiptsInv
<1>4. TotalInv'
  <2>1. Cast' = Cast \cup {v} /\ v \notin Cast /\ Cast \subseteq Voters
    BY <1>2, <1>3 DEF Cast
  <2>2. QED
    BY <2>1, OneMore, SaturatingAddCounts DEF TotalInv
<1>5. CountsInv'
  <2>1. options' \in 2..4 /\ Options' = Options /\ option \in Options
    BY DEF CountsInv, Options
  <2>2. Saturated(Cardinality(VotersFor(option)')) = SaturatingAdd(counts[option])
    <3>1. /\ VotersFor(option)' = VotersFor(option) \cup {v}
          /\ v \notin VotersFor(option) /\ VotersFor(option) \subseteq Voters
      BY <1>2, <1>3 DEF VotersFor
    <3>2. QED
      BY <2>1, <3>1, OneMore, SaturatingAddCounts DEF CountsInv
  <2>3. ASSUME NEW other \in Options, other # option
        PROVE  VotersFor(other)' = VotersFor(other)
    BY <1>2, <1>3, <2>1, <2>3, SignalsAssumption DEF VotersFor, Options
  <2>4. counts \in [Options -> Nat]
    BY DEF CountsInv
  <2>5. SaturatingAdd(counts[option]) \in Nat
    BY <2>1, <2>4, SignalsAssumption DEF SaturatingAdd
  <2>6. /\ counts' \in [Options -> Nat]
        /\ counts'[option] = SaturatingAdd(counts[option])
        /\ \A other \in Options \ {option} : counts'[other] = counts[other]
    BY <2>1, <2>4, <2>5
  <2>7. \A o \in Options : counts[o] = Saturated(Cardinality(VotersFor(o)))
    BY DEF CountsInv
  <2>8. \A o \in Options : counts'[o] = Saturated(Cardinality(VotersFor(o)'))
    BY <2>2, <2>3, <2>6, <2>7
  <2>9. QED
    BY <2>1, <2>6, <2>8 DEF CountsInv
<1>6. QED
  BY <1>1, <1>4, <1>5

\* So every step keeps it.
LEMMA NextInv == SignalsInv /\ [SignalsNext]_signals_vars => SignalsInv'
<1> SUFFICES ASSUME SignalsInv, [SignalsNext]_signals_vars PROVE SignalsInv'
  OBVIOUS
<1>1. CASE \E n \in OptionInputs : Initialize(n)
  BY <1>1, InitializeInv
<1>2. CASE \E v \in Voters, option \in 0..4 : Vote(v, option)
  BY <1>2, VoteInv
<1>3. CASE UNCHANGED signals_vars
  BY <1>3 DEF signals_vars, SignalsInv, ReceiptsInv, TotalInv, CountsInv,
              Cast, Options, VotersFor
<1>4. QED
  BY <1>1, <1>2, <1>3 DEF SignalsNext

(***************************************************************************)
(* The results of the poll are what its receipts add up to, short only of  *)
(* what a u32 can hold, whatever the number of wallets and of options.     *)
(***************************************************************************)
THEOREM TalliesMatch == SignalsSpec => []TallyMatchesReceipts
<1>1. SignalsInit => SignalsInv
  BY InitInv
<1>2. SignalsInv /\ [SignalsNext]_signals_vars => SignalsInv'
  BY NextInv
<1>3. SignalsInv => TallyMatchesReceipts
  BY InvImpliesTally
<1>4. QED
  BY <1>1, <1>2, <1>3, PTL DEF SignalsSpec

-----------------------------------------------------------------------------
(* The calls of the page, and where each may be.                           *)

Flight == {"validating", "simulating", "signing", "asking", "sending",
           "polling", "settling"}

AnchoredEvidence == [content : Contents, attempt : 1..MaxAttempts]

Calls == [label : {"Cast signal"}, option : Nat]
           \cup [label : {"Anchor evidence hash"}, attempt : 1..MaxAttempts,
                 evidence : AnchoredEvidence]
           \cup [label : {"Open evidence review"}]

Gone == [at |-> "gone"]

\* An action that waits for the wallet or was refused,
Asked == [at : {"connecting", "refused"}, call : Calls,
          address : Accounts \cup {Null}, known : BOOLEAN]

\* and one that holds, or held, its lock.
Taken == [at : Flight \cup {"confirmed", "failed"}, call : Calls,
          address : Accounts, known : BOOLEAN]

Stages == {"idle", "validating", "simulating", "awaiting_signature", "pending",
           "confirmed", "failed", "timed_out"}

Labels == {"Cast signal", "Anchor evidence hash", "Open evidence review", "Connect wallet"}

Drawer == [stage : Stages, hash : Mutations \cup {Null}, label : Labels \cup {Null}]

StepNames == {"welcome", "wallet", "testnet", "action", "confirmation", "feedback"}

Progress == [role : BOOLEAN, step : StepNames, confirmed : Mutations \cup {Null}]

MutationTypes == mutation \in [Mutations -> {Unstarted, Gone} \cup Asked \cup Taken]

TabTypes ==
  /\ address \in Accounts \cup {Null}
  /\ wallet \in [account : Accounts, testnet : BOOLEAN]

Statuses == {"pending", "evidence_submitted", "under_review"}

Milestone == [attempt : 1..MaxAttempts, status : Statuses]

Signed == [call : Calls, source : Accounts, sequence : Nat, by : Accounts \cup {Null}]

LedgerTypes ==
  /\ sequence \in [Accounts -> Nat]
  /\ signed \in [Mutations -> Signed \cup {Null}]
  /\ mempool \subseteq Mutations
  /\ landed \in [Mutations -> {"NOT_FOUND", "SUCCESS", "FAILED"}]
  /\ receipt \in [Voters -> Nat \cup {NoVote}]
  /\ options # NoPoll => options \in 2..4
  /\ project \in [attempt : 1..MaxAttempts, status : Statuses,
                  evidence : [1..MaxAttempts -> AnchoredEvidence \cup {Null}]]

Upload == {[at |-> "idle"]} \cup
          [at : {"reserving", "putting", "describing", "stored", "unsent", "failed"},
           content : Contents, attempt : 1..MaxAttempts]

FormTypes ==
  /\ session \in Sessions
  /\ opened \in Milestone /\ shown \in Milestone
  /\ page \in [file : Contents \cup {None}, receipt : AnchoredEvidence \cup {None},
               busy : BOOLEAN]

Working == {"opening", "writing", "renaming", "clearing", "failing", "typing",
            "filling", "created", "refused"}

Worker == [at : Working, content : Contents]

FileStates == {"absent", "partial", "whole"}

StoreTypes ==
  /\ flow \in [Uploads -> Upload]
  /\ uploads \in [Uploads -> Contents \cup {None}]
  /\ temporary \in [Uploads -> FileStates]
  /\ published \in [Contents -> FileStates]
  /\ mediaType \in [Contents -> FileStates]
  /\ handlers \in [Handlers -> {[at |-> "idle"], [at |-> "refused"]} \cup Worker]

\* The types of everything the properties read.
ClientTypes == MutationTypes /\ TabTypes /\ LedgerTypes /\ FormTypes /\ StoreTypes

-----------------------------------------------------------------------------
(* What the network has of an action.                                       *)

\* The transaction is built for the call when it has been simulated.
Simulated == {"signing", "asking", "sending", "polling", "settling"}

Built(m) ==
  mutation[m].at \in Simulated =>
    /\ signed[m] \in Signed
    /\ signed[m].call = mutation[m].call

Sent == {"polling", "settling", "confirmed", "failed", "gone"}

\* Only what was signed as its source and sent reaches the network, once.
Submitted(m) ==
  /\ m \in mempool => landed[m] = "NOT_FOUND"
  /\ m \in mempool \/ landed[m] # "NOT_FOUND" =>
       /\ mutation[m].at \in Sent
       /\ signed[m] \in Signed
       /\ signed[m].by = signed[m].source

\* An attempt that takes no evidence any more.
Closed(n) == n < project.attempt \/ (n = project.attempt /\ project.status # "pending")

\* What has succeeded cannot be undone: a vote is final, and an attempt whose
\* evidence is anchored takes no other.
Lasting(m) ==
  landed[m] = "SUCCESS" =>
    /\ CarriedOut(m)
    /\ signed[m].call.label = "Anchor evidence hash" => Closed(signed[m].call.attempt)

\* What the drawer and the journey show, against what has landed and was signed.
TransactionOK(tx, ld, sg) ==
  tx.stage = "confirmed" =>
    /\ tx.hash \in Mutations
    /\ ld[tx.hash] = "SUCCESS"
    /\ sg[tx.hash].call.label = tx.label

ProgressOK(progress, ld) ==
  /\ progress.confirmed # Null => ld[progress.confirmed] = "SUCCESS"
  /\ progress.step \in {"confirmation", "feedback"} => progress.confirmed # Null

SentInv == \A m \in Mutations : Built(m) /\ Submitted(m) /\ Lasting(m)

ShownOK ==
  /\ transaction \in Drawer /\ journey \in Progress
  /\ saved # Null => saved \in Progress
  /\ TransactionOK(transaction, landed, signed)
  /\ ProgressOK(journey, landed)
  /\ saved # Null => ProgressOK(saved, landed)

-----------------------------------------------------------------------------
(* What the service has of an upload.                                       *)

Published(c) == published[c] = "whole"

Readable(c) == Published(c) /\ mediaType[c] # "absent"

Held(e) == e \in AnchoredEvidence /\ Readable(e.content) /\ e \in metadata

Reached == {"putting", "describing", "stored", "failed"}

\* Reservations and handlers work on the file of their upload.
ReservationOK(u) ==
  uploads[u] # None => flow[u].at \in Reached /\ uploads[u] = flow[u].content

OfItsUpload(h) ==
  handlers[h].at \notin {"idle", "refused"} =>
    flow[h[1]].at \in Reached /\ handlers[h].content = flow[h[1]].content

Rivals(h) == {k \in Handlers : k[1] = h[1] /\ k # h}

(***************************************************************************)
(* One delivery at a time has the temporary file, and what it renames is   *)
(* whole: the file can vanish under it only when the other delivery is     *)
(* past its own.                                                           *)
(***************************************************************************)
OneWriter(h) ==
  handlers[h].at \in {"writing", "renaming"} =>
    \/ /\ temporary[h[1]] = IF handlers[h].at = "writing" THEN "partial" ELSE "whole"
       /\ \A k \in Rivals(h) : handlers[k].at \notin {"writing", "renaming"}
    \/ /\ temporary[h[1]] = "absent"
       /\ \A k \in Rivals(h) :
            handlers[k].at \notin {"idle", "opening", "writing", "renaming"}

\* How far a handler has come says what is there.
Progressed(h) ==
  LET at == handlers[h].at IN
  /\ at \in {"clearing", "typing", "filling", "created"} => Published(handlers[h].content)
  /\ at \in {"filling", "created"} => Readable(handlers[h].content)

UploadDone(u) == flow[u].at \in {"describing", "stored"} => Readable(flow[u].content)

StoreInv ==
  /\ \A u \in Uploads : ReservationOK(u) /\ UploadDone(u)
  /\ \A h \in Handlers : OfItsUpload(h) /\ OneWriter(h) /\ Progressed(h)

IsAnchor(call) == call.label = "Anchor evidence hash"

\* Whatever names evidence, names evidence that is held.
AnchorsHeld ==
  /\ page.receipt # None => Held(page.receipt)
  /\ \A m \in Mutations :
       /\ mutation[m] \in Asked \cup Taken /\ IsAnchor(mutation[m].call)
            => Held(mutation[m].call.evidence)
       /\ m \in mempool /\ IsAnchor(signed[m].call)
            => Held(signed[m].call.evidence)
  /\ \A n \in 1..MaxAttempts :
       project.evidence[n] # Null => Held(project.evidence[n])

(***************************************************************************)
(* The inductive invariant.                                                *)
(***************************************************************************)
ClientInv ==
  ClientTypes /\ OneActionPerLabel /\ SentInv /\ ShownOK /\ StoreInv /\ AnchorsHeld

-----------------------------------------------------------------------------
(* Locks.                                                                   *)

\* The action m goes on, and no other moves.
Carries(m, to) ==
  /\ MutationTypes'
  /\ mutation[m] \in Taken /\ mutation[m].at \in Flight
  /\ mutation'[m] \in Taken /\ mutation'[m].at = to
  /\ mutation'[m].call = mutation[m].call
  /\ mutation'[m].address = mutation[m].address
  /\ \A n \in Mutations \ {m} : mutation'[n] = mutation[n]

\* An action in flight is one that was taken up.
LEMMA InFlightTaken ==
  ASSUME MutationTypes, NEW m \in Mutations
  PROVE  /\ InFlight(m) <=> mutation[m] \in Taken /\ mutation[m].at \in Flight
         /\ mutation[m].at \in Flight => mutation[m] \in Taken
BY DEF MutationTypes, InFlight, Flight, Unstarted, Gone, Asked, Taken

\* Goes moves one action on and keeps its call.
LEMMA GoesOn ==
  ASSUME MutationTypes, NEW m \in Mutations, mutation[m].at \in Flight,
         NEW to \in Flight \cup {"confirmed", "failed"}, Goes(m, to)
  PROVE  Carries(m, to)
<1>1. mutation[m] \in Taken
  BY InFlightTaken
<1>2. PICK known \in BOOLEAN :
        mutation' = [mutation EXCEPT ![m].at = to, ![m].known = known]
  <2>1. (mutation[m].known \/ (to = "polling" /\ PassesHashes(m))) \in BOOLEAN
    OBVIOUS
  <2>2. QED
    BY <2>1 DEF Goes
<1>3. mutation'[m] = [mutation[m] EXCEPT !.at = to, !.known = known]
  BY <1>2 DEF MutationTypes
<1>4. mutation'[m] \in Taken /\ mutation'[m].at = to /\ mutation'[m].call = mutation[m].call
      /\ mutation'[m].address = mutation[m].address
  BY <1>1, <1>3 DEF Taken
<1>5. \A n \in Mutations \ {m} : mutation'[n] = mutation[n]
  BY <1>2 DEF MutationTypes
<1>6. MutationTypes'
  BY <1>2, <1>4, <1>5 DEF MutationTypes
<1>7. QED
  BY <1>1, <1>4, <1>5, <1>6 DEF Carries

Label(m) == mutation[m].call.label

\* Nobody's lock changes while an action goes from one await to the next.
LEMMA LockHeld ==
  ASSUME MutationTypes, OneActionPerLabel, NEW m \in Mutations,
         NEW to \in Flight, Carries(m, to), UNCHANGED locks
  PROVE  OneActionPerLabel'
<1>1. \A n \in Mutations : InFlight(n)' <=> InFlight(n)
  BY DEF Carries, InFlight, Flight
<1>2. \A n \in Mutations : InFlight(n) => Label(n)' = Label(n)
  BY DEF Carries, Label
<1>3. QED
  BY <1>1, <1>2 DEF OneActionPerLabel, Label

\* An action that ends frees its label, and no other action held it.
LEMMA LockFreed ==
  ASSUME MutationTypes, OneActionPerLabel, NEW m \in Mutations,
         NEW to \in {"confirmed", "failed"}, Carries(m, to),
         locks' = locks \ {mutation[m].call.label}
  PROVE  OneActionPerLabel'
<1>1. InFlight(m) /\ ~InFlight(m)'
  BY InFlightTaken DEF Carries, InFlight
<1>2. \A n \in Mutations \ {m} : (InFlight(n)' <=> InFlight(n)) /\ Label(n)' = Label(n)
  BY DEF Carries, InFlight, Label
<1>3. \A n \in Mutations \ {m} : InFlight(n) => Label(n) # Label(m)
  BY <1>1 DEF OneActionPerLabel, Label
<1>4. QED
  BY <1>1, <1>2, <1>3 DEF OneActionPerLabel, Label

\* An action enters only when nobody holds its label.
LEMMA LockTaken ==
  ASSUME MutationTypes, OneActionPerLabel, NEW m \in Mutations, ~InFlight(m),
         NEW call \in Calls, NEW a \in Accounts, Enter(m, call, a)
  PROVE  /\ MutationTypes' /\ OneActionPerLabel'
         /\ mutation'[m] \in Asked \cup Taken
         /\ mutation'[m].at \in {"refused", "validating"} /\ mutation'[m].call = call
         /\ \A n \in Mutations \ {m} : mutation'[n] = mutation[n]
<1> DEFINE entry(at) == [at |-> at, call |-> call, address |-> a, known |-> FALSE]
<1>1. entry("refused") \in Asked /\ entry("validating") \in Taken
  BY DEF Asked, Taken, Flight
<1>2. CASE call.label \in locks
  <2>1. mutation' = [mutation EXCEPT ![m] = entry("refused")] /\ UNCHANGED locks
    BY <1>2 DEF Enter
  <2>2. mutation'[m] = entry("refused") /\ \A n \in Mutations \ {m} : mutation'[n] = mutation[n]
    BY <2>1 DEF MutationTypes
  <2>3. MutationTypes'
    BY <1>1, <2>1, <2>2 DEF MutationTypes
  <2>4. \A n \in Mutations : (InFlight(n)' <=> InFlight(n)) /\ (InFlight(n) => Label(n)' = Label(n))
    BY <2>2 DEF InFlight, Label
  <2>5. OneActionPerLabel'
    BY <2>1, <2>4 DEF OneActionPerLabel, Label
  <2>6. QED
    BY <1>1, <2>2, <2>3, <2>5
<1>3. CASE call.label \notin locks
  <2>1. mutation' = [mutation EXCEPT ![m] = entry("validating")]
        /\ locks' = locks \cup {call.label}
    BY <1>3 DEF Enter
  <2>2. mutation'[m] = entry("validating") /\ \A n \in Mutations \ {m} : mutation'[n] = mutation[n]
    BY <2>1 DEF MutationTypes
  <2>3. MutationTypes'
    BY <1>1, <2>1, <2>2 DEF MutationTypes
  <2>4. \A n \in Mutations \ {m} : (InFlight(n)' <=> InFlight(n)) /\ Label(n)' = Label(n)
    BY <2>2 DEF InFlight, Label
  <2>5. InFlight(m)' /\ Label(m)' = call.label
    BY <2>2 DEF InFlight, Label
  <2>6. \A n \in Mutations : InFlight(n) => Label(n) # call.label
    BY <1>3 DEF OneActionPerLabel, Label
  <2>7. OneActionPerLabel'
    BY <2>1, <2>4, <2>5, <2>6 DEF OneActionPerLabel, Label
  <2>8. QED
    BY <1>1, <2>2, <2>3, <2>7
<1>4. QED
  BY <1>2, <1>3

\* Moves of actions that hold no lock, before and after, change none.
LEMMA LockUntouched ==
  ASSUME MutationTypes, OneActionPerLabel, NEW m \in Mutations, ~InFlight(m),
         NEW entry \in Asked, mutation' = [mutation EXCEPT ![m] = entry], UNCHANGED locks
  PROVE  /\ MutationTypes' /\ OneActionPerLabel'
         /\ mutation'[m] = entry
         /\ \A n \in Mutations \ {m} : mutation'[n] = mutation[n]
<1>1. mutation'[m] = entry /\ \A n \in Mutations \ {m} : mutation'[n] = mutation[n]
  BY DEF MutationTypes
<1>2. MutationTypes'
  BY <1>1 DEF MutationTypes
<1>3. \A n \in Mutations : (InFlight(n)' <=> InFlight(n)) /\ (InFlight(n) => Label(n)' = Label(n))
  BY <1>1 DEF InFlight, Label, Asked
<1>4. QED
  BY <1>1, <1>2, <1>3 DEF OneActionPerLabel, Label

-----------------------------------------------------------------------------
(* The drawer and the journey.                                              *)

\* What has succeeded stays, and stays signed as it was.
Steady ==
  \A n \in Mutations :
    landed[n] = "SUCCESS" => landed'[n] = "SUCCESS" /\ signed'[n] = signed[n]

\* What may be shown may still be shown after a step.
LEMMA StillShown ==
  ASSUME ShownOK, Steady
  PROVE  /\ TransactionOK(transaction, landed', signed')
         /\ ProgressOK(journey, landed')
         /\ saved # Null => ProgressOK(saved, landed')
BY DEF ShownOK, Steady, TransactionOK, ProgressOK, Drawer, Progress

\* A step that shows nothing new.
LEMMA ShownUntouched ==
  ASSUME ShownOK, Steady, UNCHANGED <<transaction, journey, saved>>
  PROVE  ShownOK'
<1>1. /\ TransactionOK(transaction', landed', signed')
      /\ ProgressOK(journey', landed')
      /\ saved' # Null => ProgressOK(saved', landed')
  BY StillShown
<1>2. /\ transaction' \in Drawer /\ journey' \in Progress
      /\ saved' # Null => saved' \in Progress
  BY DEF ShownOK
<1>3. QED
  BY <1>1, <1>2 DEF ShownOK

\* The render and its effects confirm nothing by themselves: the journey takes
\* over what the drawer shows.
LEMMA RenderShows ==
  ASSUME NEW tx \in Drawer, NEW progress \in Progress, NEW last,
         TransactionOK(tx, landed', signed'), ProgressOK(progress, landed'),
         RenderFrom(tx, progress, last)
  PROVE  ShownOK'
<1>1. transaction' = tx
  BY DEF RenderFrom
<1>2. journey' \in Progress /\ ProgressOK(journey', landed')
  <2>1. CASE journey' = progress
    BY <2>1
  <2>2. CASE /\ journey' = Recorded(progress, tx.hash) /\ journey' # progress
             /\ tx.stage = "confirmed" /\ tx.hash # Null
    <3>1. journey' = [progress EXCEPT !.step = "confirmation", !.confirmed = tx.hash]
      BY <2>2 DEF Recorded
    <3>2. tx.hash \in Mutations /\ landed'[tx.hash] = "SUCCESS"
      BY <2>2 DEF TransactionOK
    <3>3. journey' \in Progress /\ journey'.confirmed = tx.hash
      BY <3>1, <3>2 DEF Progress, StepNames
    <3>4. QED
      BY <2>2, <3>2, <3>3 DEF ProgressOK
  <2>3. QED
    BY <2>1, <2>2 DEF RenderFrom
<1>3. saved' # Null => saved' = journey'
  BY DEF RenderFrom, Stored
<1>4. QED
  BY <1>1, <1>2, <1>3 DEF ShownOK

\* An empty drawer, and one that says no more than how far a call is.
LEMMA QuietDrawers ==
  /\ NoTransaction \in Drawer
  /\ ConnectFailed \in Drawer
  /\ \A ld, sg : TransactionOK(NoTransaction, ld, sg) /\ TransactionOK(ConnectFailed, ld, sg)
BY DEF NoTransaction, ConnectFailed, Drawer, Stages, Labels, TransactionOK

WithHash(m, stage) == [Shows(m, stage) EXCEPT !.hash = m]

\* The stage of a call, shown under the label of the call.
LEMMA StageShown ==
  ASSUME NEW m \in Mutations, mutation[m] \in Asked \cup Taken, NEW stage \in Stages
  PROVE  /\ Shows(m, stage) \in Drawer
         /\ Shows(m, stage).stage = stage
         /\ Shows(m, stage).label = mutation[m].call.label
         /\ stage = "confirmed" => Shows(m, stage).hash = m
         /\ WithHash(m, stage) \in Drawer
         /\ WithHash(m, stage).stage = stage
<1>1. mutation[m].call.label \in Labels
  BY DEF Asked, Taken, Calls, Labels
<1>2. QED
  BY <1>1 DEF Shows, WithHash, Drawer

\* A new journey has nothing to show.
LEMMA NothingConfirmed ==
  NewJourney \in Progress /\ \A ld : ProgressOK(NewJourney, ld)
BY DEF NewJourney, Progress, StepNames, ProgressOK

\* Any stage but the last may be shown of any call.
LEMMA StageIsNoProof ==
  ASSUME NEW tx, tx.stage # "confirmed", NEW ld, NEW sg
  PROVE  TransactionOK(tx, ld, sg)
BY DEF TransactionOK

-----------------------------------------------------------------------------
(* One step of an action between two awaits.                                *)

\* What every action does but that of m.
OthersWait(m) == \A n \in Mutations \ {m} : mutation'[n] = mutation[n]

\* runMutation starts an action: not in flight, or with its label's lock.
LEMMA Started ==
  ASSUME MutationTypes, TabTypes, OneActionPerLabel, ShownOK, Steady,
         NEW m \in Mutations, NEW call \in Calls, RunMutation(m, call)
  PROVE  /\ MutationTypes' /\ OneActionPerLabel' /\ ShownOK' /\ TabTypes'
         /\ mutation[m] = Unstarted
         /\ mutation'[m] \in Asked \cup Taken
         /\ mutation'[m].at \in {"connecting", "refused", "validating"}
         /\ mutation'[m].call = call
         /\ OthersWait(m)
<1>1. mutation[m] = Unstarted /\ ~InFlight(m)
  BY DEF RunMutation, IsNext, InFlight, Unstarted
<1>2. UNCHANGED <<address, wallet>>
  BY DEF RunMutation
<1>3. CASE address # Null
  <2>1. Enter(m, call, address) /\ address \in Accounts
    BY <1>3 DEF RunMutation, TabTypes
  <2>2. /\ MutationTypes' /\ OneActionPerLabel'
        /\ mutation'[m] \in Asked \cup Taken
        /\ mutation'[m].at \in {"refused", "validating"} /\ mutation'[m].call = call
        /\ OthersWait(m)
    BY <1>1, <2>1, LockTaken DEF OthersWait
  <2>3. PICK stage \in {"failed", "validating"} :
          Render([stage |-> stage, hash |-> Null, label |-> call.label], journey)
    BY <2>1 DEF Enter
  <2>4. ShownOK'
    <3> DEFINE tx == [stage |-> stage, hash |-> Null, label |-> call.label]
    <3>1. tx \in Drawer /\ tx.stage # "confirmed"
      BY DEF Drawer, Stages, Labels, Calls
    <3>2. TransactionOK(tx, landed', signed')
      BY <3>1, StageIsNoProof
    <3>3. journey \in Progress /\ ProgressOK(journey, landed')
      BY StillShown DEF ShownOK
    <3>4. RenderFrom(tx, journey, lastHash)
      BY <2>3 DEF Render
    <3> HIDE DEF tx
    <3>5. QED
      BY <3>1, <3>2, <3>3, <3>4, RenderShows
  <2>5. QED
    BY <1>1, <1>2, <2>2, <2>4 DEF TabTypes, ShownOK
<1>4. CASE address = Null
  <2> DEFINE entry == [at |-> "connecting", call |-> call, address |-> Null, known |-> FALSE]
  <2>1. /\ mutation' = [mutation EXCEPT ![m] = entry]
        /\ UNCHANGED <<locks, transaction, lastHash, journey, saved>>
    BY <1>4 DEF RunMutation
  <2>2. entry \in Asked /\ entry.at = "connecting" /\ entry.call = call
    BY DEF Asked
  <2> HIDE DEF entry
  <2>3. MutationTypes' /\ OneActionPerLabel' /\ mutation'[m] = entry /\ OthersWait(m)
    BY <1>1, <2>1, <2>2, LockUntouched DEF OthersWait
  <2>4. ShownOK'
    BY <2>1, ShownUntouched
  <2>5. QED
    BY <1>1, <1>2, <2>2, <2>3, <2>4 DEF TabTypes, ShownOK
<1>5. QED
  BY <1>3, <1>4

\* An action that goes on, and the drawer with it.
LEMMA Advances ==
  ASSUME MutationTypes, TabTypes, OneActionPerLabel, ShownOK, Steady,
         NEW m \in Mutations, NEW from \in Flight, NEW to \in Flight,
         NEW stage \in Stages, mutation[m].at = from, Goes(m, to),
         Render(Shows(m, stage), journey), UNCHANGED <<locks, address, wallet>>,
         TransactionOK(Shows(m, stage), landed', signed')
  PROVE  Carries(m, to) /\ OneActionPerLabel' /\ ShownOK' /\ TabTypes'
<1>1. Carries(m, to)
  BY GoesOn
<1>2. OneActionPerLabel'
  BY <1>1, LockHeld
<1>3. ShownOK'
  <2>1. mutation[m] \in Asked \cup Taken
    BY InFlightTaken
  <2>2. Shows(m, stage) \in Drawer
    BY <2>1, StageShown
  <2>3. journey \in Progress /\ ProgressOK(journey, landed')
    BY StillShown DEF ShownOK
  <2>4. RenderFrom(Shows(m, stage), journey, lastHash)
    BY DEF Render
  <2>5. QED
    BY <2>2, <2>3, <2>4, RenderShows
<1>4. QED
  BY <1>1, <1>2, <1>3 DEF TabTypes, ShownOK

\* The catch and finally blocks: the label is free again.
LEMMA Ends ==
  ASSUME MutationTypes, TabTypes, OneActionPerLabel, ShownOK, Steady,
         NEW m \in Mutations, NEW from \in Flight, NEW tx \in Drawer,
         tx.stage # "confirmed", End(m, from, tx)
  PROVE  Carries(m, "failed") /\ OneActionPerLabel' /\ ShownOK' /\ TabTypes'
         /\ mutation[m].at = from
<1>1. Carries(m, "failed") /\ mutation[m].at = from
  BY GoesOn DEF End
<1>2. OneActionPerLabel'
  BY <1>1, LockFreed DEF End
<1>3. ShownOK'
  <2>1. journey \in Progress /\ ProgressOK(journey, landed')
    BY StillShown DEF ShownOK
  <2>2. RenderFrom(tx, journey, lastHash) /\ TransactionOK(tx, landed', signed')
    BY StageIsNoProof DEF End, Render
  <2>3. QED
    BY <2>1, <2>2, RenderShows
<1>4. QED
  BY <1>1, <1>2, <1>3 DEF TabTypes, ShownOK, End

\* Both ways of failing show no confirmation.
LEMMA Failing ==
  ASSUME MutationTypes, TabTypes, OneActionPerLabel, ShownOK, Steady,
         NEW m \in Mutations, NEW from \in Flight,
         \/ Fails(m, from)
         \/ FailsWithHash(m, from, "failed") \/ FailsWithHash(m, from, "timed_out")
  PROVE  Carries(m, "failed") /\ OneActionPerLabel' /\ ShownOK' /\ TabTypes'
         /\ mutation[m].at = from
<1>1. mutation[m].at = from
  BY DEF Fails, FailsWithHash, End
<1>2. mutation[m] \in Asked \cup Taken
  BY <1>1, InFlightTaken
<1>3. CASE Fails(m, from)
  <2>1. Shows(m, "failed") \in Drawer /\ Shows(m, "failed").stage = "failed"
    BY <1>2, StageShown DEF Stages
  <2>2. QED
    BY <1>3, <2>1, Ends DEF Fails
<1>4. ASSUME NEW stage \in {"failed", "timed_out"}, FailsWithHash(m, from, stage)
      PROVE  Carries(m, "failed") /\ OneActionPerLabel' /\ ShownOK' /\ TabTypes'
  <2>1. WithHash(m, stage) \in Drawer /\ WithHash(m, stage).stage = stage
    BY <1>2, StageShown DEF Stages
  <2>2. End(m, from, WithHash(m, stage))
    BY <1>4 DEF FailsWithHash, WithHash
  <2>3. QED
    BY <2>1, <2>2, Ends
<1>5. QED
  BY <1>1, <1>3, <1>4

-----------------------------------------------------------------------------
(* A call on its way through the network.                                   *)

TabInv == MutationTypes /\ TabTypes /\ OneActionPerLabel /\ ShownOK

\* Calls are neither made up nor exchanged on the way.
CallsKept ==
  \A n \in Mutations :
    /\ mutation'[n] \in Asked \cup Taken =>
         mutation[n] \in Asked \cup Taken /\ mutation'[n].call = mutation[n].call
    /\ n \in mempool' =>
         \/ n \in mempool /\ signed'[n].call = signed[n].call
         \/ mutation[n] \in Asked \cup Taken /\ signed'[n].call = mutation[n].call

\* A step of one action, which leaves alone what the others have in the network.
LEMMA SentKept ==
  ASSUME SentInv, NEW m \in Mutations, OthersWait(m),
         \A n \in Mutations \ {m} : signed'[n] = signed[n] /\ (n \in mempool' <=> n \in mempool),
         UNCHANGED <<landed, receipt, project>>,
         Built(m)', Submitted(m)', landed[m] = "SUCCESS" => signed'[m] = signed[m]
  PROVE  SentInv'
<1>1. ASSUME NEW n \in Mutations \ {m} PROVE Built(n)' /\ Submitted(n)'
  BY <1>1 DEF SentInv, OthersWait, Built, Submitted
<1>2. ASSUME NEW n \in Mutations PROVE Lasting(n)'
  <2>1. landed[n] = "SUCCESS" => signed'[n] = signed[n]
    BY <1>2
  <2>2. Lasting(n) /\ receipt' = receipt /\ project' = project /\ landed' = landed
    BY <1>2 DEF SentInv
  <2>3. QED
    BY ONLY <2>1, <2>2 DEF Lasting, CarriedOut, Closed
<1>3. QED
  BY <1>1, <1>2 DEF SentInv

\* A step in which the network has no part.
LEMMA SentUntouched ==
  ASSUME SentInv, NEW m \in Mutations, OthersWait(m), UNCHANGED ledger_vars,
         mutation'[m].at \in Simulated =>
           mutation[m].at \in Simulated /\ mutation'[m].call = mutation[m].call,
         mutation[m].at \in Sent => mutation'[m].at \in Sent
  PROVE  SentInv'
<1>1. Built(m)' /\ Submitted(m)'
  BY DEF SentInv, Built, Submitted, ledger_vars
<1>2. QED
  BY <1>1, SentKept DEF ledger_vars, signals_vars

\* The network untouched, nothing that succeeded has changed.
LEMMA UntouchedIsSteady ==
  ASSUME UNCHANGED <<landed, signed>> PROVE Steady
BY DEF Steady

\* What an action carries on, it has carried before.
LEMMA CarriesCalls ==
  ASSUME NEW m \in Mutations, NEW to, Carries(m, to), UNCHANGED <<signed, mempool>>
  PROVE  OthersWait(m) /\ CallsKept
BY DEF Carries, OthersWait, CallsKept

\* The wallet is connected for an action that waits for it.
LEMMA ConnectForInv ==
  ASSUME TabInv, SentInv, LedgerTypes, NEW m \in Mutations, ConnectFor(m), UNCHANGED ledger_vars
  PROVE  TabInv' /\ SentInv' /\ LedgerTypes' /\ CallsKept
<1>1. mutation[m].at = "connecting" /\ ~InFlight(m) /\ mutation[m] \in Asked
  BY DEF ConnectFor, InFlight, TabInv, MutationTypes, Unstarted, Gone, Taken, Flight
<1>2. Steady /\ LedgerTypes' /\ UNCHANGED <<signed, mempool>>
  BY UntouchedIsSteady DEF ledger_vars, signals_vars, LedgerTypes
<1>3. mutation[m].call \in Calls /\ mutation[m].call.label \in Labels
  BY <1>1 DEF Asked, Calls, Labels
<1>4. ASSUME NEW a \in Accounts, Connects(a), Enter(m, mutation[m].call, a)
      PROVE  TabInv' /\ SentInv' /\ CallsKept
  <2>1. /\ MutationTypes' /\ OneActionPerLabel'
        /\ mutation'[m] \in Asked \cup Taken
        /\ mutation'[m].at \in {"refused", "validating"}
        /\ mutation'[m].call = mutation[m].call
        /\ OthersWait(m)
    BY <1>1, <1>3, <1>4, LockTaken DEF TabInv, OthersWait
  <2>2. ShownOK'
    <3>1. PICK stage \in {"failed", "validating"} :
            Render([stage |-> stage, hash |-> Null, label |-> mutation[m].call.label], journey)
      BY <1>4 DEF Enter
    <3> DEFINE tx == [stage |-> stage, hash |-> Null, label |-> mutation[m].call.label]
    <3>2. tx \in Drawer /\ tx.stage # "confirmed"
      BY <1>3 DEF Drawer, Stages
    <3>3. RenderFrom(tx, journey, lastHash)
      BY <3>1 DEF Render
    <3> HIDE DEF tx
    <3>4. TransactionOK(tx, landed', signed')
      BY <3>2, StageIsNoProof
    <3>5. journey \in Progress /\ ProgressOK(journey, landed')
      BY <1>2, StillShown DEF TabInv, ShownOK
    <3>6. QED
      BY <3>2, <3>3, <3>4, <3>5, RenderShows
  <2>3. TabTypes'
    BY <1>4 DEF TabInv, TabTypes, Connects, ConnectFor
  <2>4. SentInv'
    BY <1>1, <2>1, SentUntouched DEF Simulated, Sent
  <2>5. CallsKept
    BY <1>1, <1>2, <2>1 DEF CallsKept, OthersWait
  <2>6. QED
    BY <2>1, <2>2, <2>3, <2>4, <2>5 DEF TabInv
<1>5. CASE /\ ConnectFails
           /\ mutation' = [mutation EXCEPT ![m].at = "refused"]
           /\ Render(ConnectFailed, journey)
           /\ UNCHANGED locks
  <2> DEFINE entry == [mutation[m] EXCEPT !.at = "refused"]
  <2>1. entry \in Asked /\ entry.at = "refused" /\ entry.call = mutation[m].call
    BY <1>1 DEF Asked
  <2>2. mutation' = [mutation EXCEPT ![m] = entry]
    BY <1>5 DEF TabInv, MutationTypes
  <2> HIDE DEF entry
  <2>3. MutationTypes' /\ OneActionPerLabel' /\ mutation'[m] = entry /\ OthersWait(m)
    BY <1>1, <1>5, <2>1, <2>2, LockUntouched DEF TabInv, OthersWait
  <2>4. ShownOK'
    <3>1. journey \in Progress /\ ProgressOK(journey, landed')
      BY <1>2, StillShown DEF TabInv, ShownOK
    <3>2. RenderFrom(ConnectFailed, journey, lastHash)
      BY <1>5 DEF Render
    <3>3. QED
      BY <3>1, <3>2, QuietDrawers, RenderShows
  <2>5. TabTypes'
    BY <1>5 DEF TabInv, TabTypes, ConnectFails, ConnectFor
  <2>6. SentInv'
    BY <1>1, <2>1, <2>3, SentUntouched DEF Simulated, Sent
  <2>7. CallsKept
    BY <1>1, <1>2, <2>1, <2>3 DEF CallsKept, OthersWait
  <2>8. QED
    BY <1>2, <2>3, <2>4, <2>5, <2>6, <2>7 DEF TabInv
<1>6. QED
  BY <1>2, <1>4, <1>5 DEF ConnectFor

\* What a step is that fails before or after anything is sent.
LEMMA FailsInv ==
  ASSUME TabInv, SentInv, LedgerTypes, NEW m \in Mutations, NEW from \in Flight,
         \/ Fails(m, from)
         \/ FailsWithHash(m, from, "failed") \/ FailsWithHash(m, from, "timed_out"),
         UNCHANGED ledger_vars
  PROVE  TabInv' /\ SentInv' /\ LedgerTypes' /\ CallsKept
<1>1. Steady /\ LedgerTypes' /\ UNCHANGED <<signed, mempool>>
  BY UntouchedIsSteady DEF ledger_vars, signals_vars, LedgerTypes
<1>2. Carries(m, "failed") /\ TabInv'
  BY <1>1, Failing DEF TabInv, Carries
<1>3. OthersWait(m) /\ CallsKept
  BY <1>1, <1>2, CarriesCalls
<1>4. SentInv'
  BY <1>2, <1>3, SentUntouched DEF Carries, Simulated, Sent
<1>5. QED
  BY <1>1, <1>2, <1>3, <1>4

\* A step that goes on, in which the network has no part.
LEMMA AdvancesInv ==
  ASSUME TabInv, SentInv, LedgerTypes, NEW m \in Mutations,
         NEW from \in Flight, NEW to \in Flight, NEW stage \in Stages,
         Advance(m, from, to, stage), UNCHANGED ledger_vars,
         to \in Simulated => from \in Simulated,
         from \in Sent => to \in Sent,
         stage = "confirmed" => landed[m] = "SUCCESS" /\ from \in Simulated
  PROVE  TabInv' /\ SentInv' /\ LedgerTypes' /\ CallsKept
<1>1. Steady /\ LedgerTypes' /\ UNCHANGED <<signed, landed, mempool>>
  BY UntouchedIsSteady DEF ledger_vars, signals_vars, LedgerTypes
<1>2. mutation[m].at = from /\ mutation[m] \in Asked \cup Taken
  BY InFlightTaken DEF Advance, TabInv
<1>3. TransactionOK(Shows(m, stage), landed', signed')
  <2>1. CASE stage = "confirmed"
    <3>1. Shows(m, stage).hash = m /\ Shows(m, stage).label = mutation[m].call.label
      BY <1>2, <2>1, StageShown
    <3>2. signed[m].call = mutation[m].call /\ landed[m] = "SUCCESS"
      BY <1>2, <2>1 DEF SentInv, Built
    <3>3. QED
      BY <1>1, <3>1, <3>2 DEF TransactionOK
  <2>2. CASE stage # "confirmed"
    <3>1. Shows(m, stage).stage = stage
      BY <1>2, StageShown
    <3>2. QED
      BY <2>2, <3>1, StageIsNoProof
  <2>3. QED
    BY <2>1, <2>2
<1>4. Carries(m, to) /\ TabInv'
  BY <1>1, <1>2, <1>3, Advances DEF TabInv, Carries, Advance
<1>5. OthersWait(m) /\ CallsKept
  BY <1>1, <1>4, CarriesCalls
<1>6. SentInv'
  BY <1>2, <1>4, <1>5, SentUntouched DEF Carries
<1>7. QED
  BY <1>1, <1>4, <1>5, <1>6

\* Before it is sent, the network has nothing of an action.
LEMMA NotSentYet ==
  ASSUME SentInv, LedgerTypes, NEW m \in Mutations, mutation[m].at \notin Sent
  PROVE  m \notin mempool /\ landed[m] = "NOT_FOUND"
BY DEF SentInv, Submitted

\* The simulation builds the transaction for the account the action began with.
LEMMA SimulateInv ==
  ASSUME TabInv, SentInv, LedgerTypes, NEW m \in Mutations, Simulate(m),
         UNCHANGED <<signals_vars, sequence, mempool, landed, project>>
  PROVE  TabInv' /\ SentInv' /\ LedgerTypes' /\ CallsKept
<1> DEFINE a == mutation[m].address
           tx == [call |-> mutation[m].call, source |-> a,
                  sequence |-> sequence[a] + 1, by |-> Null]
<1>1. CASE Fails(m, "simulating") /\ UNCHANGED signed
  <2>1. UNCHANGED ledger_vars
    BY <1>1 DEF ledger_vars
  <2>2. QED
    BY <1>1, <2>1, FailsInv DEF Flight
<1>2. CASE /\ mutation[m].at = "simulating"
           /\ mutation' = [mutation EXCEPT ![m].at = "signing"]
           /\ signed' = [signed EXCEPT ![m] = tx]
           /\ Render(Shows(m, "awaiting_signature"), journey)
           /\ UNCHANGED <<locks, address, wallet, joining, disturbances>>
  <2>1. mutation[m] \in Taken /\ "simulating" \in Flight /\ "simulating" \notin Sent
    BY <1>2, InFlightTaken DEF TabInv, Flight, Sent
  <2>2. m \notin mempool /\ landed[m] = "NOT_FOUND"
    BY <1>2, <2>1, NotSentYet
  <2>3. a \in Accounts /\ mutation[m].call \in Calls
    BY <2>1 DEF Taken
  <2>4. tx \in Signed /\ tx.call = mutation[m].call
    BY <2>3 DEF LedgerTypes, Signed
  <2> HIDE DEF tx, a
  <2>5. /\ signed'[m] = tx
        /\ \A n \in Mutations \ {m} : signed'[n] = signed[n]
        /\ LedgerTypes'
    BY <1>2, <2>4 DEF LedgerTypes, signals_vars
  <2>6. Steady
    BY <2>2, <2>5 DEF Steady
  <2>7. Carries(m, "signing")
    <3>1. mutation'[m] = [mutation[m] EXCEPT !.at = "signing"]
          /\ \A n \in Mutations \ {m} : mutation'[n] = mutation[n]
      BY <1>2 DEF TabInv, MutationTypes
    <3>2. mutation'[m] \in Taken /\ mutation'[m].at = "signing"
          /\ mutation'[m].call = mutation[m].call /\ mutation'[m].address = mutation[m].address
      BY <2>1, <3>1 DEF Taken, Flight
    <3>3. MutationTypes'
      BY <1>2, <3>1, <3>2 DEF TabInv, MutationTypes
    <3>4. QED
      BY <1>2, <2>1, <3>1, <3>2, <3>3 DEF Carries
  <2>8. OneActionPerLabel'
    BY <1>2, <2>7, LockHeld DEF TabInv, Flight
  <2>9. ShownOK'
    <3>1. Shows(m, "awaiting_signature") \in Drawer
          /\ Shows(m, "awaiting_signature").stage = "awaiting_signature"
      BY <2>1, StageShown DEF Stages
    <3>2. TransactionOK(Shows(m, "awaiting_signature"), landed', signed')
      BY <3>1, StageIsNoProof
    <3>3. journey \in Progress /\ ProgressOK(journey, landed')
      BY <2>6, StillShown DEF TabInv, ShownOK
    <3>4. RenderFrom(Shows(m, "awaiting_signature"), journey, lastHash)
      BY <1>2 DEF Render
    <3>5. QED
      BY <3>1, <3>2, <3>3, <3>4, RenderShows
  <2>10. TabInv'
    BY <1>2, <2>7, <2>8, <2>9 DEF TabInv, TabTypes, Carries
  <2>11. SentInv'
    <3>1. Built(m)' /\ Submitted(m)' /\ OthersWait(m)
      BY <2>2, <2>4, <2>5, <2>7 DEF Built, Submitted, Carries, OthersWait
    <3>2. QED
      BY <2>2, <2>5, <3>1, SentKept DEF signals_vars
  <2>12. CallsKept
    BY <2>1, <2>4, <2>5, <2>7 DEF CallsKept, Carries
  <2>13. QED
    BY <2>5, <2>10, <2>11, <2>12
<1>3. QED
  BY <1>1, <1>2 DEF Simulate

\* The wallet signs as some account; the call stays what it is.
LEMMA SignInv ==
  ASSUME TabInv, SentInv, LedgerTypes, NEW m \in Mutations, Sign(m),
         UNCHANGED <<signals_vars, sequence, mempool, landed, project>>
  PROVE  TabInv' /\ SentInv' /\ LedgerTypes' /\ CallsKept
<1>1. CASE Fails(m, "asking") /\ UNCHANGED signed
  <2>1. UNCHANGED ledger_vars
    BY <1>1 DEF ledger_vars
  <2>2. QED
    BY <1>1, <2>1, FailsInv DEF Flight
<1>2. ASSUME NEW a \in {mutation[m].address, wallet.account},
             mutation[m].at = "asking",
             signed' = [signed EXCEPT ![m].by = a],
             Goes(m, "sending"),
             UNCHANGED <<locks, transaction, lastHash, address, wallet, journey, saved,
                         joining, disturbances>>
      PROVE  TabInv' /\ SentInv' /\ LedgerTypes' /\ CallsKept
  <2>1. /\ mutation[m] \in Taken /\ "asking" \in Flight /\ "asking" \notin Sent
        /\ "asking" \in Simulated /\ "sending" \in Flight
    BY <1>2, InFlightTaken DEF TabInv, Flight, Sent, Simulated
  <2>2. m \notin mempool /\ landed[m] = "NOT_FOUND"
    BY <1>2, <2>1, NotSentYet
  <2>3. a \in Accounts
    BY <2>1 DEF Taken, TabInv, TabTypes
  <2>4. signed[m] \in Signed /\ signed[m].call = mutation[m].call
    BY <1>2, <2>1 DEF SentInv, Built
  <2>5. /\ signed'[m] = [signed[m] EXCEPT !.by = a]
        /\ \A n \in Mutations \ {m} : signed'[n] = signed[n]
    BY <1>2 DEF LedgerTypes
  <2>6. signed'[m] \in Signed /\ signed'[m].call = mutation[m].call
    BY <2>3, <2>4, <2>5 DEF Signed
  <2>7. LedgerTypes'
    <3>1. signed' \in [Mutations -> Signed \cup {Null}]
      BY <1>2, <2>5, <2>6 DEF LedgerTypes
    <3>2. QED
      BY <3>1 DEF LedgerTypes, signals_vars
  <2>8. Steady
    BY <2>2, <2>5 DEF Steady
  <2>9. Carries(m, "sending")
    BY <1>2, <2>1, GoesOn DEF TabInv
  <2>10. OneActionPerLabel'
    BY <1>2, <2>1, <2>9, LockHeld DEF TabInv
  <2>11. ShownOK'
    BY <1>2, <2>8, ShownUntouched DEF TabInv
  <2>12. TabInv'
    BY <1>2, <2>9, <2>10, <2>11 DEF TabInv, TabTypes, Carries
  <2>13. SentInv'
    <3>1. Built(m)' /\ Submitted(m)' /\ OthersWait(m)
      BY <2>2, <2>6, <2>9 DEF Built, Submitted, Carries, OthersWait
    <3>2. QED
      BY <2>2, <2>5, <3>1, SentKept DEF signals_vars
  <2>14. CallsKept
    BY <2>1, <2>5, <2>6, <2>9 DEF CallsKept, Carries
  <2>15. QED
    BY <2>7, <2>12, <2>13, <2>14
<1>3. QED
  BY <1>1, <1>2 DEF Sign

\* Only what was signed as its source is queued, whatever the page is told.
LEMMA SendInv ==
  ASSUME TabInv, SentInv, LedgerTypes, NEW m \in Mutations, Send(m),
         UNCHANGED <<signals_vars, sequence, signed, landed, project>>
  PROVE  TabInv' /\ SentInv' /\ LedgerTypes' /\ CallsKept
<1>1. mutation[m].at = "sending"
  BY DEF Send, Advance, Fails, End
<1>2. /\ mutation[m] \in Taken /\ "sending" \in Flight /\ "sending" \notin Sent
      /\ "sending" \in Simulated /\ "polling" \in Flight
  BY <1>1, InFlightTaken DEF TabInv, Flight, Sent, Simulated
<1>3. m \notin mempool /\ landed[m] = "NOT_FOUND"
  BY <1>1, <1>2, NotSentYet
<1>4. signed[m] \in Signed /\ signed[m].call = mutation[m].call
  BY <1>1, <1>2 DEF SentInv, Built
<1>5. /\ mempool' \in {mempool} \cup {mempool \cup {m}}
      /\ m \in mempool' => signed[m].by = signed[m].source
  BY <1>3 DEF Send, Valid
<1>6. LedgerTypes'
  BY <1>5 DEF LedgerTypes, signals_vars
<1>7. Steady
  BY UntouchedIsSteady
<1>8. ASSUME NEW to \in {"polling", "failed"}, Carries(m, to)
      PROVE  SentInv' /\ CallsKept
  <2>1. OthersWait(m) /\ CallsKept
    BY <1>2, <1>4, <1>5, <1>8 DEF Carries, OthersWait, CallsKept
  <2>2. Built(m)' /\ Submitted(m)'
    BY <1>3, <1>4, <1>5, <1>8 DEF Built, Submitted, Carries, Sent
  <2>3. \A n \in Mutations \ {m} : n \in mempool' <=> n \in mempool
    BY <1>5
  <2>4. QED
    BY <2>1, <2>2, <2>3, SentKept DEF signals_vars
<1>9. CASE Advance(m, "sending", "polling", "pending")
  <2>1. Shows(m, "pending").stage = "pending"
    BY <1>2, StageShown DEF Stages
  <2>2. TransactionOK(Shows(m, "pending"), landed', signed')
    BY <2>1, StageIsNoProof
  <2>3. Carries(m, "polling") /\ TabInv'
    BY <1>2, <1>7, <1>9, <2>2, Advances DEF TabInv, Carries, Advance, Stages
  <2>4. QED
    BY <1>6, <1>8, <2>3
<1>10. CASE Fails(m, "sending")
  <2>1. Carries(m, "failed") /\ TabInv'
    BY <1>2, <1>7, <1>10, Failing DEF TabInv, Carries
  <2>2. QED
    BY <1>6, <1>8, <2>1
<1>11. QED
  BY <1>9, <1>10 DEF Send

\* The reads after a confirmation end, and with them the lock.
LEMMA SettleInv ==
  ASSUME TabInv, SentInv, LedgerTypes, NEW m \in Mutations, Settle(m), UNCHANGED ledger_vars
  PROVE  TabInv' /\ SentInv' /\ LedgerTypes' /\ CallsKept
<1>1. Steady /\ LedgerTypes' /\ UNCHANGED <<signed, mempool>>
  BY UntouchedIsSteady DEF ledger_vars, signals_vars, LedgerTypes
<1>2. Carries(m, "confirmed")
  BY GoesOn DEF Settle, Flight, TabInv
<1>3. OneActionPerLabel'
  BY <1>2, LockFreed DEF Settle, TabInv
<1>4. ShownOK'
  BY <1>1, ShownUntouched DEF Settle, TabInv
<1>5. OthersWait(m) /\ CallsKept
  BY <1>1, <1>2, CarriesCalls
<1>6. SentInv'
  BY <1>2, <1>5, SentUntouched DEF Carries, Simulated, Sent
<1>7. QED
  BY <1>1, <1>2, <1>3, <1>4, <1>5, <1>6 DEF TabInv, TabTypes, Carries, Settle

\* Every step of an action.
LEMMA MutationStepInv ==
  ASSUME TabInv, SentInv, LedgerTypes, NEW m \in Mutations, MutationStep(m)
  PROVE  TabInv' /\ SentInv' /\ LedgerTypes' /\ CallsKept
<1>1. CASE ConnectFor(m) /\ UNCHANGED ledger_vars
  BY <1>1, ConnectForInv
<1>2. CASE Validate(m) /\ UNCHANGED ledger_vars
  <2>1. CASE Advance(m, "validating", "simulating", "simulating")
    BY <1>2, <2>1, AdvancesInv DEF Flight, Stages, Simulated, Sent
  <2>2. CASE Fails(m, "validating")
    BY <1>2, <2>2, FailsInv DEF Flight
  <2>3. QED
    BY <1>2, <2>1, <2>2 DEF Validate
<1>3. CASE Simulate(m) /\ UNCHANGED <<signals_vars, sequence, mempool, landed, project>>
  BY <1>3, SimulateInv
<1>4. CASE CheckWallet(m) /\ UNCHANGED ledger_vars
  <2>1. CASE Advance(m, "signing", "asking", "awaiting_signature")
    BY <1>4, <2>1, AdvancesInv DEF Flight, Stages, Simulated, Sent
  <2>2. CASE Fails(m, "signing")
    BY <1>4, <2>2, FailsInv DEF Flight
  <2>3. QED
    BY <1>4, <2>1, <2>2 DEF CheckWallet
<1>5. CASE Sign(m) /\ UNCHANGED <<signals_vars, sequence, mempool, landed, project>>
  BY <1>5, SignInv
<1>6. CASE Send(m) /\ UNCHANGED <<signals_vars, sequence, signed, landed, project>>
  BY <1>6, SendInv
<1>7. CASE Poll(m) /\ UNCHANGED ledger_vars
  <2>1. CASE landed[m] = "SUCCESS" /\ Advance(m, "polling", "settling", "confirmed")
    BY <1>7, <2>1, AdvancesInv DEF Flight, Stages, Simulated, Sent
  <2>2. CASE \/ Fails(m, "polling")
             \/ FailsWithHash(m, "polling", "failed")
             \/ FailsWithHash(m, "polling", "timed_out")
    BY <1>7, <2>2, FailsInv DEF Flight
  <2>3. QED
    BY <1>7, <2>1, <2>2 DEF Poll
<1>8. CASE Settle(m) /\ UNCHANGED ledger_vars
  BY <1>8, SettleInv
<1>9. QED
  BY <1>1, <1>2, <1>3, <1>4, <1>5, <1>6, <1>7, <1>8 DEF MutationStep

-----------------------------------------------------------------------------
(* The user, the wallet and the reload.                                     *)

\* What a step keeps that neither starts nor moves an action.
LEMMA QuietTab ==
  ASSUME TabInv, SentInv, LedgerTypes, UNCHANGED <<ledger_vars, mutation, locks>>,
         TabTypes', ShownOK'
  PROVE  TabInv' /\ SentInv' /\ LedgerTypes' /\ CallsKept
<1>1. MutationTypes' /\ OneActionPerLabel'
  BY DEF TabInv, MutationTypes, OneActionPerLabel, InFlight
<1>2. SentInv'
  BY DEF SentInv, Built, Submitted, Lasting, CarriedOut, Closed, ledger_vars, signals_vars
<1>3. LedgerTypes' /\ CallsKept
  BY DEF LedgerTypes, CallsKept, ledger_vars, signals_vars
<1>4. QED
  BY <1>1, <1>2, <1>3 DEF TabInv

\* A step that is none of the tab's.
LEMMA OutsideTab ==
  ASSUME TabInv, SentInv, LedgerTypes, UNCHANGED <<ledger_vars, calm_vars>>
  PROVE  TabInv' /\ SentInv' /\ LedgerTypes' /\ CallsKept
<1>1. Steady
  BY UntouchedIsSteady DEF ledger_vars
<1>2. ShownOK'
  BY <1>1, ShownUntouched DEF TabInv, calm_vars
<1>3. TabTypes'
  BY DEF TabInv, TabTypes, calm_vars
<1>4. QED
  BY <1>2, <1>3, QuietTab DEF calm_vars

\* Something is rendered that the drawer or the journey may show.
LEMMA Rendered ==
  ASSUME TabInv, UNCHANGED ledger_vars, NEW tx \in Drawer, NEW progress \in Progress, NEW last,
         TransactionOK(tx, landed, signed), ProgressOK(progress, landed),
         RenderFrom(tx, progress, last)
  PROVE  ShownOK'
BY RenderShows DEF ledger_vars

\* What the drawer and the journey show now.
LEMMA ShownNow ==
  ASSUME TabInv
  PROVE  /\ transaction \in Drawer /\ TransactionOK(transaction, landed, signed)
         /\ journey \in Progress /\ ProgressOK(journey, landed)
BY DEF TabInv, ShownOK

\* A step reached by completing another leaves what is confirmed as it is.
LEMMA Completed ==
  ASSUME TabInv, NEW step \in StepNames,
         step \in {"confirmation", "feedback"} => journey.confirmed # Null
  PROVE  Complete(step) \in Progress /\ ProgressOK(Complete(step), landed)
<1>1. journey \in Progress /\ ProgressOK(journey, landed)
  BY ShownNow
<1>2. /\ Complete(step) \in Progress /\ Complete(step).step = step
      /\ Complete(step).confirmed = journey.confirmed
  BY <1>1 DEF Complete, Progress
<1>3. QED
  BY <1>1, <1>2 DEF ProgressOK

\* The steps of the journey.
LEMMA JourneyShows ==
  ASSUME TabInv, UNCHANGED ledger_vars, Journey
  PROVE  ShownOK'
<1> USE DEF Render
<1>1. CASE ChooseRole
  <2>1. /\ [journey EXCEPT !.role = TRUE] \in Progress
        /\ ProgressOK([journey EXCEPT !.role = TRUE], landed)
    BY ShownNow DEF Progress, ProgressOK
  <2>2. QED
    BY <1>1, <2>1, ShownNow, Rendered DEF ChooseRole
<1>2. ASSUME NEW step \in StepNames, Render(transaction, Complete(step)),
             step \in {"confirmation", "feedback"} => journey.confirmed # Null
      PROVE  ShownOK'
  <2>1. Complete(step) \in Progress /\ ProgressOK(Complete(step), landed)
    BY <1>2, Completed
  <2>2. QED
    BY <1>2, <2>1, ShownNow, Rendered
<1>3. CASE ContinueToWallet \/ ChooseAction
  BY <1>2, <1>3 DEF ContinueToWallet, ChooseAction, StepNames
<1>4. CASE ShareFeedback
  BY <1>2, <1>4 DEF ShareFeedback, StepNames
<1>5. CASE GoBack
  <2>1. PICK i \in 2..Len(Steps) :
          journey.step = Steps[i] /\ Render(transaction, Complete(Steps[i - 1]))
    BY <1>5 DEF GoBack
  <2>2. /\ Steps[i - 1] \in StepNames
        /\ Steps[i - 1] = "confirmation" => journey.step = "feedback"
        /\ Steps[i - 1] # "feedback"
    <3>1. i \in 2..6
      BY DEF Steps
    <3>2. CASE i = 2
      BY <2>1, <3>2 DEF Steps, StepNames
    <3>3. CASE i = 3
      BY <2>1, <3>3 DEF Steps, StepNames
    <3>4. CASE i = 4
      BY <2>1, <3>4 DEF Steps, StepNames
    <3>5. CASE i = 5
      BY <2>1, <3>5 DEF Steps, StepNames
    <3>6. CASE i = 6
      BY <2>1, <3>6 DEF Steps, StepNames
    <3>7. QED
      BY <3>1, <3>2, <3>3, <3>4, <3>5, <3>6
  <2>3. journey.step = "feedback" => journey.confirmed # Null
    BY ShownNow DEF ProgressOK
  <2>4. QED
    BY <1>2, <2>1, <2>2, <2>3
<1>6. CASE Restart
  BY <1>6, QuietDrawers, NothingConfirmed, Rendered DEF Restart
<1>7. CASE Begin
  BY <1>7, QuietDrawers, ShownNow, Rendered DEF Begin, LeaveOnboarding
<1>8. QED
  BY <1>1, <1>3, <1>4, <1>5, <1>6, <1>7 DEF Journey

\* The wallet, the drawer and the journey, at the user's will.
LEMMA WalletInv ==
  ASSUME TabInv, SentInv, LedgerTypes, UNCHANGED ledger_vars,
         \/ Connect \/ Disconnect \/ SwitchWallet \/ Dismiss
         \/ Journey \/ ContinueWithWallet \/ Join
  PROVE  TabInv' /\ SentInv' /\ LedgerTypes' /\ CallsKept
<1>1. UNCHANGED <<mutation, locks>>
  BY DEF Connect, Disconnect, SwitchWallet, Dismiss, Journey, ContinueWithWallet, Join
<1>2. TabTypes'
  <2>1. address' \in Accounts \cup {Null}
    BY DEF Connect, Disconnect, SwitchWallet, Dismiss, Journey, ContinueWithWallet, Join,
           Connects, ConnectFails, TabInv, TabTypes
  <2>2. wallet' \in [account : Accounts, testnet : BOOLEAN]
    BY DEF Connect, Disconnect, SwitchWallet, Dismiss, Journey, ContinueWithWallet, Join,
           TabInv, TabTypes
  <2>3. QED
    BY <2>1, <2>2 DEF TabTypes
<1>3. ShownOK'
  <2>1. CASE UNCHANGED <<transaction, journey, saved>>
    <3>1. Steady
      BY UntouchedIsSteady DEF ledger_vars
    <3>2. QED
      BY <2>1, <3>1, ShownUntouched DEF TabInv
  <2>2. CASE Render(ConnectFailed, journey) \/ Render(NoTransaction, journey)
    BY <2>2, QuietDrawers, ShownNow, Rendered DEF Render
  <2>3. CASE Render(transaction, Complete("testnet"))
    <3>1. Complete("testnet") \in Progress /\ ProgressOK(Complete("testnet"), landed)
      BY Completed DEF StepNames
    <3>2. QED
      BY <2>3, <3>1, ShownNow, Rendered DEF Render
  <2>4. CASE Journey
    BY <2>4, JourneyShows
  <2>5. QED
    BY <2>1, <2>2, <2>3, <2>4
       DEF Connect, Disconnect, SwitchWallet, Dismiss, ContinueWithWallet, Join
<1>4. QED
  BY <1>1, <1>2, <1>3, QuietTab

\* A reload ends every action and frees every lock; what has been sent stays
\* with the network.
LEMMA ReloadInv ==
  ASSUME TabInv, SentInv, LedgerTypes, Reload, UNCHANGED ledger_vars
  PROVE  TabInv' /\ SentInv' /\ LedgerTypes' /\ CallsKept
<1>1. \A m \in Mutations : mutation'[m] = IF mutation[m] = Unstarted THEN Unstarted ELSE Gone
  BY DEF Reload, Gone
<1>2. MutationTypes'
  BY DEF Reload, MutationTypes, Gone
<1>3. \A m \in Mutations : ~InFlight(m)'
  BY <1>1 DEF InFlight, Unstarted, Gone
<1>4. OneActionPerLabel'
  BY <1>3 DEF OneActionPerLabel, Reload
<1>5. ShownOK'
  <2>1. transaction' = NoTransaction /\ saved' = saved
        /\ journey' = IF saved = Null THEN NewJourney ELSE saved
    BY DEF Reload
  <2>2. UNCHANGED <<landed, signed>>
    BY DEF ledger_vars
  <2>3. QED
    BY <2>1, <2>2, QuietDrawers, NothingConfirmed DEF TabInv, ShownOK
<1>6. TabTypes'
  BY DEF Reload, TabInv, TabTypes
<1>7. SentInv'
  <2>1. ASSUME NEW m \in Mutations PROVE Built(m)' /\ Submitted(m)'
    <3>1. mutation'[m].at \in {"idle", "gone"}
      BY <1>1 DEF Unstarted, Gone
    <3>2. mutation[m].at \in Sent => mutation'[m].at \in Sent
      BY <1>1 DEF Unstarted, Gone, Sent
    <3>3. Built(m)'
      BY <3>1 DEF Built, Simulated
    <3>4. Submitted(m)'
      BY <3>2 DEF SentInv, Submitted, ledger_vars
    <3>5. QED
      BY <3>3, <3>4
  <2>2. ASSUME NEW m \in Mutations PROVE Lasting(m)'
    BY DEF SentInv, Lasting, CarriedOut, Closed, ledger_vars, signals_vars
  <2>3. QED
    BY <2>1, <2>2 DEF SentInv
<1>8. LedgerTypes'
  BY DEF LedgerTypes, ledger_vars, signals_vars
<1>9. CallsKept
  <2>1. \A m \in Mutations : mutation'[m] \notin Asked \cup Taken
    BY <1>1 DEF Unstarted, Gone, Asked, Taken, Flight
  <2>2. signed' = signed /\ mempool' = mempool
    BY DEF ledger_vars
  <2>3. QED
    BY <2>1, <2>2 DEF CallsKept
<1>10. QED
  BY <1>2, <1>4, <1>5, <1>6, <1>7, <1>8, <1>9 DEF TabInv

\* A click that starts an action.
LEMMA RunMutationInv ==
  ASSUME TabInv, SentInv, LedgerTypes, NEW m \in Mutations, NEW call \in Calls,
         RunMutation(m, call), UNCHANGED ledger_vars
  PROVE  /\ TabInv' /\ SentInv' /\ LedgerTypes'
         /\ mutation'[m].call = call /\ OthersWait(m)
<1>1. Steady /\ LedgerTypes'
  BY UntouchedIsSteady DEF ledger_vars, signals_vars, LedgerTypes
<1>2. /\ TabInv' /\ mutation[m] = Unstarted
      /\ mutation'[m].at \in {"connecting", "refused", "validating"}
      /\ mutation'[m].call = call
      /\ OthersWait(m)
  BY <1>1, Started DEF TabInv
<1>3. SentInv'
  BY <1>2, SentUntouched DEF Simulated, Sent, Unstarted
<1>4. QED
  BY <1>1, <1>2, <1>3

-----------------------------------------------------------------------------
(* The network.                                                             *)

\* A vote is final, and so is the evidence of an attempt that takes no other.
WorldLasts ==
  /\ \A v \in Voters : receipt[v] # NoVote => receipt'[v] = receipt[v]
  /\ \A n \in 1..MaxAttempts :
       Closed(n) => Closed(n)' /\ project'.evidence[n] = project.evidence[n]

\* What has been carried out stays so while the world only moves on.
LEMMA LastingKept ==
  ASSUME SentInv, NEW n \in Mutations, WorldLasts,
         signed'[n] = signed[n], landed'[n] = landed[n]
  PROVE  Lasting(n)'
<1> SUFFICES ASSUME landed[n] = "SUCCESS" PROVE Lasting(n)'
  BY DEF Lasting
<1>1. PICK tx \in Signed : tx = signed[n]
  BY DEF SentInv, Submitted
<1>2. /\ tx.by = tx.source
      /\ tx.call.label = "Cast signal" => receipt[tx.source] = tx.call.option
      /\ tx.call.label = "Anchor evidence hash" =>
           /\ project.evidence[tx.call.attempt] = tx.call.evidence
           /\ Closed(tx.call.attempt)
  BY <1>1 DEF SentInv, Lasting, CarriedOut
<1>3. tx.source \in Voters /\ tx.call \in Calls
  BY LedgerAssumption DEF Signed
<1>4. /\ tx.call.label = "Cast signal" => tx.call.option \in Nat
      /\ tx.call.label = "Anchor evidence hash" => tx.call.attempt \in 1..MaxAttempts
  BY <1>3 DEF Calls
<1>5. tx.call.label = "Cast signal" => receipt'[tx.source] = tx.call.option
  BY <1>2, <1>3, <1>4, SignalsAssumption DEF WorldLasts
<1>6. tx.call.label = "Anchor evidence hash" =>
        /\ project'.evidence[tx.call.attempt] = tx.call.evidence
        /\ Closed(tx.call.attempt)'
  BY <1>2, <1>4 DEF WorldLasts
<1>7. signed'[n] = tx /\ landed'[n] = "SUCCESS"
  BY <1>1
<1>8. QED
  BY ONLY <1>2, <1>5, <1>6, <1>7 DEF Lasting, CarriedOut, Closed

\* What a step of the network keeps when it lands nothing.
LEMMA WorldStep ==
  ASSUME TabInv, SentInv, LedgerTypes, WorldLasts, UNCHANGED <<calm_vars, signed, landed>>,
         mempool' \subseteq mempool, LedgerTypes'
  PROVE  TabInv' /\ SentInv' /\ LedgerTypes' /\ CallsKept
<1>1. ShownOK'
  BY UntouchedIsSteady, ShownUntouched DEF TabInv, calm_vars
<1>2. MutationTypes' /\ OneActionPerLabel' /\ TabTypes'
  BY DEF TabInv, MutationTypes, OneActionPerLabel, InFlight, TabTypes, calm_vars
<1>3. ASSUME NEW n \in Mutations PROVE Built(n)' /\ Submitted(n)'
  BY DEF SentInv, Built, Submitted, calm_vars
<1>4. ASSUME NEW n \in Mutations PROVE Lasting(n)'
  BY LastingKept
<1>5. CallsKept
  BY DEF CallsKept, calm_vars
<1>6. QED
  BY <1>1, <1>2, <1>3, <1>4, <1>5 DEF TabInv, SentInv

\* A vote, of whoever has not voted.
LEMMA VoteLasts ==
  ASSUME LedgerTypes, NEW v \in Voters, NEW option \in Nat, Vote(v, option), UNCHANGED project
  PROVE  /\ WorldLasts
         /\ receipt' \in [Voters -> Nat \cup {NoVote}] /\ receipt'[v] = option
         /\ options' = options
<1>1. /\ receipt' = [receipt EXCEPT ![v] = option] /\ receipt[v] = NoVote
      /\ options' = options
  BY DEF Vote
<1>2. receipt \in [Voters -> Nat \cup {NoVote}]
  BY DEF LedgerTypes
<1>3. /\ receipt' \in [Voters -> Nat \cup {NoVote}] /\ receipt'[v] = option
      /\ \A w \in Voters : receipt[w] # NoVote => receipt'[w] = receipt[w]
  BY <1>1, <1>2
<1>4. WorldLasts
  BY <1>3 DEF WorldLasts, Closed
<1>5. QED
  BY <1>1, <1>3, <1>4

Record == [attempt : 1..MaxAttempts, status : Statuses,
           evidence : [1..MaxAttempts -> AnchoredEvidence \cup {Null}]]

\* What happens to the milestone when nobody votes.
LEMMA MilestoneLasts ==
  ASSUME LedgerTypes, UNCHANGED signals_vars,
         project' \in Record,
         \A n \in 1..MaxAttempts : Closed(n) => Closed(n)',
         \A n \in 1..MaxAttempts : Closed(n) => project'.evidence[n] = project.evidence[n]
  PROVE  WorldLasts
BY DEF WorldLasts, signals_vars

\* An attempt that takes no evidence takes none after a rework either.
LEMMA ReworkLasts ==
  ASSUME LedgerTypes, Rework
  PROVE  WorldLasts /\ project' \in Record /\ project'.evidence = project.evidence
<1>1. project \in Record
  BY DEF LedgerTypes, Record
<1>2. /\ project.attempt < MaxAttempts /\ project.status = "under_review"
      /\ project' = [project EXCEPT !.status = "pending", !.attempt = @ + 1]
  BY DEF Rework
<1>3. /\ project' \in Record /\ project'.attempt = project.attempt + 1
      /\ project'.evidence = project.evidence
  <2>1. project.attempt + 1 \in 1..MaxAttempts /\ "pending" \in Statuses
    BY <1>1, <1>2, LedgerAssumption DEF Record, Statuses
  <2>2. project' = [attempt |-> project.attempt + 1, status |-> "pending",
                    evidence |-> project.evidence]
    BY <1>1, <1>2 DEF Record
  <2>3. QED
    BY <1>1, <2>1, <2>2 DEF Record
<1>4. \A n \in 1..MaxAttempts : Closed(n) => Closed(n)'
  BY <1>1, <1>3, LedgerAssumption DEF Closed, Record
<1>5. QED
  BY <1>3, <1>4, MilestoneLasts DEF Rework

\* A review that is opened closes nothing that was open.
LEMMA ReviewLasts ==
  ASSUME LedgerTypes, UNCHANGED signals_vars,
         project' = [project EXCEPT !.status = "under_review"]
  PROVE  WorldLasts /\ project' \in Record /\ project'.evidence = project.evidence
<1>1. project \in Record
  BY DEF LedgerTypes, Record
<1>2. /\ project' \in Record /\ project'.attempt = project.attempt
      /\ project'.status = "under_review" /\ project'.evidence = project.evidence
  BY <1>1 DEF Record, Statuses
<1>3. \A n \in 1..MaxAttempts : Closed(n) => Closed(n)'
  BY <1>2 DEF Closed
<1>4. QED
  BY <1>2, <1>3, MilestoneLasts

\* Evidence is anchored for the attempt that waits for it, and closes it.
LEMMA AnchorLasts ==
  ASSUME LedgerTypes, UNCHANGED signals_vars, NEW e \in AnchoredEvidence,
         project.status = "pending",
         project' = [project EXCEPT !.status = "evidence_submitted",
                                    !.evidence[project.attempt] = e]
  PROVE  /\ WorldLasts /\ project' \in Record
         /\ project'.evidence[project.attempt] = e /\ Closed(project.attempt)'
         /\ \A n \in 1..MaxAttempts :
              n # project.attempt => project'.evidence[n] = project.evidence[n]
<1> DEFINE k == project.attempt
<1>1. project \in Record /\ k \in 1..MaxAttempts
  BY DEF LedgerTypes, Record
<1>2. PICK given \in [1..MaxAttempts -> AnchoredEvidence \cup {Null}] :
        project.evidence = given
  BY <1>1 DEF Record
<1> DEFINE after == [given EXCEPT ![k] = e]
<1>3. /\ after \in [1..MaxAttempts -> AnchoredEvidence \cup {Null}] /\ after[k] = e
      /\ \A n \in 1..MaxAttempts : n # k => after[n] = given[n]
  BY <1>1, <1>2
<1>4. project' = [attempt |-> k, status |-> "evidence_submitted", evidence |-> after]
  BY <1>1, <1>2 DEF Record
<1> HIDE DEF k, after
<1>5. project' \in Record
  BY <1>1, <1>3, <1>4 DEF Record, Statuses
<1>6. /\ project'.attempt = k /\ project'.status = "evidence_submitted"
      /\ project'.evidence = after
  BY ONLY <1>4
<1>7. /\ project'.evidence[k] = e
      /\ \A n \in 1..MaxAttempts : n # k => project'.evidence[n] = project.evidence[n]
  BY <1>2, <1>3, <1>6
<1>8. Closed(k)' /\ \A n \in 1..MaxAttempts : Closed(n) => n # k /\ Closed(n)'
  BY <1>1, <1>6, LedgerAssumption DEF Closed, k
<1>9. WorldLasts
  BY <1>5, <1>7, <1>8, MilestoneLasts
<1>10. QED
  BY <1>5, <1>7, <1>8, <1>9 DEF k

\* Evidence is on record because a transaction anchored it.
EvidenceKept ==
  \A n \in 1..MaxAttempts :
    \/ project'.evidence[n] = Null
    \/ project'.evidence[n] = project.evidence[n]
    \/ \E m \in Mutations :
         /\ m \in mempool /\ IsAnchor(signed[m].call)
         /\ project'.evidence[n] = signed[m].call.evidence

\* Nothing new is on record.
LEMMA NoEvidenceAdded ==
  ASSUME project'.evidence = project.evidence
  PROVE  EvidenceKept
BY DEF EvidenceKept

\* What a call does when its ledger closes.
LEMMA ExecuteWorks ==
  ASSUME LedgerTypes, NEW m \in mempool, m \in Mutations,
         signed[m] \in Signed,
         Accepts(signed[m].call, signed[m].source),
         Execute(signed[m].call, signed[m].source)
  PROVE  /\ WorldLasts /\ EvidenceKept
         /\ receipt' \in [Voters -> Nat \cup {NoVote}] /\ options' = options
         /\ project' \in Record
         /\ signed[m].call.label = "Cast signal" =>
              receipt'[signed[m].source] = signed[m].call.option
         /\ signed[m].call.label = "Anchor evidence hash" =>
              /\ project'.evidence[signed[m].call.attempt] = signed[m].call.evidence
              /\ signed[m].call.attempt = project.attempt /\ Closed(project.attempt)'
<1>1. PICK tx \in Signed : tx = signed[m]
  OBVIOUS
<1>2. tx.source \in Voters /\ tx.call \in Calls
  BY LedgerAssumption DEF Signed
<1>3. Accepts(tx.call, tx.source) /\ Execute(tx.call, tx.source)
  BY <1>1
<1>4. project \in Record /\ receipt \in [Voters -> Nat \cup {NoVote}]
  BY DEF LedgerTypes, Record
<1> DEFINE
      Works == /\ WorldLasts /\ EvidenceKept
               /\ receipt' \in [Voters -> Nat \cup {NoVote}] /\ options' = options
               /\ project' \in Record
      Done  == /\ tx.call.label = "Cast signal" => receipt'[tx.source] = tx.call.option
               /\ tx.call.label = "Anchor evidence hash" =>
                    /\ project'.evidence[tx.call.attempt] = tx.call.evidence
                    /\ tx.call.attempt = project.attempt /\ Closed(project.attempt)'
<1>5. ASSUME tx.call.label = "Cast signal" PROVE Works /\ Done
  <2>1. Vote(tx.source, tx.call.option) /\ UNCHANGED project /\ tx.call.option \in Nat
    BY <1>2, <1>3, <1>5 DEF Execute, Calls
  <2>2. /\ WorldLasts
        /\ receipt' \in [Voters -> Nat \cup {NoVote}] /\ receipt'[tx.source] = tx.call.option
        /\ options' = options
    BY <1>2, <2>1, VoteLasts
  <2>3. EvidenceKept /\ project' \in Record
    BY <1>4, <2>1, NoEvidenceAdded
  <2>4. QED
    BY <1>5, <2>2, <2>3
<1>6. ASSUME tx.call.label = "Anchor evidence hash" PROVE Works /\ Done
  <2>1. /\ UNCHANGED signals_vars
        /\ project' = [project EXCEPT !.status = "evidence_submitted",
                                      !.evidence[project.attempt] = tx.call.evidence]
    BY <1>3, <1>6 DEF Execute
  <2>2. project.status = "pending" /\ tx.call.attempt = project.attempt
    BY <1>3, <1>6 DEF Accepts
  <2>3. tx.call.evidence \in AnchoredEvidence
    BY <1>2, <1>6 DEF Calls
  <2>4. /\ WorldLasts /\ project' \in Record
        /\ project'.evidence[project.attempt] = tx.call.evidence /\ Closed(project.attempt)'
        /\ \A n \in 1..MaxAttempts :
             n # project.attempt => project'.evidence[n] = project.evidence[n]
    BY <2>1, <2>2, <2>3, AnchorLasts
  <2>5. EvidenceKept
    <3>1. m \in mempool /\ IsAnchor(signed[m].call) /\ signed[m].call.evidence = tx.call.evidence
      BY <1>1, <1>6 DEF IsAnchor
    <3>2. QED
      BY <2>4, <3>1 DEF EvidenceKept
  <2>6. QED
    BY <1>4, <1>6, <2>1, <2>2, <2>4, <2>5 DEF signals_vars
<1>7. ASSUME tx.call.label = "Open evidence review" PROVE Works /\ Done
  <2>1. /\ UNCHANGED signals_vars
        /\ project' = [project EXCEPT !.status = "under_review"]
    BY <1>3, <1>7 DEF Execute
  <2>2. WorldLasts /\ project' \in Record /\ EvidenceKept
    BY <2>1, ReviewLasts, NoEvidenceAdded
  <2>3. QED
    BY <1>4, <1>7, <2>1, <2>2 DEF signals_vars
<1>8. Works /\ Done
  BY <1>2, <1>5, <1>6, <1>7 DEF Calls
<1>9. QED
  BY <1>1, <1>8

\* A ledger closes with one transaction: carried out for the account that
\* signed it, or failed.
LEMMA LandInv ==
  ASSUME TabInv, SentInv, LedgerTypes, NEW m \in Mutations, Land(m), UNCHANGED calm_vars
  PROVE  TabInv' /\ SentInv' /\ LedgerTypes' /\ CallsKept /\ EvidenceKept
<1>1. /\ m \in mempool /\ mempool' = mempool \ {m} /\ signed' = signed
      /\ sequence' = [sequence EXCEPT ![signed[m].source] = @ + 1]
  BY DEF Land
<1>2. /\ landed[m] = "NOT_FOUND" /\ mutation[m].at \in Sent
      /\ signed[m] \in Signed /\ signed[m].by = signed[m].source
  BY <1>1 DEF SentInv, Submitted
<1>3. sequence' \in [Accounts -> Nat]
  BY <1>1, <1>2 DEF LedgerTypes, Signed
<1>4. PICK outcome \in {"SUCCESS", "FAILED"} : landed' = [landed EXCEPT ![m] = outcome]
  BY DEF Land
<1>5. /\ landed'[m] = outcome /\ \A n \in Mutations \ {m} : landed'[n] = landed[n]
      /\ landed' \in [Mutations -> {"NOT_FOUND", "SUCCESS", "FAILED"}]
  BY <1>4 DEF LedgerTypes
<1>6. Steady
  BY <1>1, <1>2, <1>5 DEF Steady
<1>7. TabInv'
  <2>1. ShownOK'
    BY <1>6, ShownUntouched DEF TabInv, calm_vars
  <2>2. QED
    BY <2>1 DEF TabInv, MutationTypes, OneActionPerLabel, InFlight, TabTypes, calm_vars
<1>8. CASE outcome = "SUCCESS"
  <2>1. /\ Accepts(signed[m].call, signed[m].source)
        /\ Execute(signed[m].call, signed[m].source)
    <3>1. landed'[m] # "FAILED"
      BY <1>5, <1>8
    <3>2. landed' # [landed EXCEPT ![m] = "FAILED"]
      BY <3>1 DEF LedgerTypes
    <3>3. QED
      BY <3>2 DEF Land
  <2>2. /\ WorldLasts /\ EvidenceKept
        /\ receipt' \in [Voters -> Nat \cup {NoVote}] /\ options' = options
        /\ project' \in Record
        /\ signed[m].call.label = "Cast signal" =>
             receipt'[signed[m].source] = signed[m].call.option
        /\ signed[m].call.label = "Anchor evidence hash" =>
             /\ project'.evidence[signed[m].call.attempt] = signed[m].call.evidence
             /\ signed[m].call.attempt = project.attempt /\ Closed(project.attempt)'
    BY <1>1, <1>2, <2>1, ExecuteWorks
  <2>3. LedgerTypes'
    BY <1>1, <1>3, <1>5, <2>2 DEF LedgerTypes, Record
  <2>4. Lasting(m)'
    <3>1. PICK tx : tx = signed[m]
      OBVIOUS
    <3>2. tx.call.label = "Anchor evidence hash" => Closed(tx.call.attempt)'
      <4>1. CASE tx.call.label = "Anchor evidence hash"
        <5>1. tx.call.attempt = project.attempt /\ project'.attempt = project.attempt
          <6>1. Execute(signed[m].call, signed[m].source) /\ project \in Record
            BY <2>1 DEF LedgerTypes, Record
          <6>2. project' = [project EXCEPT !.status = "evidence_submitted",
                                          !.evidence[project.attempt] = signed[m].call.evidence]
            BY <3>1, <4>1, <6>1 DEF Execute
          <6>3. project'.attempt = project.attempt
            BY <6>1, <6>2 DEF Record
          <6>4. QED
            BY <2>2, <3>1, <4>1, <6>3
        <5>2. QED
          BY <2>2, <3>1, <4>1, <5>1 DEF Closed
      <4>2. QED
        BY <4>1
    <3>3. signed'[m] = tx /\ tx.by = tx.source
      BY <1>1, <1>2, <3>1
    <3>4. /\ tx.call.label = "Cast signal" => receipt'[tx.source] = tx.call.option
          /\ tx.call.label = "Anchor evidence hash" =>
               project'.evidence[tx.call.attempt] = tx.call.evidence
      BY <2>2, <3>1
    <3>5. landed'[m] = "SUCCESS"
      BY <1>5, <1>8
    <3>6. QED
      BY ONLY <3>2, <3>3, <3>4, <3>5 DEF Lasting, CarriedOut, Closed
  <2>5. ASSUME NEW n \in Mutations \ {m} PROVE Lasting(n)'
    BY <1>1, <1>5, <2>2, LastingKept
  <2>6. ASSUME NEW n \in Mutations PROVE Built(n)' /\ Submitted(n)'
    BY <1>1, <1>2, <1>5, <1>8 DEF SentInv, Built, Submitted, calm_vars
  <2>7. CallsKept
    BY <1>1 DEF CallsKept, calm_vars
  <2>8. QED
    BY <1>7, <2>2, <2>3, <2>4, <2>5, <2>6, <2>7 DEF SentInv
<1>9. CASE outcome = "FAILED"
  <2>1. UNCHANGED <<signals_vars, project>>
    <3>1. landed'[m] # "SUCCESS"
      BY <1>5, <1>9
    <3>2. landed' # [landed EXCEPT ![m] = "SUCCESS"]
      BY <3>1 DEF LedgerTypes
    <3>3. QED
      BY <3>2 DEF Land
  <2>2. WorldLasts /\ EvidenceKept
    BY <2>1 DEF WorldLasts, Closed, EvidenceKept, signals_vars
  <2>3. LedgerTypes'
    BY <1>1, <1>3, <1>5, <2>1 DEF LedgerTypes, signals_vars
  <2>4. Lasting(m)'
    BY <1>5, <1>9 DEF Lasting
  <2>5. ASSUME NEW n \in Mutations \ {m} PROVE Lasting(n)'
    BY <1>1, <1>5, <2>2, LastingKept
  <2>6. ASSUME NEW n \in Mutations PROVE Built(n)' /\ Submitted(n)'
    BY <1>1, <1>2, <1>5, <1>9 DEF SentInv, Built, Submitted, calm_vars
  <2>7. CallsKept
    BY <1>1 DEF CallsKept, calm_vars
  <2>8. QED
    BY <1>7, <2>2, <2>3, <2>4, <2>5, <2>6, <2>7 DEF SentInv
<1>10. QED
  BY <1>4, <1>8, <1>9

\* Everything else that happens on the network.
LEMMA NetworkStepInv ==
  ASSUME TabInv, SentInv, LedgerTypes, NetworkStep
  PROVE  TabInv' /\ SentInv' /\ LedgerTypes' /\ CallsKept /\ EvidenceKept
<1>1. UNCHANGED calm_vars
  BY DEF NetworkStep
<1>2. CASE \E m \in Mutations : Lands(m)
  BY <1>1, <1>2, LandInv DEF Lands
<1>3. CASE ReviewElsewhere
  <2>1. WorldLasts /\ project' \in Record /\ EvidenceKept
    BY <1>3, ReviewLasts, NoEvidenceAdded DEF ReviewElsewhere
  <2>2. LedgerTypes'
    BY <1>3, <2>1 DEF ReviewElsewhere, LedgerTypes, Record, signals_vars
  <2>3. QED
    BY <1>1, <1>3, <2>1, <2>2, WorldStep DEF ReviewElsewhere
<1>4. CASE \E m \in Mutations : Forget(m)
  <2>1. PICK m \in Mutations : Forget(m)
    BY <1>4
  <2>2. WorldLasts /\ EvidenceKept /\ LedgerTypes'
    BY <2>1 DEF Forget, WorldLasts, Closed, EvidenceKept, LedgerTypes, signals_vars
  <2>3. QED
    BY <1>1, <2>1, <2>2, WorldStep DEF Forget
<1>5. ASSUME NEW n \in OptionInputs, OpenPoll(n)
      PROVE  TabInv' /\ SentInv' /\ LedgerTypes' /\ CallsKept /\ EvidenceKept
  <2>1. WorldLasts /\ EvidenceKept
    BY <1>5 DEF OpenPoll, Initialize, WorldLasts, Closed, EvidenceKept
  <2>2. LedgerTypes'
    BY <1>5 DEF OpenPoll, Initialize, LedgerTypes
  <2>3. QED
    BY <1>1, <1>5, <2>1, <2>2, WorldStep DEF OpenPoll
<1>6. ASSUME NEW v \in Voters, NEW option \in 0..2, VoteElsewhere(v, option)
      PROVE  TabInv' /\ SentInv' /\ LedgerTypes' /\ CallsKept /\ EvidenceKept
  <2>1. /\ WorldLasts
        /\ receipt' \in [Voters -> Nat \cup {NoVote}] /\ options' = options
    BY <1>6, VoteLasts DEF VoteElsewhere
  <2>2. sequence' \in [Accounts -> Nat]
    BY <1>6 DEF VoteElsewhere, LedgerTypes
  <2>3. LedgerTypes' /\ EvidenceKept
    BY <1>6, <2>1, <2>2 DEF VoteElsewhere, LedgerTypes, EvidenceKept
  <2>4. QED
    BY <1>1, <1>6, <2>1, <2>3, WorldStep DEF VoteElsewhere
<1>7. CASE Rework
  <2>1. WorldLasts /\ project' \in Record /\ EvidenceKept
    BY <1>7, ReworkLasts, NoEvidenceAdded
  <2>2. LedgerTypes'
    BY <1>7, <2>1 DEF Rework, LedgerTypes, Record, signals_vars
  <2>3. QED
    BY <1>1, <1>7, <2>1, <2>2, WorldStep DEF Rework
<1>8. QED
  BY <1>2, <1>3, <1>4, <1>5, <1>6, <1>7 DEF NetworkStep

-----------------------------------------------------------------------------
(* The evidence service.                                                    *)

\* What is published stays, and is never half.
GrowsOnly ==
  /\ \A c \in Contents : Published(c) => Published(c)'
  /\ \A c \in Contents : Readable(c) => Readable(c)'
  /\ metadata \subseteq metadata'

\* A handler has an upload, and works for a file.
LEMMA HandlerTypes ==
  ASSUME StoreTypes, NEW h \in Handlers
  PROVE  /\ h[1] \in Uploads
         /\ handlers[h].at \notin {"idle", "refused"} =>
              /\ handlers[h] \in Worker /\ handlers[h].content \in Contents
              /\ handlers[h].at \in Working \ {"refused"}
<1>1. h[1] \in Uploads
  BY DEF Handlers
<1>2. handlers[h] \in {[at |-> "idle"], [at |-> "refused"]} \cup Worker
  BY DEF StoreTypes
<1>3. QED
  BY <1>1, <1>2 DEF Worker

\* A handler goes on to its next await, and no other moves.
LEMMA HandlerProceeds ==
  ASSUME StoreTypes, NEW h \in Handlers, handlers[h].at \notin {"idle", "refused"},
         NEW at \in Working, Proceeds(h, at)
  PROVE  /\ handlers' \in [Handlers -> {[at |-> "idle"], [at |-> "refused"]} \cup Worker]
         /\ handlers'[h].at = at /\ handlers'[h].content = handlers[h].content
         /\ \A k \in Handlers \ {h} : handlers'[k] = handlers[k]
<1>1. handlers[h] \in Worker
  BY HandlerTypes
<1>2. /\ handlers'[h] = [handlers[h] EXCEPT !.at = at]
      /\ \A k \in Handlers \ {h} : handlers'[k] = handlers[k]
  BY DEF Proceeds, StoreTypes
<1>3. /\ handlers'[h] \in Worker /\ handlers'[h].at = at
      /\ handlers'[h].content = handlers[h].content
  BY <1>1, <1>2 DEF Worker
<1>4. handlers' \in [Handlers -> {[at |-> "idle"], [at |-> "refused"]} \cup Worker]
  BY <1>2, <1>3 DEF Proceeds, StoreTypes
<1>5. QED
  BY <1>2, <1>3, <1>4

\* What a step of one handler has to show.
LEMMA HandlerStepInv ==
  ASSUME StoreTypes, StoreInv, StoreTypes', NEW h \in Handlers, UNCHANGED flow,
         \A k \in Handlers \ {h} : handlers'[k] = handlers[k],
         handlers'[h].at \notin {"idle", "refused"} =>
           /\ flow[h[1]].at \in Reached
           /\ handlers'[h].content = flow[h[1]].content,
         \A u \in Uploads : uploads'[u] \in {None, uploads[u]},
         GrowsOnly, Progressed(h)', \A k \in Handlers : OneWriter(k)'
  PROVE  StoreInv'
<1>1. ASSUME NEW u \in Uploads PROVE ReservationOK(u)' /\ UploadDone(u)'
  <2>1. ReservationOK(u) /\ UploadDone(u)
    BY DEF StoreInv
  <2>2. ReservationOK(u)'
    BY <2>1 DEF ReservationOK
  <2>3. UploadDone(u)'
    <3>1. flow[u].at \in {"describing", "stored"} => flow[u].content \in Contents
      BY DEF StoreTypes, Upload
    <3>2. PICK c : c = flow[u].content
      OBVIOUS
    <3>3. flow[u].at \in {"describing", "stored"} => Readable(c)'
      BY <2>1, <3>1, <3>2 DEF UploadDone, GrowsOnly
    <3>4. flow' = flow
      OBVIOUS
    <3>5. QED
      BY ONLY <3>2, <3>3, <3>4 DEF UploadDone, Readable, Published
  <2>4. QED
    BY <2>2, <2>3
<1>2. ASSUME NEW k \in Handlers PROVE OfItsUpload(k)'
  <2>1. OfItsUpload(k)
    BY DEF StoreInv
  <2>2. QED
    BY <2>1 DEF OfItsUpload
<1>3. ASSUME NEW k \in Handlers, k # h PROVE Progressed(k)'
  <2>1. handlers'[k] = handlers[k] /\ Progressed(k)
    BY <1>3 DEF StoreInv
  <2>2. handlers[k].at \in {"clearing", "typing", "filling", "created"}
          => handlers[k].content \in Contents
    BY HandlerTypes
  <2>3. PICK c : c = handlers[k].content
    OBVIOUS
  <2>4. /\ handlers[k].at \in {"clearing", "typing", "filling", "created"} => Published(c)'
        /\ handlers[k].at \in {"filling", "created"} => Readable(c)'
    BY <2>1, <2>2, <2>3 DEF Progressed, GrowsOnly
  <2>5. QED
    BY ONLY <2>1, <2>3, <2>4 DEF Progressed, Readable, Published
<1>4. QED
  BY <1>1, <1>2, <1>3 DEF StoreInv

\* The files published and described stay as they are.
LEMMA NothingPublished ==
  ASSUME UNCHANGED <<published, mediaType>>, metadata \subseteq metadata'
  PROVE  GrowsOnly
BY DEF GrowsOnly, Readable, Published

\* A PUT arrives for an upload that the page has been given.
LEMMA ReceiveInv ==
  ASSUME StoreTypes, StoreInv, NEW h \in Handlers, Receive(h), UNCHANGED flow
  PROVE  StoreTypes' /\ StoreInv' /\ GrowsOnly
<1> DEFINE entry == IF uploads[h[1]] = None THEN [at |-> "refused"]
                    ELSE [at |-> "opening", content |-> uploads[h[1]]]
<1>1. /\ handlers[h].at = "idle" /\ handlers' = [handlers EXCEPT ![h] = entry]
      /\ UNCHANGED <<uploads, temporary, published, mediaType, metadata>>
  BY DEF Receive
<1>2. /\ entry \in {[at |-> "refused"]} \cup Worker
      /\ entry.at \in {"refused", "opening"}
      /\ entry.at = "opening" => entry.content = uploads[h[1]] /\ uploads[h[1]] # None
  BY HandlerTypes DEF StoreTypes, Worker, Working
<1> HIDE DEF entry
<1>3. handlers'[h] = entry /\ \A k \in Handlers \ {h} : handlers'[k] = handlers[k]
  BY <1>1 DEF StoreTypes
<1>4. StoreTypes'
  BY <1>1, <1>2, <1>3 DEF StoreTypes
<1>5. GrowsOnly
  BY <1>1, NothingPublished
<1>6. Progressed(h)'
  BY <1>2, <1>3 DEF Progressed
<1>7. handlers'[h].at \notin {"idle", "refused"} =>
        flow[h[1]].at \in Reached /\ handlers'[h].content = flow[h[1]].content
  <2>1. ReservationOK(h[1])
    BY HandlerTypes DEF StoreInv
  <2>2. QED
    BY <1>2, <1>3, <2>1 DEF ReservationOK
<1>8. ASSUME NEW k \in Handlers PROVE OneWriter(k)'
  <2>1. OneWriter(k)
    BY DEF StoreInv
  <2>2. CASE k = h
    BY <1>2, <1>3, <2>2 DEF OneWriter
  <2>3. CASE k # h
    <3>1. handlers'[k] = handlers[k] /\ temporary' = temporary
      BY <1>1, <1>3, <2>3
    <3>2. \A j \in Rivals(k) : j # h => handlers'[j] = handlers[j]
      BY <1>3 DEF Rivals
    <3>3. handlers[h].at = "idle" /\ handlers'[h].at \in {"refused", "opening"}
      BY <1>1, <1>2, <1>3
    <3>4. QED
      BY <2>1, <3>1, <3>2, <3>3 DEF OneWriter
  <2>4. QED
    BY <2>2, <2>3
<1>9. QED
  BY <1>1, <1>3, <1>4, <1>5, <1>6, <1>7, <1>8, HandlerStepInv

\* A handler of another upload has nothing to do with this one's file.
LEMMA OtherUploads ==
  ASSUME StoreTypes, StoreInv, NEW h \in Handlers, NEW k \in Handlers, k[1] # h[1],
         \A j \in Handlers \ {h} : handlers'[j] = handlers[j],
         temporary'[k[1]] = temporary[k[1]]
  PROVE  OneWriter(k)'
<1>1. OneWriter(k) /\ handlers'[k] = handlers[k]
  BY DEF StoreInv
<1>2. \A j \in Rivals(k) : handlers'[j] = handlers[j]
  BY DEF Rivals
<1>3. QED
  BY <1>1, <1>2 DEF OneWriter

\* The temporary file is opened only by whoever finds none.
LEMMA OpenTemporaryInv ==
  ASSUME StoreTypes, StoreInv, NEW h \in Handlers, OpenTemporary(h), UNCHANGED flow
  PROVE  StoreTypes' /\ StoreInv' /\ GrowsOnly
<1> DEFINE u == h[1]
<1>1. /\ handlers[h].at = "opening" /\ u \in Uploads
      /\ UNCHANGED <<uploads, published, mediaType, metadata>>
  BY HandlerTypes DEF OpenTemporary
<1>2. PICK at \in {"writing", "refused"} :
        /\ Proceeds(h, at)
        /\ at = "writing" => temporary[u] = "absent"
                               /\ temporary' = [temporary EXCEPT ![u] = "partial"]
        /\ at = "refused" => temporary' = temporary
  BY DEF OpenTemporary
<1>3. /\ handlers' \in [Handlers -> {[at |-> "idle"], [at |-> "refused"]} \cup Worker]
      /\ handlers'[h].at = at /\ handlers'[h].content = handlers[h].content
      /\ \A k \in Handlers \ {h} : handlers'[k] = handlers[k]
  BY <1>1, <1>2, HandlerProceeds DEF Working
<1>4. /\ temporary' \in [Uploads -> FileStates]
      /\ \A w \in Uploads : w # u => temporary'[w] = temporary[w]
      /\ at = "writing" => temporary'[u] = "partial"
  BY <1>1, <1>2 DEF StoreTypes, FileStates
<1>5. StoreTypes'
  BY <1>1, <1>3, <1>4 DEF StoreTypes
<1>6. GrowsOnly
  BY <1>1, NothingPublished
<1>7. Progressed(h)'
  BY <1>3 DEF Progressed
<1>8. flow[u].at \in Reached /\ handlers'[h].content = flow[u].content
  BY <1>1, <1>3 DEF StoreInv, OfItsUpload
<1>9. ASSUME NEW k \in Handlers PROVE OneWriter(k)'
  <2>1. CASE k[1] # u
    <3>1. k[1] \in Uploads
      BY HandlerTypes
    <3>2. temporary'[k[1]] = temporary[k[1]]
      BY <1>4, <2>1, <3>1
    <3>3. QED
      BY <1>3, <2>1, <3>2, OtherUploads
  <2>2. CASE k = h
    <3>1. ASSUME at = "writing", NEW j \in Rivals(h)
          PROVE  handlers'[j].at \notin {"writing", "renaming"}
      <4>1. j \in Handlers /\ j # h /\ j[1] = u /\ h \in Rivals(j)
        BY <3>1 DEF Rivals
      <4>2. OneWriter(j) /\ temporary[u] = "absent"
        BY <1>2, <3>1, <4>1 DEF StoreInv
      <4>3. handlers[j].at \notin {"writing", "renaming"}
        BY <1>1, <4>1, <4>2 DEF OneWriter
      <4>4. QED
        BY <1>3, <4>1, <4>3
    <3>2. /\ handlers'[h].at = at
          /\ at = "writing" => temporary'[h[1]] = "partial"
      BY <1>3, <1>4
    <3>3. OneWriter(h)'
      <4>1. CASE at = "writing"
        <5>1. \A j \in Rivals(h) : handlers'[j].at \notin {"writing", "renaming"}
          BY <3>1, <4>1
        <5>2. QED
          BY ONLY <3>2, <4>1, <5>1 DEF OneWriter, Rivals
      <4>2. CASE at = "refused"
        BY ONLY <3>2, <4>2 DEF OneWriter
      <4>3. QED
        BY <4>1, <4>2
    <3>4. QED
      BY <2>2, <3>3
  <2>3. CASE k # h /\ k[1] = u
    <3>1. OneWriter(k) /\ handlers'[k] = handlers[k] /\ h \in Rivals(k)
      BY <1>3, <2>3 DEF StoreInv, Rivals
    <3>2. \A j \in Rivals(k) : j # h => handlers'[j] = handlers[j]
      BY <1>3 DEF Rivals
    <3>3. CASE at = "writing"
      <4>1. handlers[k].at \notin {"writing", "renaming"}
        BY <1>1, <1>2, <2>3, <3>1, <3>3 DEF OneWriter
      <4>2. QED
        BY <3>1, <4>1 DEF OneWriter
    <3>4. CASE at = "refused"
      BY <1>2, <1>3, <2>3, <3>1, <3>2, <3>4 DEF OneWriter
    <3>5. QED
      BY <3>3, <3>4
  <2>4. QED
    BY <2>1, <2>2, <2>3
<1>10. QED
  BY <1>1, <1>3, <1>5, <1>6, <1>7, <1>8, <1>9, HandlerStepInv

\* The bytes go to the file of whoever opened it.
LEMMA WriteTemporaryInv ==
  ASSUME StoreTypes, StoreInv, NEW h \in Handlers, WriteTemporary(h), UNCHANGED flow
  PROVE  StoreTypes' /\ StoreInv' /\ GrowsOnly
<1> DEFINE u == h[1]
<1>1. /\ handlers[h].at = "writing" /\ u \in Uploads /\ Proceeds(h, "renaming")
      /\ temporary' = [temporary EXCEPT ![u] = IF @ = "partial" THEN "whole" ELSE @]
      /\ UNCHANGED <<uploads, published, mediaType, metadata>>
  BY HandlerTypes DEF WriteTemporary
<1>2. /\ handlers' \in [Handlers -> {[at |-> "idle"], [at |-> "refused"]} \cup Worker]
      /\ handlers'[h].at = "renaming" /\ handlers'[h].content = handlers[h].content
      /\ \A k \in Handlers \ {h} : handlers'[k] = handlers[k]
  BY <1>1, HandlerProceeds DEF Working
<1>3. /\ temporary' \in [Uploads -> FileStates]
      /\ \A w \in Uploads : w # u => temporary'[w] = temporary[w]
      /\ temporary[u] = "partial" => temporary'[u] = "whole"
      /\ temporary[u] = "absent" => temporary'[u] = "absent"
  BY <1>1 DEF StoreTypes, FileStates
<1>4. StoreTypes'
  BY <1>1, <1>2, <1>3 DEF StoreTypes
<1>5. GrowsOnly
  BY <1>1, NothingPublished
<1>6. Progressed(h)'
  BY <1>2 DEF Progressed
<1>7. flow[u].at \in Reached /\ handlers'[h].content = flow[u].content
  BY <1>1, <1>2 DEF StoreInv, OfItsUpload
<1>8. OneWriter(h)
  BY DEF StoreInv
<1>9. ASSUME NEW k \in Handlers PROVE OneWriter(k)'
  <2>1. CASE k[1] # u
    <3>1. k[1] \in Uploads
      BY HandlerTypes
    <3>2. temporary'[k[1]] = temporary[k[1]]
      BY <1>3, <2>1, <3>1
    <3>3. QED
      BY <1>2, <2>1, <3>2, OtherUploads
  <2>2. CASE k = h
    <3>1. \A j \in Rivals(h) : handlers'[j] = handlers[j]
      BY <1>2 DEF Rivals
    <3>2. QED
      BY <1>1, <1>2, <1>3, <1>8, <2>2, <3>1 DEF OneWriter
  <2>3. CASE k # h /\ k[1] = u
    <3>1. k \in Rivals(h) /\ handlers'[k] = handlers[k]
      BY <1>2, <2>3 DEF Rivals
    <3>2. handlers[k].at \notin {"writing", "renaming"}
      BY <1>1, <1>8, <3>1 DEF OneWriter
    <3>3. QED
      BY <3>1, <3>2 DEF OneWriter
  <2>4. QED
    BY <2>1, <2>2, <2>3
<1>10. QED
  BY <1>1, <1>2, <1>4, <1>5, <1>6, <1>7, <1>9, HandlerStepInv

\* What is renamed is whole, so a file published whole stays whole.
LEMMA RenameInv ==
  ASSUME StoreTypes, StoreInv, NEW h \in Handlers, Rename(h), UNCHANGED flow
  PROVE  StoreTypes' /\ StoreInv' /\ GrowsOnly
<1> DEFINE u == h[1]
           c == handlers[h].content
<1>1. /\ handlers[h].at = "renaming" /\ u \in Uploads /\ c \in Contents
      /\ UNCHANGED <<uploads, mediaType, metadata>>
  BY HandlerTypes DEF Rename
<1>2. OneWriter(h)
  BY DEF StoreInv
<1>3. /\ temporary[u] \in {"absent", "whole"}
      /\ \A j \in Rivals(h) : handlers[j].at \notin {"writing", "renaming"}
  BY <1>1, <1>2 DEF OneWriter
<1>4. PICK at \in {"clearing", "failing"} :
        /\ Proceeds(h, at)
        /\ at = "clearing" => /\ published' = [published EXCEPT ![c] = "whole"]
                              /\ temporary' = [temporary EXCEPT ![u] = "absent"]
        /\ at = "failing" => UNCHANGED <<published, temporary>>
  BY <1>3 DEF Rename
<1>5. /\ handlers' \in [Handlers -> {[at |-> "idle"], [at |-> "refused"]} \cup Worker]
      /\ handlers'[h].at = at /\ handlers'[h].content = c
      /\ \A k \in Handlers \ {h} : handlers'[k] = handlers[k]
  BY <1>1, <1>4, HandlerProceeds DEF Working
<1>6. /\ temporary' \in [Uploads -> FileStates]
      /\ \A w \in Uploads : w # u => temporary'[w] = temporary[w]
  BY <1>1, <1>4 DEF StoreTypes, FileStates
<1>7. /\ published' \in [Contents -> FileStates]
      /\ at = "clearing" => published'[c] = "whole"
      /\ \A d \in Contents : published[d] = "whole" => published'[d] = "whole"
  BY <1>1, <1>4 DEF StoreTypes, FileStates
<1>8. StoreTypes'
  BY <1>1, <1>5, <1>6, <1>7 DEF StoreTypes
<1>9. GrowsOnly
  BY <1>1, <1>7 DEF GrowsOnly, Readable, Published
<1>10. Progressed(h)'
  BY <1>5, <1>7 DEF Progressed, Published
<1>11. flow[u].at \in Reached /\ handlers'[h].content = flow[u].content
  BY <1>1, <1>5 DEF StoreInv, OfItsUpload
<1>12. ASSUME NEW k \in Handlers PROVE OneWriter(k)'
  <2>1. CASE k[1] # u
    <3>1. k[1] \in Uploads
      BY HandlerTypes
    <3>2. temporary'[k[1]] = temporary[k[1]]
      BY <1>6, <2>1, <3>1
    <3>3. QED
      BY <1>5, <2>1, <3>2, OtherUploads
  <2>2. CASE k = h
    BY <1>5, <2>2 DEF OneWriter
  <2>3. CASE k # h /\ k[1] = u
    <3>1. k \in Rivals(h) /\ handlers'[k] = handlers[k]
      BY <1>5, <2>3 DEF Rivals
    <3>2. QED
      BY <1>3, <3>1 DEF OneWriter
  <2>4. QED
    BY <2>1, <2>2, <2>3
<1>13. QED
  BY <1>1, <1>5, <1>8, <1>9, <1>10, <1>11, <1>12, HandlerStepInv

\* There are two deliveries of a PUT at most.
LEMMA OneRival ==
  ASSUME NEW h \in Handlers, NEW k \in Rivals(h)
  PROVE  h \in Rivals(k) /\ \A j \in Rivals(k) : j = h
<1>1. ASSUME NEW j \in Handlers PROVE j = <<j[1], j[2]>> /\ j[2] \in 1..2
  <2>1. PICK v \in Uploads, n \in Deliveries : j = <<v, n>>
    BY DEF Handlers
  <2>2. j[1] = v /\ j[2] = n /\ n \in 1..2
    BY <2>1, EvidenceStoreAssumption
  <2>3. QED
    BY <2>1, <2>2
<1>2. k \in Handlers /\ k[1] = h[1] /\ k # h
  BY DEF Rivals
<1>3. k[2] # h[2]
  BY <1>1, <1>2
<1>4. ASSUME NEW j \in Rivals(k) PROVE j = h
  <2>1. j \in Handlers /\ j[1] = h[1] /\ j # k
    BY <1>2 DEF Rivals
  <2>2. j[2] # k[2]
    BY <1>1, <1>2, <2>1
  <2>3. j[2] = h[2]
    BY <1>1, <1>2, <1>3, <2>1, <2>2
  <2>4. QED
    BY <1>1, <2>1, <2>3
<1>5. QED
  BY <1>2, <1>4 DEF Rivals

\* The file is removed under the other delivery, which has no rival left.
LEMMA ClearInv ==
  ASSUME StoreTypes, StoreInv, NEW h \in Handlers, Clear(h), UNCHANGED flow
  PROVE  StoreTypes' /\ StoreInv' /\ GrowsOnly
<1> DEFINE u == h[1]
<1>1. /\ handlers[h].at \in {"clearing", "failing"} /\ u \in Uploads
      /\ temporary' = [temporary EXCEPT ![u] = "absent"]
      /\ uploads' = [uploads EXCEPT ![u] = None]
      /\ UNCHANGED <<published, mediaType, metadata>>
  BY HandlerTypes DEF Clear
<1>2. PICK at \in {"typing", "refused"} :
        Proceeds(h, at) /\ (at = "typing" => handlers[h].at = "clearing")
  BY DEF Clear
<1>3. /\ handlers' \in [Handlers -> {[at |-> "idle"], [at |-> "refused"]} \cup Worker]
      /\ handlers'[h].at = at /\ handlers'[h].content = handlers[h].content
      /\ \A k \in Handlers \ {h} : handlers'[k] = handlers[k]
  BY <1>1, <1>2, HandlerProceeds DEF Working
<1>4. /\ temporary' \in [Uploads -> FileStates] /\ temporary'[u] = "absent"
      /\ \A w \in Uploads : w # u => temporary'[w] = temporary[w]
  BY <1>1 DEF StoreTypes, FileStates
<1>5. /\ uploads' \in [Uploads -> Contents \cup {None}]
      /\ \A w \in Uploads : uploads'[w] \in {None, uploads[w]}
  BY <1>1 DEF StoreTypes
<1>6. StoreTypes'
  BY <1>1, <1>3, <1>4, <1>5 DEF StoreTypes
<1>7. GrowsOnly
  BY <1>1, NothingPublished
<1>8. Progressed(h)'
  <2>1. Progressed(h)
    BY DEF StoreInv
  <2>2. QED
    BY <1>1, <1>2, <1>3, <2>1 DEF Progressed, Published
<1>9. flow[u].at \in Reached /\ handlers'[h].content = flow[u].content
  BY <1>1, <1>3 DEF StoreInv, OfItsUpload
<1>10. ASSUME NEW k \in Handlers PROVE OneWriter(k)'
  <2>1. CASE k[1] # u
    <3>1. k[1] \in Uploads
      BY HandlerTypes
    <3>2. temporary'[k[1]] = temporary[k[1]]
      BY <1>4, <2>1, <3>1
    <3>3. QED
      BY <1>3, <2>1, <3>2, OtherUploads
  <2>2. CASE k = h
    BY <1>3, <2>2 DEF OneWriter
  <2>3. CASE k # h /\ k[1] = u
    <3>1. k \in Rivals(h)
      BY <2>3 DEF Rivals
    <3>2. \A j \in Rivals(k) : j = h
      BY <3>1, OneRival
    <3>3. handlers'[h].at \in {"typing", "refused"} /\ temporary'[k[1]] = "absent"
      BY <1>3, <1>4, <2>3
    <3>4. \A j \in Rivals(k) :
            handlers'[j].at \notin {"idle", "opening", "writing", "renaming"}
      BY <3>2, <3>3
    <3>5. QED
      BY <3>3, <3>4 DEF OneWriter, Rivals
  <2>4. QED
    BY <2>1, <2>2, <2>3
<1>11. QED
  BY <1>3, <1>5, <1>6, <1>7, <1>8, <1>9, <1>10, HandlerStepInv


\* The media type is written, and written again, beside a file that is there.
LEMMA MediaTypeInv ==
  ASSUME StoreTypes, StoreInv, NEW h \in Handlers,
         TruncateMediaType(h) \/ WriteMediaType(h), UNCHANGED flow
  PROVE  StoreTypes' /\ StoreInv' /\ GrowsOnly
<1> DEFINE c == handlers[h].content
<1>1. /\ handlers[h].at \in {"typing", "filling"} /\ h[1] \in Uploads /\ c \in Contents
      /\ UNCHANGED <<uploads, temporary, published, metadata>>
  BY HandlerTypes DEF TruncateMediaType, WriteMediaType
<1>2. PICK at \in {"filling", "created"}, written \in {"partial", "whole"} :
        Proceeds(h, at) /\ mediaType' = [mediaType EXCEPT ![c] = written]
  BY DEF TruncateMediaType, WriteMediaType
<1>3. /\ handlers' \in [Handlers -> {[at |-> "idle"], [at |-> "refused"]} \cup Worker]
      /\ handlers'[h].at = at /\ handlers'[h].content = c
      /\ \A k \in Handlers \ {h} : handlers'[k] = handlers[k]
  BY <1>1, <1>2, HandlerProceeds DEF Working
<1>4. /\ mediaType' \in [Contents -> FileStates] /\ mediaType'[c] # "absent"
      /\ \A d \in Contents : mediaType[d] # "absent" => mediaType'[d] # "absent"
  BY <1>1, <1>2 DEF StoreTypes, FileStates
<1>5. StoreTypes'
  BY <1>1, <1>3, <1>4 DEF StoreTypes
<1>6. GrowsOnly
  BY <1>1, <1>4 DEF GrowsOnly, Readable, Published
<1>7. Progressed(h)'
  <2>1. Progressed(h)
    BY DEF StoreInv
  <2>2. published[c] = "whole"
    BY <1>1, <2>1 DEF Progressed, Published
  <2>3. QED
    BY <1>1, <1>3, <1>4, <2>2 DEF Progressed, Readable, Published
<1>8. flow[h[1]].at \in Reached /\ handlers'[h].content = flow[h[1]].content
  BY <1>1, <1>3 DEF StoreInv, OfItsUpload
<1>9. ASSUME NEW k \in Handlers PROVE OneWriter(k)'
  <2>1. OneWriter(k) /\ temporary' = temporary
    BY <1>1 DEF StoreInv
  <2>2. CASE k = h
    BY <1>3, <2>2 DEF OneWriter
  <2>3. CASE k # h
    <3>1. handlers'[k] = handlers[k]
      BY <1>3, <2>3
    <3>2. \A j \in Rivals(k) : j # h => handlers'[j] = handlers[j]
      BY <1>3 DEF Rivals
    <3>3. QED
      BY <1>3, <2>1, <3>1, <3>2 DEF OneWriter
  <2>4. QED
    BY <2>2, <2>3
<1>10. QED
  BY <1>1, <1>3, <1>5, <1>6, <1>7, <1>8, <1>9, HandlerStepInv

\* A handler goes on.
LEMMA ServeInv ==
  ASSUME StoreTypes, StoreInv, NEW h \in Handlers, Serve(h), UNCHANGED flow
  PROVE  StoreTypes' /\ StoreInv' /\ GrowsOnly
BY OpenTemporaryInv, WriteTemporaryInv, RenameInv, ClearInv, MediaTypeInv DEF Serve

\* What a step has to show that moves no handler on.
LEMMA NobodyServed ==
  ASSUME StoreTypes, StoreInv, UNCHANGED <<temporary, published, mediaType>>,
         metadata \subseteq metadata',
         \A h \in Handlers :
           handlers'[h] = handlers[h] \/ handlers'[h].at \in {"idle", "refused"},
         \A h \in Handlers :
           handlers'[h].at \in {"idle", "opening", "writing", "renaming"} =>
             handlers'[h] = handlers[h],
         \A u \in Uploads : ReservationOK(u)',
         \A u \in Uploads : flow[u].at \in Reached =>
           flow'[u].at \in Reached /\ flow'[u].content = flow[u].content,
         \A u \in Uploads : UploadDone(u)'
  PROVE  StoreInv' /\ GrowsOnly
<1>1. ASSUME NEW h \in Handlers PROVE OfItsUpload(h)' /\ OneWriter(h)' /\ Progressed(h)'
  <2>1. OfItsUpload(h) /\ OneWriter(h) /\ Progressed(h) /\ h[1] \in Uploads
    BY HandlerTypes DEF StoreInv
  <2>2. CASE handlers'[h].at \in {"idle", "refused"}
    BY <2>2 DEF OfItsUpload, OneWriter, Progressed
  <2>3. CASE handlers'[h] = handlers[h] /\ handlers'[h].at \notin {"idle", "refused"}
    <3>1. OfItsUpload(h)'
      BY <2>1, <2>3 DEF OfItsUpload
    <3>2. Progressed(h)'
      BY <2>1, <2>3 DEF Progressed, Readable, Published
    <3>3. \A j \in Rivals(h) : handlers'[j].at \in {"idle", "opening", "writing", "renaming"}
                                 => handlers'[j] = handlers[j]
      BY DEF Rivals
    <3>4. OneWriter(h)'
      BY <2>1, <2>3, <3>3 DEF OneWriter
    <3>5. QED
      BY <3>1, <3>2, <3>4
  <2>4. QED
    BY <2>2, <2>3
<1>2. QED
  BY <1>1, NothingPublished DEF StoreInv

\* The page's part is left alone.
LEMMA DoneStays ==
  ASSUME StoreTypes, StoreInv, UNCHANGED <<published, mediaType, flow>>
  PROVE  \A u \in Uploads : UploadDone(u)'
BY DEF StoreInv, UploadDone, Readable, Published

\* An upload expires.
LEMMA ExpireInv ==
  ASSUME StoreTypes, StoreInv, NEW u \in Uploads, Expire(u), UNCHANGED flow
  PROVE  StoreTypes' /\ StoreInv' /\ GrowsOnly
<1>1. /\ uploads' = [uploads EXCEPT ![u] = None]
      /\ UNCHANGED <<temporary, published, mediaType, metadata, handlers>>
  BY DEF Expire
<1>2. StoreTypes' /\ \A w \in Uploads : uploads'[w] \in {None, uploads[w]}
  BY <1>1 DEF StoreTypes
<1>3. \A w \in Uploads : ReservationOK(w)'
  BY <1>2 DEF StoreInv, ReservationOK
<1>4. QED
  BY <1>1, <1>2, <1>3, DoneStays, NobodyServed

\* A crash ends the handlers and forgets the reservations.
LEMMA CrashInv ==
  ASSUME StoreTypes, StoreInv, Crash, UNCHANGED flow
  PROVE  StoreTypes' /\ StoreInv' /\ GrowsOnly
<1>1. /\ uploads' = [u \in Uploads |-> None]
      /\ UNCHANGED <<temporary, published, mediaType, metadata>>
  BY DEF Crash
<1>2. \A h \in Handlers :
        handlers'[h] = IF handlers[h].at \in {"idle", "created"} THEN handlers[h]
                       ELSE [at |-> "refused"]
  BY DEF Crash
<1>3. StoreTypes'
  BY <1>1 DEF Crash, StoreTypes
<1>4. \A w \in Uploads : ReservationOK(w)'
  BY <1>1 DEF ReservationOK
<1>5. /\ \A h \in Handlers :
           handlers'[h] = handlers[h] \/ handlers'[h].at \in {"idle", "refused"}
      /\ \A h \in Handlers :
           handlers'[h].at \in {"idle", "opening", "writing", "renaming"} =>
             handlers'[h] = handlers[h]
  BY <1>2
<1>6. QED
  BY <1>1, <1>3, <1>4, <1>5, DoneStays, NobodyServed

-----------------------------------------------------------------------------
(* Uploads, as the page goes through them.                                  *)

\* An upload goes on, and no other does.
LEMMA UploadMoves ==
  ASSUME StoreTypes, NEW u \in Uploads, NEW from, from # "idle", from = flow[u].at,
         NEW to \in {"putting", "describing", "stored", "unsent", "failed"}, At(u, from, to)
  PROVE  /\ flow' \in [Uploads -> Upload]
         /\ flow'[u].at = to /\ flow'[u].content = flow[u].content
         /\ flow[u].content \in Contents /\ flow[u].attempt \in 1..MaxAttempts
         /\ \A w \in Uploads : w # u => flow'[w] = flow[w]
<1>1. flow[u] \in Upload /\ flow[u].at # "idle"
  BY DEF StoreTypes
<1>2. PICK upload \in [at : {"reserving", "putting", "describing", "stored", "unsent", "failed"},
                       content : Contents, attempt : 1..MaxAttempts] : upload = flow[u]
  BY <1>1 DEF Upload
<1>3. /\ flow'[u] = [flow[u] EXCEPT !.at = to]
      /\ \A w \in Uploads : w # u => flow'[w] = flow[w]
  BY DEF At, StoreTypes
<1>4. flow'[u] = [upload EXCEPT !.at = to]
  BY <1>2, <1>3
<1>5. /\ flow'[u] \in Upload /\ flow'[u].at = to /\ flow'[u].content = upload.content
  BY <1>2, <1>4 DEF Upload
<1>6. flow' \in [Uploads -> Upload]
  BY <1>3, <1>5 DEF At, StoreTypes
<1>7. QED
  BY <1>2, <1>3, <1>5, <1>6

\* What an upload has to show when it goes on.
LEMMA UploadInv ==
  ASSUME StoreTypes, StoreInv, NEW u \in Uploads, NEW from, from # "idle", from = flow[u].at,
         NEW to \in {"putting", "describing", "stored", "unsent", "failed"}, At(u, from, to),
         UNCHANGED <<temporary, published, mediaType, handlers>>,
         metadata \subseteq metadata',
         \/ uploads' = uploads
         \/ to = "putting" /\ uploads' = [uploads EXCEPT ![u] = flow[u].content],
         from \in Reached => to \in Reached,
         to \in {"describing", "stored"} => Readable(flow[u].content)
  PROVE  StoreTypes' /\ StoreInv' /\ GrowsOnly
<1>1. /\ flow' \in [Uploads -> Upload]
      /\ flow'[u].at = to /\ flow'[u].content = flow[u].content
      /\ flow[u].content \in Contents
      /\ \A w \in Uploads : w # u => flow'[w] = flow[w]
  BY UploadMoves
<1>2. /\ uploads' \in [Uploads -> Contents \cup {None}]
      /\ \A w \in Uploads : w # u => uploads'[w] = uploads[w]
      /\ uploads'[u] = uploads[u] \/ (to = "putting" /\ uploads'[u] = flow[u].content)
  BY <1>1 DEF StoreTypes
<1>3. StoreTypes'
  BY <1>1, <1>2 DEF StoreTypes
<1>4. ASSUME NEW w \in Uploads PROVE ReservationOK(w)'
  <2>1. ReservationOK(w)
    BY DEF StoreInv
  <2>2. CASE w = u
    BY <1>1, <1>2, <2>1, <2>2 DEF ReservationOK, Reached
  <2>3. CASE w # u
    BY <1>1, <1>2, <2>1, <2>3 DEF ReservationOK
  <2>4. QED
    BY <2>2, <2>3
<1>5. \A w \in Uploads : flow[w].at \in Reached =>
        flow'[w].at \in Reached /\ flow'[w].content = flow[w].content
  BY <1>1
<1>6. ASSUME NEW w \in Uploads PROVE UploadDone(w)'
  <2>1. UploadDone(w)
    BY DEF StoreInv
  <2>2. CASE w = u
    BY <1>1, <2>2 DEF UploadDone, Readable, Published
  <2>3. CASE w # u
    BY <1>1, <2>1, <2>3 DEF UploadDone, Readable, Published
  <2>4. QED
    BY <2>2, <2>3
<1>7. QED
  BY <1>3, <1>4, <1>5, <1>6, NobodyServed

\* An upload begins, or all of them are given up: the service has no part.
LEMMA FlowInv ==
  ASSUME StoreTypes, StoreInv, UNCHANGED evidence_vars, flow' \in [Uploads -> Upload],
         \A u \in Uploads : flow[u].at \in Reached =>
           flow'[u].at \in Reached /\ flow'[u].content = flow[u].content,
         \A u \in Uploads : flow'[u].at \in {"describing", "stored"} => flow'[u] = flow[u]
  PROVE  StoreTypes' /\ StoreInv' /\ GrowsOnly
<1>1. StoreTypes'
  BY DEF StoreTypes, evidence_vars
<1>2. ASSUME NEW u \in Uploads PROVE ReservationOK(u)' /\ UploadDone(u)'
  <2>1. ReservationOK(u) /\ UploadDone(u)
    BY DEF StoreInv
  <2>2. ReservationOK(u)'
    BY <2>1 DEF ReservationOK, evidence_vars
  <2>3. UploadDone(u)'
    BY <2>1 DEF UploadDone, Readable, Published, evidence_vars
  <2>4. QED
    BY <2>2, <2>3
<1>3. QED
  BY <1>1, <1>2, NobodyServed DEF evidence_vars

\* The page's form, with a receipt that is there or as it was.
LEMMA FormSet ==
  ASSUME FormTypes, NEW busy \in BOOLEAN, page' = [page EXCEPT !.busy = busy],
         UNCHANGED <<session, opened, shown>>
  PROVE  FormTypes' /\ page'.receipt = page.receipt
<1>1. page' = [file |-> page.file, receipt |-> page.receipt, busy |-> busy]
  BY DEF FormTypes
<1>2. QED
  BY <1>1 DEF FormTypes

\* An upload on its way: its answers come, or its failure.
LEMMA UploadStepInv ==
  ASSUME StoreTypes, StoreInv, FormTypes, NEW u \in Uploads, UploadStep(u)
  PROVE  /\ StoreTypes' /\ StoreInv' /\ GrowsOnly /\ FormTypes'
         /\ \/ page'.receipt = page.receipt
            \/ \E e \in AnchoredEvidence :
                 page'.receipt = e /\ e \in metadata' /\ Readable(e.content)'
<1>1. CASE Reserved(u)
  <2>1. CASE At(u, "reserving", "putting") /\ Reserve(u, flow[u].content) /\ UNCHANGED page
    <3>1. /\ flow[u].at = "reserving" /\ uploads' = [uploads EXCEPT ![u] = flow[u].content]
          /\ UNCHANGED <<temporary, published, mediaType, handlers, metadata>>
      BY <2>1 DEF At, Reserve
    <3>2. StoreTypes' /\ StoreInv' /\ GrowsOnly
      BY <2>1, <3>1, UploadInv DEF Reached
    <3>3. QED
      BY <1>1, <2>1, <3>2 DEF Reserved, FormTypes, Display
  <2>2. CASE FailUpload(u, "reserving", "unsent") /\ UNCHANGED evidence_vars
    <3>1. StoreTypes' /\ StoreInv' /\ GrowsOnly
      BY <2>2, UploadInv DEF FailUpload, At, Reached, evidence_vars
    <3>2. FormTypes' /\ page'.receipt = page.receipt
      BY <1>1, <2>2, FormSet DEF FailUpload, Reserved, Display
    <3>3. QED
      BY <3>1, <3>2
  <2>3. QED
    BY <1>1, <2>1, <2>2 DEF Reserved
<1>2. CASE Put(u)
  <2>1. UNCHANGED evidence_vars
    BY <1>2 DEF Put, Service
  <2>2. CASE /\ At(u, "putting", "describing")
             /\ \E n \in Deliveries : handlers[<<u, n>>].at = "created"
             /\ UNCHANGED page
    <3>1. PICK n \in Deliveries : handlers[<<u, n>>].at = "created"
      BY <2>2
    <3>2. PICK h \in Handlers : h = <<u, n>> /\ h[1] = u
      <4>1. <<u, n>> \in Handlers /\ <<u, n>>[1] = u
        BY DEF Handlers
      <4>2. QED
        BY <4>1
    <3>3. Progressed(h) /\ OfItsUpload(h) /\ handlers[h].at = "created"
      BY <3>1, <3>2 DEF StoreInv
    <3>4. Readable(flow[u].content)
      BY <3>2, <3>3 DEF Progressed, OfItsUpload
    <3>5. StoreTypes' /\ StoreInv' /\ GrowsOnly
      BY <2>1, <2>2, <3>4, UploadInv DEF At, Reached, evidence_vars
    <3>6. QED
      BY <1>2, <2>2, <3>5 DEF Put, FormTypes, Display
  <2>3. CASE FailUpload(u, "putting", "failed")
    <3>1. StoreTypes' /\ StoreInv' /\ GrowsOnly
      BY <2>1, <2>3, UploadInv DEF FailUpload, At, Reached, evidence_vars
    <3>2. FormTypes' /\ page'.receipt = page.receipt
      BY <1>2, <2>3, FormSet DEF FailUpload, Put, Display
    <3>3. QED
      BY <3>1, <3>2
  <2>4. QED
    BY <1>2, <2>2, <2>3 DEF Put
<1>3. CASE Describe(u)
  <2>1. UNCHANGED <<uploads, temporary, published, mediaType, handlers>>
        /\ metadata \subseteq metadata'
    BY <1>3 DEF Describe, StoreMetadata, evidence_vars
  <2>2. CASE /\ At(u, "describing", "stored")
             /\ StoreMetadata(Evidence(u))
             /\ page' = [page EXCEPT !.receipt = Evidence(u), !.busy = FALSE]
    <3>1. UploadDone(u) /\ flow[u].at = "describing"
      BY <2>2 DEF StoreInv, At
    <3>2. Readable(flow[u].content)
      BY <3>1 DEF UploadDone
    <3>3. StoreTypes' /\ StoreInv' /\ GrowsOnly
      BY <2>1, <2>2, <3>1, <3>2, UploadInv DEF Reached
    <3>4. PICK e : e = Evidence(u)
      OBVIOUS
    <3>5. e \in AnchoredEvidence /\ e.content = flow[u].content /\ e.content \in Contents
      BY <2>2, <3>1, <3>4, UploadMoves DEF Evidence, AnchoredEvidence
    <3>6. e \in metadata' /\ Readable(e.content)'
      BY <2>1, <2>2, <3>2, <3>4, <3>5 DEF StoreMetadata, Readable, Published
    <3>7. page' = [file |-> page.file, receipt |-> e, busy |-> FALSE]
      BY <2>2, <3>4 DEF FormTypes
    <3>8. FormTypes' /\ page'.receipt = e
      BY <1>3, <3>5, <3>7 DEF FormTypes, Describe, Display
    <3>9. QED
      BY <3>3, <3>5, <3>6, <3>8
  <2>3. CASE FailUpload(u, "describing", "failed")
    <3>1. StoreTypes' /\ StoreInv' /\ GrowsOnly
      BY <2>1, <2>3, UploadInv DEF FailUpload, At, Reached
    <3>2. FormTypes' /\ page'.receipt = page.receipt
      BY <1>3, <2>3, FormSet DEF FailUpload, Describe, Display
    <3>3. QED
      BY <3>1, <3>2
  <2>4. QED
    BY <1>3, <2>2, <2>3 DEF Describe
<1>4. QED
  BY <1>1, <1>2, <1>3 DEF UploadStep

-----------------------------------------------------------------------------
(* What names evidence.                                                     *)

\* What is held stays held while the store only grows.
LEMMA HeldStays ==
  ASSUME GrowsOnly, NEW e, Held(e)
  PROVE  Held(e)'
BY DEF Held, GrowsOnly, AnchoredEvidence, Readable, Published

\* A receipt is of evidence that is held.
ReceiptHeld == page.receipt # None => Held(page.receipt)

ActionHeld(m) ==
  mutation[m] \in Asked \cup Taken /\ IsAnchor(mutation[m].call)
    => Held(mutation[m].call.evidence)

\* Calls name what they have named, and the registry what a call has.
LEMMA AnchorsKept ==
  ASSUME AnchorsHeld, GrowsOnly, EvidenceKept, ReceiptHeld',
         \A n \in Mutations :
           /\ mutation'[n] \in Asked \cup Taken =>
                \/ ActionHeld(n)'
                \/ mutation[n] \in Asked \cup Taken /\ mutation'[n].call = mutation[n].call
           /\ n \in mempool' =>
                \/ n \in mempool /\ signed'[n].call = signed[n].call
                \/ mutation[n] \in Asked \cup Taken /\ signed'[n].call = mutation[n].call
  PROVE  AnchorsHeld'
<1>1. ASSUME NEW n \in Mutations PROVE ActionHeld(n)'
  <2>1. CASE /\ mutation[n] \in Asked \cup Taken /\ mutation'[n].call = mutation[n].call
             /\ mutation'[n].call.label = "Anchor evidence hash"
    <3>1. PICK e : e = mutation'[n].call.evidence
      OBVIOUS
    <3>2. Held(e)
      BY <2>1, <3>1 DEF AnchorsHeld, IsAnchor
    <3>3. Held(e)'
      BY <3>2, HeldStays
    <3>4. QED
      BY ONLY <3>1, <3>3 DEF ActionHeld, Held, Readable, Published
  <2>2. CASE mutation'[n] \notin Asked \cup Taken
    BY <2>2 DEF ActionHeld
  <2>3. CASE mutation'[n].call.label # "Anchor evidence hash"
    BY <2>3 DEF ActionHeld, IsAnchor
  <2>4. QED
    BY <2>1, <2>2, <2>3
<1>2. ASSUME NEW n \in Mutations, n \in mempool',
             signed'[n].call.label = "Anchor evidence hash"
      PROVE  Held(signed[n].call.evidence)'
  <2>1. PICK e : e = signed'[n].call.evidence
    OBVIOUS
  <2>2. Held(e)
    BY <1>2, <2>1 DEF AnchorsHeld, IsAnchor
  <2>3. Held(e)'
    BY <2>2, HeldStays
  <2>4. QED
    BY ONLY <2>1, <2>3 DEF Held, Readable, Published
<1>3. ASSUME NEW n \in 1..MaxAttempts, project'.evidence[n] # Null
      PROVE  Held(project.evidence[n])'
  <2>1. PICK e : e = project'.evidence[n]
    OBVIOUS
  <2>2. Held(e)
    BY <1>3, <2>1 DEF AnchorsHeld, EvidenceKept
  <2>3. Held(e)'
    BY <2>2, HeldStays
  <2>4. QED
    BY ONLY <2>1, <2>3 DEF Held, Readable, Published
<1>4. QED
  BY <1>1, <1>2, <1>3 DEF AnchorsHeld, ActionHeld, ReceiptHeld, IsAnchor

-----------------------------------------------------------------------------
(* Every step.                                                              *)

\* The parts the lemmas are about are the whole.
LEMMA Parts ==
  ClientInv <=> /\ TabInv /\ SentInv /\ LedgerTypes
                /\ FormTypes /\ StoreTypes /\ StoreInv /\ AnchorsHeld
BY DEF ClientInv, ClientTypes, TabInv

\* A step that the form and the service have no part in.
LEMMA FormUntouched ==
  ASSUME StoreTypes, StoreInv, FormTypes, AnchorsHeld, UNCHANGED <<Service, Display, Form>>
  PROVE  StoreTypes' /\ StoreInv' /\ FormTypes' /\ GrowsOnly /\ ReceiptHeld'
<1>1. StoreTypes' /\ StoreInv' /\ GrowsOnly
  <2>1. UNCHANGED <<evidence_vars, flow>> /\ flow' \in [Uploads -> Upload]
    BY DEF Service, Form, StoreTypes
  <2>2. QED
    BY <2>1, FlowInv
<1>2. FormTypes'
  BY DEF FormTypes, Display, Form
<1>3. ReceiptHeld'
  <2>1. PICK e : e = page.receipt
    OBVIOUS
  <2>2. e # None => Held(e)'
    BY <1>1, <2>1, HeldStays DEF AnchorsHeld
  <2>3. page'.receipt = e
    BY <2>1 DEF Form
  <2>4. QED
    BY ONLY <2>2, <2>3 DEF ReceiptHeld, Held, Readable, Published
<1>4. QED
  BY <1>1, <1>2, <1>3

\* The network, the wallet, and the actions under way.
LEMMA OutsideForm ==
  ASSUME ClientInv, UNCHANGED <<Service, Display, Form>>,
         TabInv' /\ SentInv' /\ LedgerTypes' /\ CallsKept /\ EvidenceKept
  PROVE  ClientInv'
<1>1. StoreTypes' /\ StoreInv' /\ FormTypes' /\ GrowsOnly /\ ReceiptHeld'
  BY Parts, FormUntouched
<1>2. AnchorsHeld'
  BY <1>1, Parts, AnchorsKept DEF CallsKept
<1>3. QED
  BY <1>1, <1>2 DEF ClientInv, ClientTypes, TabInv

\* The registry's record is untouched when the network is.
LEMMA RecordUntouched ==
  ASSUME UNCHANGED project PROVE EvidenceKept
BY NoEvidenceAdded

\* A click that starts an action names held evidence, or none.
LEMMA ClickInv ==
  ASSUME ClientInv, NEW m \in Mutations, NEW call \in Calls, RunMutation(m, call),
         IsAnchor(call) => Held(call.evidence),
         UNCHANGED <<Network, Service, Display, Form>>
  PROVE  ClientInv'
<1>1. UNCHANGED <<ledger_vars, project, signed, mempool>>
  BY DEF Network, ledger_vars
<1>2. /\ TabInv' /\ SentInv' /\ LedgerTypes'
      /\ mutation'[m].call = call /\ OthersWait(m)
  BY <1>1, Parts, RunMutationInv
<1>3. StoreTypes' /\ StoreInv' /\ FormTypes' /\ GrowsOnly /\ ReceiptHeld'
  BY Parts, FormUntouched
<1>4. ActionHeld(m)'
  <2>1. CASE IsAnchor(call)
    <3>1. PICK e : e = call.evidence
      OBVIOUS
    <3>2. Held(e)'
      BY <1>3, <2>1, <3>1, HeldStays
    <3>3. QED
      BY ONLY <1>2, <3>1, <3>2 DEF ActionHeld, Held, Readable, Published
  <2>2. CASE ~IsAnchor(call)
    BY ONLY <1>2, <2>2 DEF ActionHeld, IsAnchor
  <2>3. QED
    BY <2>1, <2>2
<1>5. AnchorsHeld'
  BY <1>1, <1>2, <1>3, <1>4, Parts, RecordUntouched, AnchorsKept DEF OthersWait
<1>6. QED
  BY <1>2, <1>3, <1>5 DEF ClientInv, ClientTypes, TabInv

\* The actions of a session are among the actions.
LEMMA OfTheSession ==
  ASSUME ClientInv
  PROVE  1..session.mutations \subseteq Mutations /\ 1..session.uploads \subseteq Uploads
BY ClientAssumption DEF ClientInv, ClientTypes, FormTypes

\* The three actions of the page.
LEMMA ActionsInv ==
  ASSUME ClientInv, NEW m \in 1..session.mutations,
         CastSignal(m) \/ AnchorEvidence(m) \/ OpenReview(m)
  PROVE  ClientInv'
<1>1. m \in Mutations /\ m \in Nat
  BY OfTheSession, LedgerAssumption
<1>2. CASE CastSignal(m)
  <2> DEFINE call == [label |-> "Cast signal", option |-> m % 2]
  <2>1. m % 2 \in Nat
    BY <1>1
  <2>2. call \in Calls /\ ~IsAnchor(call)
    BY <2>1 DEF Calls, IsAnchor
  <2>3. QED
    BY <1>1, <1>2, <2>2, ClickInv DEF CastSignal
<1>3. CASE AnchorEvidence(m)
  <2> DEFINE call == [label |-> "Anchor evidence hash", attempt |-> shown.attempt,
                      evidence |-> page.receipt]
  <2>1. page.receipt # None /\ Held(page.receipt)
    BY <1>3 DEF AnchorEvidence, ClientInv, AnchorsHeld
  <2>2. shown.attempt \in 1..MaxAttempts /\ page.receipt \in AnchoredEvidence
    BY <2>1 DEF ClientInv, ClientTypes, FormTypes, Milestone, Held
  <2>3. call \in Calls /\ call.evidence = page.receipt
    BY <2>2 DEF Calls
  <2>4. QED
    BY <1>1, <1>3, <2>1, <2>3, ClickInv DEF AnchorEvidence
<1>4. CASE OpenReview(m)
  <2> DEFINE call == [label |-> "Open evidence review"]
  <2>1. call \in Calls /\ ~IsAnchor(call)
    BY DEF Calls, IsAnchor
  <2>2. QED
    BY <1>1, <1>4, <2>1, ClickInv DEF OpenReview
<1>5. QED
  BY <1>2, <1>3, <1>4

\* The form: a file is chosen, an upload begun, an answer read.
LEMMA FormInv ==
  ASSUME ClientInv, UNCHANGED <<Network, tab_vars, evidence_vars>>,
         StoreTypes' /\ StoreInv' /\ GrowsOnly /\ FormTypes' /\ ReceiptHeld'
  PROVE  ClientInv'
<1>1. TabInv' /\ SentInv' /\ LedgerTypes' /\ CallsKept
  BY Parts, OutsideTab DEF Network, tab_vars
<1>2. EvidenceKept
  BY RecordUntouched DEF Network, ledger_vars
<1>3. AnchorsHeld'
  BY <1>1, <1>2, Parts, AnchorsKept DEF CallsKept
<1>4. QED
  BY <1>1, <1>3 DEF ClientInv, ClientTypes, TabInv

\* The receipt of the form stays what it was.
LEMMA ReceiptStays ==
  ASSUME ClientInv, GrowsOnly, page'.receipt \in {page.receipt, None}
  PROVE  ReceiptHeld'
<1>1. PICK e : e = page'.receipt
  OBVIOUS
<1>2. e # None => Held(e)'
  BY <1>1, HeldStays DEF ClientInv, AnchorsHeld
<1>3. QED
  BY ONLY <1>1, <1>2 DEF ReceiptHeld, Held, Readable, Published

\* Another file is chosen: the receipt is gone.
LEMMA SelectInv ==
  ASSUME ClientInv, NEW c \in Contents, Select(c)
  PROVE  ClientInv'
<1>1. /\ page' = [file |-> c, receipt |-> None, busy |-> FALSE]
      /\ UNCHANGED <<Network, tab_vars, Service, Display, flow>>
  BY DEF Select, EmptyForm
<1>2. StoreTypes' /\ StoreInv' /\ GrowsOnly
  <2>1. UNCHANGED <<evidence_vars, flow>> /\ flow' \in [Uploads -> Upload]
    BY <1>1 DEF Service, StoreTypes, ClientInv, ClientTypes
  <2>2. QED
    BY <2>1, Parts, FlowInv
<1>3. FormTypes'
  BY <1>1 DEF FormTypes, Display, ClientInv, ClientTypes
<1>4. ReceiptHeld'
  BY <1>1, <1>2, ReceiptStays
<1>5. QED
  BY <1>1, <1>2, <1>3, <1>4, FormInv DEF Service

\* An upload begins with the file of the form.
LEMMA StoreEvidenceInv ==
  ASSUME ClientInv, NEW u \in 1..session.uploads, StoreEvidence(u)
  PROVE  ClientInv'
<1>1. u \in Uploads /\ u \in Nat
  BY OfTheSession, EvidenceStoreAssumption
<1>2. /\ page.file # None
      /\ flow' = [flow EXCEPT ![u] =
           [at |-> "reserving", content |-> page.file, attempt |-> shown.attempt]]
      /\ page' = [page EXCEPT !.busy = TRUE]
      /\ UNCHANGED <<Network, tab_vars, Service, Display>>
  BY DEF StoreEvidence
<1>3. flow[u].at = "idle"
  BY <1>1 DEF StoreEvidence
<1>4. page.file \in Contents /\ shown.attempt \in 1..MaxAttempts
  BY <1>2 DEF ClientInv, ClientTypes, FormTypes, Milestone
<1>5. /\ flow' \in [Uploads -> Upload] /\ flow'[u].at = "reserving"
      /\ \A w \in Uploads : w # u => flow'[w] = flow[w]
  BY <1>1, <1>2, <1>4 DEF ClientInv, ClientTypes, StoreTypes, Upload
<1>6. /\ \A w \in Uploads : flow[w].at \in Reached =>
           flow'[w].at \in Reached /\ flow'[w].content = flow[w].content
      /\ \A w \in Uploads : flow'[w].at \in {"describing", "stored"} => flow'[w] = flow[w]
  BY <1>3, <1>5 DEF Reached
<1>7. StoreTypes' /\ StoreInv' /\ GrowsOnly
  BY <1>2, <1>5, <1>6, Parts, FlowInv DEF Service
<1>8. FormTypes' /\ page'.receipt = page.receipt
  BY <1>2, Parts, FormSet DEF Display
<1>9. ReceiptHeld'
  BY <1>7, <1>8, ReceiptStays
<1>10. QED
  BY <1>2, <1>7, <1>8, <1>9, FormInv DEF Service

\* The page reads the milestone, as it is or was.
LEMMA RefreshInv ==
  ASSUME ClientInv, Refresh
  PROVE  ClientInv'
<1>1. shown' \in Readings /\ UNCHANGED <<Network, tab_vars, Service, session, opened, Form>>
  BY DEF Refresh
<1>2. shown' \in Milestone
  BY <1>1 DEF Readings, Milestone, Statuses
<1>3. StoreTypes' /\ StoreInv' /\ GrowsOnly
  <2>1. UNCHANGED <<evidence_vars, flow>> /\ flow' \in [Uploads -> Upload]
    BY <1>1 DEF Service, Form, StoreTypes, ClientInv, ClientTypes
  <2>2. QED
    BY <2>1, Parts, FlowInv
<1>4. FormTypes' /\ page'.receipt = page.receipt
  BY <1>1, <1>2 DEF FormTypes, Form, ClientInv, ClientTypes
<1>5. ReceiptHeld'
  BY <1>3, <1>4, ReceiptStays
<1>6. QED
  BY <1>1, <1>3, <1>4, <1>5, FormInv DEF Service

\* A reload forgets the form, and gives up the uploads on their way.
LEMMA ReloadPageInv ==
  ASSUME ClientInv, ReloadPage
  PROVE  ClientInv'
<1>1. /\ Reload /\ shown' = opened'
      /\ opened' = [attempt |-> project.attempt, status |-> project.status]
      /\ page' = [file |-> None, receipt |-> None, busy |-> FALSE]
      /\ flow' = [u \in Uploads |->
           IF flow[u].at \in {"idle", "unsent"} THEN flow[u]
           ELSE [flow[u] EXCEPT !.at = IF @ = "reserving" THEN "unsent" ELSE "failed"]]
      /\ UNCHANGED <<Network, Service, session>>
  BY DEF ReloadPage, EmptyForm
<1>2. TabInv' /\ SentInv' /\ LedgerTypes' /\ CallsKept /\ EvidenceKept
  BY <1>1, Parts, ReloadInv, RecordUntouched DEF Network, ledger_vars
<1>3. ASSUME NEW u \in Uploads
      PROVE  /\ flow'[u] \in Upload
             /\ flow[u].at \in Reached =>
                  flow'[u].at \in Reached /\ flow'[u].content = flow[u].content
             /\ flow'[u].at \notin {"describing", "stored"}
  <2>1. flow[u] \in Upload
    BY DEF ClientInv, ClientTypes, StoreTypes
  <2>2. CASE flow[u].at \in {"idle", "unsent"}
    BY <1>1, <2>1, <2>2 DEF Reached
  <2>3. CASE flow[u].at \notin {"idle", "unsent"}
    <3>1. PICK to \in {"unsent", "failed"} :
            /\ flow'[u] = [flow[u] EXCEPT !.at = to]
            /\ flow[u].at \in Reached => to = "failed"
      BY <1>1, <2>3 DEF Reached
    <3>2. PICK upload \in [at : {"reserving", "putting", "describing", "stored", "unsent", "failed"},
                           content : Contents, attempt : 1..MaxAttempts] : upload = flow[u]
      BY <2>1, <2>3 DEF Upload
    <3>3. flow'[u] \in Upload /\ flow'[u].at = to /\ flow'[u].content = upload.content
      BY <3>1, <3>2 DEF Upload
    <3>4. QED
      BY <3>1, <3>2, <3>3 DEF Reached
  <2>4. QED
    BY <2>2, <2>3
<1>4. flow' \in [Uploads -> Upload]
  BY <1>1, <1>3
<1>5. StoreTypes' /\ StoreInv' /\ GrowsOnly
  BY <1>1, <1>3, <1>4, Parts, FlowInv DEF Service
<1>6. FormTypes'
  <2>1. opened' \in Milestone
    BY <1>1 DEF ClientInv, ClientTypes, LedgerTypes, Milestone
  <2>2. QED
    BY <1>1, <2>1 DEF FormTypes, ClientInv, ClientTypes
<1>7. ReceiptHeld'
  BY <1>1, <1>5, ReceiptStays
<1>8. AnchorsHeld'
  BY <1>2, <1>5, <1>7, Parts, AnchorsKept DEF CallsKept
<1>9. QED
  BY <1>2, <1>5, <1>6, <1>8 DEF ClientInv, ClientTypes, TabInv

\* The evidence service works on its own.
LEMMA ServiceStepInv ==
  ASSUME ClientInv, ServiceStep
  PROVE  ClientInv'
<1>1. UNCHANGED <<Network, calm_vars, Display, Form>>
  BY DEF ServiceStep, Deliver
<1>2. StoreTypes /\ StoreInv /\ UNCHANGED flow
  BY <1>1, Parts DEF Form
<1>3. StoreTypes' /\ StoreInv' /\ GrowsOnly
  <2>1. CASE \E h \in Handlers : Deliver(h)
    BY <1>2, <2>1, ReceiveInv DEF Deliver
  <2>2. CASE \E h \in Handlers : Serve(h)
    BY <1>2, <2>2, ServeInv
  <2>3. CASE \E u \in Uploads : Expire(u)
    BY <1>2, <2>3, ExpireInv
  <2>4. CASE Crash
    BY <1>2, <2>4, CrashInv
  <2>5. QED
    BY <2>1, <2>2, <2>3, <2>4 DEF ServiceStep
<1>4. TabInv' /\ SentInv' /\ LedgerTypes' /\ CallsKept
  BY <1>1, Parts, OutsideTab DEF Network
<1>5. EvidenceKept
  BY <1>1, RecordUntouched DEF Network, ledger_vars
<1>6. FormTypes' /\ page'.receipt = page.receipt
  BY <1>1 DEF FormTypes, Form, Display, ClientInv, ClientTypes
<1>7. ReceiptHeld'
  BY <1>3, <1>6, ReceiptStays
<1>8. AnchorsHeld'
  BY <1>3, <1>4, <1>5, <1>7, Parts, AnchorsKept DEF CallsKept
<1>9. QED
  BY <1>3, <1>4, <1>6, <1>8 DEF ClientInv, ClientTypes, TabInv

\* An upload goes through the page: the receipt it sets is of held evidence.
LEMMA UploadClientInv ==
  ASSUME ClientInv, NEW u \in Uploads, UploadStep(u)
  PROVE  ClientInv'
<1>1. UNCHANGED <<Network, tab_vars>>
  BY DEF UploadStep, Reserved, Put, Describe
<1>2. /\ StoreTypes' /\ StoreInv' /\ GrowsOnly /\ FormTypes'
      /\ \/ page'.receipt = page.receipt
         \/ \E e \in AnchoredEvidence :
              page'.receipt = e /\ e \in metadata' /\ Readable(e.content)'
  BY Parts, UploadStepInv
<1>3. ReceiptHeld'
  <2>1. CASE page'.receipt = page.receipt
    BY <1>2, <2>1, ReceiptStays
  <2>2. CASE \E e \in AnchoredEvidence :
               page'.receipt = e /\ e \in metadata' /\ Readable(e.content)'
    BY <2>2 DEF ReceiptHeld, Held, Readable, Published
  <2>3. QED
    BY <1>2, <2>1, <2>2
<1>4. TabInv' /\ SentInv' /\ LedgerTypes' /\ CallsKept
  BY <1>1, Parts, OutsideTab DEF Network, tab_vars
<1>5. EvidenceKept
  BY <1>1, RecordUntouched DEF Network, ledger_vars
<1>6. AnchorsHeld'
  BY <1>2, <1>3, <1>4, <1>5, Parts, AnchorsKept DEF CallsKept
<1>7. QED
  BY <1>2, <1>4, <1>6 DEF ClientInv, ClientTypes, TabInv

\* An action of the tab goes on.
LEMMA TabStepInv ==
  ASSUME ClientInv, NEW m \in Mutations, TabStep(m)
  PROVE  ClientInv'
<1>1. MutationStep(m) /\ UNCHANGED <<Service, Display, Form>>
  BY DEF TabStep
<1>2. TabInv' /\ SentInv' /\ LedgerTypes' /\ CallsKept
  BY <1>1, Parts, MutationStepInv
<1>3. EvidenceKept
  BY <1>1, RecordUntouched DEF MutationStep, ledger_vars
<1>4. QED
  BY <1>1, <1>2, <1>3, OutsideForm

\* The user at the wallet, the drawer and the journey.
LEMMA WalletStepInv ==
  ASSUME ClientInv, UNCHANGED <<Network, Service, Display, Form>>,
         \/ Connect \/ Disconnect \/ SwitchWallet \/ Dismiss
         \/ Journey \/ ContinueWithWallet \/ Join
  PROVE  ClientInv'
<1>1. TabInv' /\ SentInv' /\ LedgerTypes' /\ CallsKept
  BY Parts, WalletInv DEF Network
<1>2. EvidenceKept
  BY RecordUntouched DEF Network, ledger_vars
<1>3. QED
  BY <1>1, <1>2, OutsideForm

\* The invariant holds when the page is opened for the first time.
LEMMA ClientStarts == ClientInit => ClientInv
<1> SUFFICES ASSUME ClientInit PROVE ClientInv
  OBVIOUS
<1> USE DEF ClientInit
<1>1. MutationTypes /\ TabTypes /\ OneActionPerLabel
  BY LedgerAssumption
     DEF TabInit, MutationTypes, TabTypes, OneActionPerLabel, InFlight, Unstarted
<1>2. LedgerTypes
  <2>1. /\ receipt \in [Voters -> Nat \cup {NoVote}] /\ options = NoPoll
        /\ sequence \in [Accounts -> Nat] /\ signed \in [Mutations -> Signed \cup {Null}]
        /\ mempool \subseteq Mutations
        /\ landed \in [Mutations -> {"NOT_FOUND", "SUCCESS", "FAILED"}]
    BY DEF LedgerInit, SignalsInit
  <2>2. project \in Record
    <3>1. 1 \in 1..MaxAttempts /\ "pending" \in Statuses
      BY LedgerAssumption DEF Statuses
    <3>2. project = [attempt |-> 1, status |-> "pending",
                     evidence |-> [n \in 1..MaxAttempts |-> Null]]
      BY DEF LedgerInit
    <3>3. QED
      BY <3>1, <3>2 DEF Record
  <2>3. QED
    BY <2>1, <2>2 DEF LedgerTypes, Record
<1>3. FormTypes
  BY LedgerAssumption DEF FormTypes, Milestone, Statuses, EmptyForm
<1>4. StoreTypes
  BY DEF StoreTypes, EvidenceInit, Upload, FileStates
<1>5. SentInv
  BY DEF SentInv, Built, Submitted, Lasting, TabInit, LedgerInit, Unstarted, Simulated
<1>6. ShownOK
  <2>1. /\ transaction = NoTransaction /\ journey = NewJourney
        /\ saved = NewJourney \/ saved = Null
    BY DEF TabInit
  <2>2. QED
    BY <2>1, QuietDrawers, NothingConfirmed DEF ShownOK
<1>7. StoreInv
  BY DEF StoreInv, EvidenceInit, ReservationOK, UploadDone, OfItsUpload, OneWriter, Progressed
<1>8. AnchorsHeld
  <2>1. page.receipt = None
    BY DEF EmptyForm
  <2>2. \A m \in Mutations : mutation[m] \notin Asked \cup Taken
    BY DEF TabInit, Unstarted, Asked, Taken, Flight
  <2>3. \A n \in 1..MaxAttempts : project.evidence[n] = Null
    BY DEF LedgerInit
  <2>4. mempool = {}
    BY DEF LedgerInit
  <2>5. QED
    BY <2>1, <2>2, <2>3, <2>4 DEF AnchorsHeld
<1>9. QED
  BY <1>1, <1>2, <1>3, <1>4, <1>5, <1>6, <1>7, <1>8 DEF ClientInv, ClientTypes

\* Every step keeps the invariant.
LEMMA ClientKeeps ==
  ASSUME ClientInv, [ClientNext]_client_vars
  PROVE  ClientInv'
<1>1. CASE UNCHANGED client_vars
  <2>1. UNCHANGED <<ledger_vars, project, calm_vars, Service, Display, Form>>
    BY <1>1 DEF client_vars, ledger_vars, tab_vars, Service, Display, Form
  <2>2. TabInv' /\ SentInv' /\ LedgerTypes' /\ CallsKept /\ EvidenceKept
    BY <2>1, Parts, OutsideTab, RecordUntouched
  <2>3. QED
    BY <2>1, <2>2, OutsideForm
<1>2. CASE UserStep
  <2>1. CASE \E m \in 1..session.mutations :
               CastSignal(m) \/ AnchorEvidence(m) \/ OpenReview(m)
    BY <2>1, ActionsInv
  <2>2. CASE \E c \in Contents : Select(c)
    BY <2>2, SelectInv
  <2>3. CASE \E u \in 1..session.uploads : StoreEvidence(u)
    BY <2>3, StoreEvidenceInv
  <2>4. CASE Refresh
    BY <2>4, RefreshInv
  <2>5. CASE ReloadPage
    BY <2>5, ReloadPageInv
  <2>6. CASE /\ \/ Connect \/ Disconnect \/ SwitchWallet \/ Dismiss
                \/ view = "start" /\ (Journey \/ ContinueWithWallet)
             /\ UNCHANGED <<Network, Service, Display, Form>>
    BY <2>6, WalletStepInv
  <2>7. QED
    BY <1>2, <2>1, <2>2, <2>3, <2>4, <2>5, <2>6 DEF UserStep
<1>3. CASE NetworkStep
  <2>1. UNCHANGED <<Service, Display, Form>>
    BY <1>3 DEF NetworkStep
  <2>2. TabInv' /\ SentInv' /\ LedgerTypes' /\ CallsKept /\ EvidenceKept
    BY <1>3, Parts, NetworkStepInv
  <2>3. QED
    BY <2>1, <2>2, OutsideForm
<1>4. CASE ServiceStep
  BY <1>4, ServiceStepInv
<1>5. CASE JoinStep
  BY <1>5, WalletStepInv DEF JoinStep
<1>6. CASE \E m \in Mutations : TabStep(m)
  BY <1>6, TabStepInv
<1>7. CASE \E u \in Uploads : UploadStep(u)
  BY <1>7, UploadClientInv
<1>8. QED
  BY <1>1, <1>2, <1>3, <1>4, <1>5, <1>6, <1>7 DEF ClientNext

(***************************************************************************)
(* The invariant of the page, the network and the service together.        *)
(***************************************************************************)
THEOREM ClientInvariant == ClientSpec => []ClientInv
<1>1. ClientInit => ClientInv
  BY ClientStarts
<1>2. ClientInv /\ [ClientNext]_client_vars => ClientInv'
  BY ClientKeeps
<1>3. QED
  BY <1>1, <1>2, PTL DEF ClientSpec

(***************************************************************************)
(* Clicked twice, also while the wallet is being connected, an action of   *)
(* one label runs once at a time, and every lock is that of an action      *)
(* under way: no ending leaves one behind.                                 *)
(***************************************************************************)
THEOREM OneActionAlways == ClientSpec => []OneActionPerLabel
<1>1. ClientInv => OneActionPerLabel
  BY DEF ClientInv
<1>2. QED
  BY <1>1, ClientInvariant, PTL

(***************************************************************************)
(* The drawer and the journey show a confirmation only of a call that has  *)
(* been carried out, and what it did is still so: however actions overlap, *)
(* signatures come from another account, or the page is reloaded.          *)
(***************************************************************************)
THEOREM ConfirmedAlways == ClientSpec => []ConfirmedMeansCarriedOut
<1>1. ASSUME ClientInv PROVE ConfirmedMeansCarriedOut
  <2>1. ASSUME NEW m \in Mutations, landed[m] = "SUCCESS" PROVE CarriedOut(m)
    BY <1>1, <2>1 DEF ClientInv, SentInv, Lasting
  <2>2. ASSUME transaction.stage = "confirmed"
        PROVE  /\ CarriedOut(transaction.hash)
               /\ signed[transaction.hash].call.label = transaction.label
    BY <1>1, <2>1, <2>2 DEF ClientInv, ShownOK, TransactionOK
  <2>3. ASSUME journey.step \in {"confirmation", "feedback"}
        PROVE  journey.confirmed # Null /\ CarriedOut(journey.confirmed)
    <3>1. journey.confirmed # Null /\ landed[journey.confirmed] = "SUCCESS"
      BY <1>1, <2>3 DEF ClientInv, ShownOK, ProgressOK
    <3>2. journey.confirmed \in Mutations
      BY <1>1, <3>1 DEF ClientInv, ShownOK, Progress
    <3>3. QED
      BY <2>1, <3>1, <3>2
  <2>4. QED
    BY <2>2, <2>3 DEF ConfirmedMeansCarriedOut
<1>2. QED
  BY <1>1, ClientInvariant, PTL

\* A media type is cut short only while a handler fills it, or after a PUT was
\* cut off.
Filling(h, c) == handlers[h].at = "filling" /\ handlers[h].content = c

Typed ==
  \A c \in Contents : mediaType[c] = "partial" =>
    \E h \in Handlers : handlers[h].at = "refused" \/ Filling(h, c)

\* A handler that neither fills a media type nor was refused goes on.
LEMMA TypedElsewhere ==
  ASSUME Typed, NEW h \in Handlers, UNCHANGED mediaType,
         handlers[h].at \notin {"refused", "filling"},
         \A k \in Handlers \ {h} : handlers'[k] = handlers[k]
  PROVE  Typed'
BY DEF Typed, Filling

LEMMA TypedServed ==
  ASSUME StoreTypes, Typed, NEW h \in Handlers, Serve(h)
  PROVE  Typed'
<1>1. \A at : Proceeds(h, at) => \A k \in Handlers \ {h} : handlers'[k] = handlers[k]
  BY DEF Proceeds, StoreTypes
<1>2. CASE OpenTemporary(h)
  BY <1>1, <1>2, TypedElsewhere DEF OpenTemporary
<1>3. CASE WriteTemporary(h)
  BY <1>1, <1>3, TypedElsewhere DEF WriteTemporary
<1>4. CASE Rename(h)
  BY <1>1, <1>4, TypedElsewhere DEF Rename
<1>5. CASE Clear(h)
  BY <1>1, <1>5, TypedElsewhere DEF Clear
<1>6. CASE TruncateMediaType(h)
  <2> DEFINE own == handlers[h].content
  <2>1. handlers[h].at = "typing"
    BY <1>6 DEF TruncateMediaType
  <2>2. \A d \in Contents : d # own => mediaType'[d] = mediaType[d]
    BY <1>6 DEF TruncateMediaType, StoreTypes
  <2>3. handlers'[h].at = "filling" /\ handlers'[h].content = own
    BY <1>6, <2>1, HandlerProceeds DEF TruncateMediaType, Working
  <2>4. \A k \in Handlers \ {h} : handlers'[k] = handlers[k]
    BY <1>1, <1>6 DEF TruncateMediaType
  <2>5. ASSUME NEW c \in Contents, mediaType'[c] = "partial"
        PROVE  \E k \in Handlers :
                 handlers'[k].at = "refused"
                   \/ (handlers'[k].at = "filling" /\ handlers'[k].content = c)
    <3>1. CASE c = own
      BY <2>3, <3>1
    <3>2. CASE c # own
      <4>1. PICK k \in Handlers : handlers[k].at = "refused" \/ Filling(k, c)
        BY <2>2, <2>5, <3>2 DEF Typed
      <4>2. k # h
        BY <2>1, <4>1 DEF Filling
      <4>3. QED
        BY <2>4, <4>1, <4>2 DEF Filling
    <3>3. QED
      BY <3>1, <3>2
  <2>6. QED
    BY <2>5 DEF Typed, Filling
<1>7. CASE WriteMediaType(h)
  <2> DEFINE own == handlers[h].content
  <2>1. handlers[h].at = "filling" /\ own \in Contents
    BY <1>7, HandlerTypes DEF WriteMediaType
  <2>2. /\ mediaType'[own] = "whole"
        /\ \A d \in Contents : d # own => mediaType'[d] = mediaType[d]
    BY <1>7, <2>1 DEF WriteMediaType, StoreTypes
  <2>3. \A k \in Handlers \ {h} : handlers'[k] = handlers[k]
    BY <1>1, <1>7 DEF WriteMediaType
  <2>4. QED
    BY <2>1, <2>2, <2>3 DEF Typed, Filling
<1>8. QED
  BY <1>2, <1>3, <1>4, <1>5, <1>6, <1>7 DEF Serve

LEMMA TypedCrashed ==
  ASSUME Typed, Crash
  PROVE  Typed'
<1>1. /\ UNCHANGED mediaType
      /\ \A h \in Handlers : handlers[h].at \notin {"idle", "created"} =>
           handlers'[h].at = "refused"
  BY DEF Crash
<1>2. QED
  BY <1>1 DEF Typed, Filling

LEMMA TypedKept ==
  ASSUME StoreTypes, Typed, [ClientNext]_client_vars
  PROVE  Typed'
<1>1. CASE UNCHANGED <<mediaType, handlers>>
  BY <1>1 DEF Typed, Filling
<1>2. CASE ServiceStep
  <2>1. CASE \E h \in Handlers : Deliver(h)
    <3>1. PICK h \in Handlers : Deliver(h)
      BY <2>1
    <3>2. /\ handlers[h].at = "idle" /\ UNCHANGED mediaType
          /\ \A k \in Handlers \ {h} : handlers'[k] = handlers[k]
      BY <3>1 DEF Deliver, Receive, StoreTypes
    <3>3. QED
      BY <3>2, TypedElsewhere
  <2>2. CASE \E h \in Handlers : Serve(h)
    BY <2>2, TypedServed
  <2>3. CASE \E u \in Uploads : Expire(u)
    BY <1>1, <2>3 DEF Expire
  <2>4. CASE Crash
    BY <2>4, TypedCrashed
  <2>5. QED
    BY <1>2, <2>1, <2>2, <2>3, <2>4 DEF ServiceStep
<1>3. CASE \E u \in Uploads : UploadStep(u)
  BY <1>1, <1>3 DEF UploadStep, Reserved, Put, Describe, Reserve, StoreMetadata, Service,
     evidence_vars
<1>4. CASE UserStep \/ NetworkStep \/ JoinStep \/ \E m \in Mutations : TabStep(m)
  <2>1. UNCHANGED evidence_vars
    BY <1>4 DEF UserStep, NetworkStep, JoinStep, TabStep, CastSignal, AnchorEvidence,
       OpenReview, Select, StoreEvidence, Refresh, ReloadPage, Service
  <2>2. QED
    BY <1>1, <2>1 DEF evidence_vars
<1>5. CASE UNCHANGED client_vars
  BY <1>1, <1>5 DEF client_vars, evidence_vars
<1>6. QED
  BY <1>2, <1>3, <1>4, <1>5 DEF ClientNext

LEMMA TypedAlways == ClientSpec => []Typed
<1>1. ClientInit => Typed
  BY DEF ClientInit, EvidenceInit, Typed
<1>2. ClientInv => StoreTypes
  BY DEF ClientInv, ClientTypes
<1>3. Typed /\ StoreTypes /\ [ClientNext]_client_vars => Typed'
  BY TypedKept
<1>4. QED
  BY <1>1, <1>2, <1>3, ClientInvariant, PTL DEF ClientSpec

(***************************************************************************)
(* What the registry names as evidence keeps its bytes, its metadata and a *)
(* file for its media type, through PUTs that are repeated, uploads beside *)
(* each other, reservations that expire and crashes of the service; and it *)
(* can be downloaded unless it is being uploaded again or some PUT did not *)
(* end in success.                                                         *)
(***************************************************************************)
THEOREM AnchoredAlways == ClientSpec => []AnchoredIsStored
<1>1. ASSUME ClientInv, Typed PROVE AnchoredIsStored
  <2>1. ASSUME NEW n \in 1..MaxAttempts, NEW e, e = project.evidence[n], e # Null
        PROVE  /\ published[e.content] = "whole"
               /\ e \in metadata
               /\ ReadEvidence(e.content) # "not_found"
               /\ \/ ReadEvidence(e.content) = "bytes"
                  \/ Receiving(e.content)
                  \/ \E h \in Handlers : handlers[h].at = "refused"
    <3>1. Held(e)
      BY <1>1, <2>1 DEF ClientInv, AnchorsHeld
    <3>2. /\ e.content \in Contents /\ e \in metadata
          /\ published[e.content] = "whole" /\ mediaType[e.content] # "absent"
      BY <3>1 DEF Held, Readable, Published, AnchoredEvidence
    <3>3. CASE mediaType[e.content] = "partial"
      <4>1. PICK h \in Handlers : handlers[h].at = "refused" \/ Filling(h, e.content)
        BY <1>1, <3>2, <3>3 DEF Typed
      <4>2. (\E k \in Handlers : handlers[k].at = "refused") \/ Receiving(e.content)
        BY <4>1 DEF Filling, Receiving
      <4>3. QED
        BY <3>2, <4>2 DEF ReadEvidence
    <3>4. CASE mediaType[e.content] # "partial"
      BY <3>2, <3>4 DEF ReadEvidence
    <3>5. QED
      BY <3>3, <3>4
  <2>2. QED
    BY <2>1 DEF AnchoredIsStored
<1>2. QED
  BY <1>1, ClientInvariant, TypedAlways, PTL

-----------------------------------------------------------------------------
(* The poll.                                                                *)

\* A step of the whole is a step of the poll, or none.
LEMMA PollStep ==
  ASSUME ClientInv, [ClientNext]_client_vars
  PROVE  [SignalsNext]_signals_vars
<1>1. CASE UNCHANGED signals_vars
  BY <1>1
<1>2. CASE \E m \in Mutations : Lands(m)
  <2>1. PICK m \in Mutations : Land(m)
    BY <1>2 DEF Lands
  <2>2. PICK tx \in Signed : tx = signed[m]
    BY <2>1 DEF Land, ClientInv, SentInv, Submitted
  <2>3. CASE UNCHANGED signals_vars
    BY <2>3
  <2>4. CASE Accepts(tx.call, tx.source) /\ Execute(tx.call, tx.source)
    <3>1. CASE tx.call.label = "Cast signal"
      <4>1. Vote(tx.source, tx.call.option)
        BY <2>4, <3>1 DEF Execute
      <4>2. tx.source \in Voters /\ tx.call.option \in 0..4
        <5>1. options \in 2..4 /\ tx.call.option \in 0..(options - 1)
          BY <4>1 DEF Vote, Options, ClientInv, ClientTypes, LedgerTypes
        <5>2. QED
          BY <5>1, LedgerAssumption DEF Signed
      <4>3. QED
        BY <4>1, <4>2 DEF SignalsNext
    <3>2. CASE tx.call.label # "Cast signal"
      BY <2>4, <3>2 DEF Execute
    <3>3. QED
      BY <3>1, <3>2
  <2>5. QED
    BY <2>1, <2>2, <2>3, <2>4 DEF Land
<1>3. CASE \E n \in OptionInputs : OpenPoll(n)
  BY <1>3 DEF OpenPoll, SignalsNext
<1>4. CASE \E v \in Voters, option \in 0..2 : VoteElsewhere(v, option)
  <2>1. PICK v \in Voters, option \in 0..2 : Vote(v, option)
    BY <1>4 DEF VoteElsewhere
  <2>2. option \in 0..4
    OBVIOUS
  <2>3. QED
    BY <2>1, <2>2 DEF SignalsNext
<1>5. CASE NetworkStep
  <2>1. CASE ReviewElsewhere \/ Rework \/ \E m \in Mutations : Forget(m)
    BY <1>1, <2>1 DEF ReviewElsewhere, Rework, Forget
  <2>2. QED
    BY <1>2, <1>3, <1>4, <1>5, <2>1 DEF NetworkStep
<1>6. CASE UserStep
  <2>1. UNCHANGED Network
    BY <1>6 DEF UserStep, CastSignal, AnchorEvidence, OpenReview, Select, StoreEvidence,
                Refresh, ReloadPage
  <2>2. QED
    BY <1>1, <2>1 DEF Network, ledger_vars
<1>7. CASE \/ ServiceStep \/ JoinStep \/ \E u \in Uploads : UploadStep(u)
  <2>1. UNCHANGED Network
    BY <1>7 DEF ServiceStep, Deliver, JoinStep, UploadStep, Reserved, Put, Describe
  <2>2. QED
    BY <1>1, <2>1 DEF Network, ledger_vars
<1>8. CASE \E m \in Mutations : TabStep(m)
  BY <1>1, <1>8 DEF TabStep, MutationStep, ledger_vars
<1>9. CASE UNCHANGED client_vars
  BY <1>1, <1>9 DEF client_vars, ledger_vars
<1>10. QED
  BY <1>5, <1>6, <1>7, <1>8, <1>9 DEF ClientNext

(***************************************************************************)
(* The poll that the page votes in, beside votes of other devices, is the  *)
(* poll of the contract: no retry and no late landing makes it do what the *)
(* contract does not.                                                      *)
(***************************************************************************)
THEOREM PollImplementsSignals == ClientSpec => SignalsSpec
<1>1. ClientInit => SignalsInit
  BY DEF ClientInit, LedgerInit
<1>2. ClientInv /\ [ClientNext]_client_vars => [SignalsNext]_signals_vars
  BY PollStep
<1>3. QED
  BY <1>1, <1>2, ClientInvariant, PTL DEF ClientSpec, SignalsSpec
=============================================================================
