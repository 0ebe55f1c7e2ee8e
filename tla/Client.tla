------------------------------- MODULE Client -------------------------------
(***************************************************************************)
(* The page at work: a tab (Mutations) that votes in the poll or takes a   *)
(* project's evidence through the evidence service (EvidenceStore) to the  *)
(* registry (Ledger).                                                      *)
(*                                                                         *)
(* Uploads run beside each other: choosing another file frees the button   *)
(* while the upload of the first one goes on.                              *)
(***************************************************************************)
EXTENDS Mutations, EvidenceStore

CONSTANT Sessions   \* what a tab may be used for: the view, and its bounds

VARIABLES
  session,  \* what this tab is used for
  opened,   \* the milestone when the page was opened
  shown,    \* the milestone as the page has read it last
  page,     \* the evidence form: file, receipt, busy
  flow      \* flow[u]: the upload u as the page goes through it

client_vars == <<ledger_vars, tab_vars, evidence_vars, session, opened, shown, page, flow>>

view == session.view

ASSUME ClientAssumption ==
  \A s \in Sessions : 1..s.mutations \subseteq Mutations /\ 1..s.uploads \subseteq Uploads

EmptyForm == [file |-> None, receipt |-> None, busy |-> FALSE]

ClientInit ==
  /\ LedgerInit
  /\ TabInit
  /\ EvidenceInit
  /\ session \in Sessions
  /\ disturbances = session.disturbances
  /\ view # "start" => saved = NewJourney
  /\ opened = [attempt |-> 1, status |-> "pending"]
  /\ shown = opened
  /\ page = EmptyForm
  /\ flow = [u \in Uploads |-> [at |-> "idle"]]

-----------------------------------------------------------------------------
(* The forms.                                                               *)

Network == ledger_vars
Service == evidence_vars
Form    == <<page, flow>>
Display == <<session, opened, shown>>

CastSignal(m) ==
  /\ view \in {"signals", "start"}
  /\ address # Null
  /\ RunMutation(m, [label |-> "Cast signal", option |-> m % 2])
  /\ UNCHANGED <<Network, Service, Display, Form>>

\* The evidence form is there for the creator of a pending milestone.
FormOpen ==
  /\ view = "proof"
  /\ shown.status = "pending"
  /\ address = Creator

Select(c) ==
  /\ FormOpen
  /\ page' = [EmptyForm EXCEPT !.file = c]
  /\ UNCHANGED <<Network, tab_vars, Service, Display, flow>>

\* storeEvidence: hashing, up to the reservation.
StoreEvidence(u) ==
  /\ FormOpen
  /\ page.file # None /\ page.receipt = None /\ ~page.busy
  /\ \A w \in Uploads : (flow[w].at = "idle") <=> (w >= u)
  /\ flow' = [flow EXCEPT ![u] =
       [at |-> "reserving", content |-> page.file, attempt |-> shown.attempt]]
  /\ page' = [page EXCEPT !.busy = TRUE]
  /\ UNCHANGED <<Network, tab_vars, Service, Display>>

At(u, from, to) ==
  /\ flow[u].at = from
  /\ flow' = [flow EXCEPT ![u].at = to]

\* An answer that is an error, or is lost.
FailUpload(u, from, to) ==
  /\ At(u, from, to)
  /\ page' = [page EXCEPT !.busy = FALSE]

Reserved(u) ==
  /\ \/ At(u, "reserving", "putting") /\ Reserve(u, flow[u].content) /\ UNCHANGED page
     \/ FailUpload(u, "reserving", "unsent") /\ UNCHANGED evidence_vars
  /\ UNCHANGED <<Network, tab_vars, Display>>

\* A PUT arrives, the first time or again, also after the page has given up.
Deliver(h) ==
  /\ flow[h[1]].at \notin {"idle", "reserving", "unsent"}
  /\ Receive(h)
  /\ IF h[2] = 1 THEN UNCHANGED disturbances
     ELSE handlers[<<h[1], h[2] - 1>>].at # "idle" /\ Disturb
  /\ UNCHANGED <<Network, calm_vars, Display, Form>>

\* Faulty variant: the page does not await the PUT.
PutUnawaited(u) ==
  /\ At(u, "putting", "describing")
  /\ UNCHANGED <<page, Network, tab_vars, Service, Display>>

Put(u) ==
  /\ \/ /\ At(u, "putting", "describing")
        /\ \E n \in Deliveries : handlers[<<u, n>>].at = "created"
        /\ UNCHANGED page
     \/ FailUpload(u, "putting", "failed")
  /\ UNCHANGED <<Network, tab_vars, Service, Display>>

Evidence(u) == [content |-> flow[u].content, attempt |-> flow[u].attempt]

\* The metadata is stored under its hash, and the receipt is set whatever the
\* form shows by now.
Describe(u) ==
  /\ \/ /\ At(u, "describing", "stored")
        /\ StoreMetadata(Evidence(u))
        /\ page' = [page EXCEPT !.receipt = Evidence(u), !.busy = FALSE]
     \/ /\ FailUpload(u, "describing", "failed")
        /\ StoreMetadata(Evidence(u)) \/ UNCHANGED evidence_vars
  /\ UNCHANGED <<Network, tab_vars, Display>>

AnchorEvidence(m) ==
  /\ FormOpen
  /\ page.receipt # None
  /\ RunMutation(m, [label |-> "Anchor evidence hash", attempt |-> shown.attempt,
                     evidence |-> page.receipt])
  /\ UNCHANGED <<Network, Service, Display, Form>>

\* Anyone may open the review, connected or not yet.
OpenReview(m) ==
  /\ view = "proof"
  /\ shown.status = "evidence_submitted"
  /\ RunMutation(m, [label |-> "Open evidence review"])
  /\ UNCHANGED <<Network, Service, Display, Form>>

\* What readImpactProjects may answer: what the milestone has been since the
\* page was opened.
Readings ==
  LET Rank(m) == 3 * m.attempt + (CASE m.status = "pending" -> 0
                                    [] m.status = "evidence_submitted" -> 1
                                    [] m.status = "under_review" -> 2)
  IN {m \in [attempt : 1..MaxAttempts,
             status : {"pending", "evidence_submitted", "under_review"}] :
        Rank(opened) <= Rank(m) /\ Rank(m) <= Rank(project)}

\* load takes such an answer.  It is started after every action
\* and whenever it is asked for, and the answers come in any order.
Refresh ==
  /\ view = "proof"
  /\ shown' \in Readings \ {shown}
  /\ UNCHANGED <<Network, tab_vars, Service, session, opened, Form>>

-----------------------------------------------------------------------------

\* Reloading the page loses the form; uploads on their way are not recalled.
ReloadPage ==
  /\ Reload
  /\ opened' = [attempt |-> project.attempt, status |-> project.status]
  /\ shown' = opened'
  /\ page' = EmptyForm
  /\ flow' = [u \in Uploads |->
       IF flow[u].at \in {"idle", "unsent"} THEN flow[u]
       ELSE [flow[u] EXCEPT !.at = IF @ = "reserving" THEN "unsent" ELSE "failed"]]
  /\ UNCHANGED <<Network, Service, session>>

UserStep ==
  \/ \E m \in 1..session.mutations : CastSignal(m) \/ AnchorEvidence(m) \/ OpenReview(m)
  \/ \E c \in Contents : Select(c)
  \/ \E u \in 1..session.uploads : StoreEvidence(u)
  \/ Refresh
  \/ ReloadPage
  \/ /\ \/ Connect \/ Disconnect \/ SwitchWallet \/ Dismiss
        \/ view = "start" /\ (Journey \/ ContinueWithWallet)
     /\ UNCHANGED <<Network, Service, Display, Form>>

\* A call that would be accepted and fails all the same is a disturbance.
Lands(m) ==
  /\ Land(m)
  /\ IF Accepts(signed[m].call, signed[m].source) /\ landed'[m] = "FAILED"
     THEN Disturb ELSE UNCHANGED disturbances

NetworkStep ==
  /\ \/ \E m \in Mutations : Lands(m)
     \/ ReviewElsewhere /\ Disturb
     \/ /\ \/ \E m \in Mutations : Forget(m)
           \/ /\ view # "proof"
              /\ \/ \E n \in OptionInputs : OpenPoll(n)
                 \/ \E v \in Voters, option \in 0..2 : VoteElsewhere(v, option)
           \/ Rework
        /\ UNCHANGED disturbances
  /\ UNCHANGED <<calm_vars, Service, Display, Form>>

ServiceStep ==
  \/ \E h \in Handlers : Deliver(h)
  \/ /\ \/ (\E h \in Handlers : Serve(h)) /\ UNCHANGED disturbances
        \/ ((\E u \in Uploads : Expire(u)) \/ Crash) /\ Disturb
     /\ UNCHANGED <<Network, calm_vars, Display, Form>>

UploadStep(u) == Reserved(u) \/ Put(u) \/ Describe(u)

TabStep(m) == MutationStep(m) /\ UNCHANGED <<Service, Display, Form>>

JoinStep == Join /\ UNCHANGED <<Network, Service, Display, Form>>

ClientNext ==
  \/ UserStep \/ NetworkStep \/ ServiceStep \/ JoinStep
  \/ \E m \in Mutations : TabStep(m)
  \/ \E u \in Uploads : UploadStep(u)

ClientSpec == ClientInit /\ [][ClientNext]_client_vars

-----------------------------------------------------------------------------

\* The call of m has been carried out, as the account it was built for.
CarriedOut(m) ==
  LET tx == signed[m] IN
  /\ landed[m] = "SUCCESS"
  /\ tx.by = tx.source
  /\ tx.call.label = "Cast signal" => receipt[tx.source] = tx.call.option
  /\ tx.call.label = "Anchor evidence hash" =>
       project.evidence[tx.call.attempt] = tx.call.evidence

(***************************************************************************)
(* The drawer says confirmed, and the journey shows its proof, only of a   *)
(* call that the network has carried out for the account it was signed by; *)
(* through rejected signatures, other devices, lost answers, actions that  *)
(* overwrite each other in the drawer, restarts and reloads.               *)
(***************************************************************************)
ConfirmedMeansCarriedOut ==
  /\ transaction.stage = "confirmed" =>
       /\ CarriedOut(transaction.hash)
       /\ signed[transaction.hash].call.label = transaction.label
  /\ journey.step \in {"confirmation", "feedback"} =>
       journey.confirmed # Null /\ CarriedOut(journey.confirmed)

InFlight(m) ==
  mutation[m].at \in {"validating", "simulating", "signing", "asking", "sending",
                      "polling", "settling"}

(***************************************************************************)
(* Clicked twice, also while the wallet is being connected, an action of   *)
(* one label runs once at a time; and however it ends, its label is free   *)
(* for the next click.                                                     *)
(***************************************************************************)
OneActionPerLabel ==
  /\ \A m, n \in Mutations :
       InFlight(m) /\ InFlight(n) /\ mutation[m].call.label = mutation[n].call.label
         => m = n
  /\ locks = {mutation[m].call.label : m \in {n \in Mutations : InFlight(n)}}

Receiving(c) ==
  \E h \in Handlers : /\ handlers[h].at \notin {"idle", "refused", "created"}
                      /\ handlers[h].content = c

(***************************************************************************)
(* What the registry's evidence names is kept, through repeated PUTs,      *)
(* overlapping uploads, expiry and crashes of the service: the bytes are   *)
(* whole, their metadata is stored, and a file for their media type is     *)
(* there.  While every PUT has been answered with success the evidence can *)
(* be downloaded; one that was cut off may have lost the media type, so    *)
(* that readEvidence fails (see AnchoredIsServed), but it never answers    *)
(* that it knows no such file.                                             *)
(***************************************************************************)
AnchoredIsStored ==
  \A n \in 1..MaxAttempts :
    LET anchored == project.evidence[n] IN
    anchored # Null =>
      /\ published[anchored.content] = "whole"
      /\ anchored \in metadata
      /\ ReadEvidence(anchored.content) # "not_found"
      /\ \/ ReadEvidence(anchored.content) = "bytes"
         \/ Receiving(anchored.content)
         \/ \E h \in Handlers : handlers[h].at = "refused"

(***************************************************************************)
(* ARCHITECTURE.md:50: evidence is "served by immutable content hash".     *)
(* What the registry's evidence names can be downloaded whenever it is not *)
(* being uploaded once more.                                               *)
(***************************************************************************)
AnchoredIsServed ==
  \A n \in 1..MaxAttempts :
    LET anchored == project.evidence[n] IN
    anchored # Null /\ ~Receiving(anchored.content)
      => ReadEvidence(anchored.content) = "bytes"
=============================================================================
