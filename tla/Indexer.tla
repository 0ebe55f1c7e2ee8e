------------------------------- MODULE Indexer -------------------------------
(***************************************************************************)
(* The event indexer: a poller that reads contract events from an RPC node *)
(* page by page, a store that keeps them in memory and in two files, and   *)
(* the activity stream.                                                    *)
(*                                                                         *)
(* JavaScript runs one handler at a time, up to its next await: an action  *)
(* is what happens between two awaits.  The poller waits for the latest    *)
(* ledger, for the page and for its save; saves wait for one another; a    *)
(* telemetry request may come, and the process may crash, at any of these  *)
(* points.                                                                 *)
(***************************************************************************)
EXTENDS Integers, Sequences, FiniteSets, SequencesExt

CONSTANTS
  Ledger,        \* the ledger of every event there will be, in chain order
  Activity,      \* the events of the kinds reduceActivity knows
  StartLedger,
  Backlog,       \* how far back a first poll may start (50_000)
  PageLimit,     \* events in a full page (100)
  MAX_PUBLIC_ACTIVITY,
  MAX_CONTRACT_EVENTS,
  MAX_DEDUPE_IDS,
  MaxReadyLag,   \* maxReadyLagLedgers
  Overlap,       \* bound: how many events the node may send again
  MaxLedger,     \* bounds: the last ledger explored,
  MaxMetrics,    \*   telemetry requests,
  MaxFailures,   \*   failed polls in a row,
  MaxCrashes,    \*   crashes and shutdowns
  None           \* no cursor, no event

Events == DOMAIN Ledger

ASSUME IndexerAssumption ==
  /\ Ledger \in Seq(Nat \ {0})
  /\ \A e, f \in Events : e <= f => Ledger[e] <= Ledger[f]
  /\ Activity \subseteq Events
  /\ {StartLedger, Backlog, MaxReadyLag, Overlap, MaxLedger, MaxMetrics,
      MaxFailures, MaxCrashes} \subseteq Nat
  /\ {PageLimit, MAX_PUBLIC_ACTIVITY, MAX_CONTRACT_EVENTS, MAX_DEDUPE_IDS}
       \subseteq Nat \ {0}
  /\ {MAX_PUBLIC_ACTIVITY, MAX_CONTRACT_EVENTS} \subseteq 1..MAX_DEDUPE_IDS
  /\ Overlap <= PageLimit /\ Overlap <= MAX_DEDUPE_IDS
  /\ None \notin Nat

VARIABLES
  ledger,     \* the latest ledger of the chain
  process,    \* "up", "stopping" after a signal, or "down"
  state,      \* the store's PersistedState
  poll,       \* what the poller waits for
  health,     \* failures, lastLedger, latestLedger, lastSuccessAt of the poller
  saves,      \* the chain of saves: what each will write, and for whom
  step,       \* what the first of them will do next
  main,       \* the state file, its backup
  backup,
  acked,      \* telemetry requests answered with 204
  client,     \* a page that listens to the activity stream
  crashes     \* crashes and shutdowns so far

store_vars  == <<state, saves, step, main, backup>>
poller_vars == <<poll, health>>
indexer_vars == <<ledger, process, store_vars, poller_vars, acked, client,
                  crashes>>

OnChain == {e \in Events : Ledger[e] <= ledger}
Tip     == Cardinality(OnChain)

Least(a, b)    == IF a <= b THEN a ELSE b
Greatest(a, b) == IF a >= b THEN a ELSE b

-----------------------------------------------------------------------------
(* The store's two feeds: the activity and the raw contract events, newest *)
(* first, each with the ids it has taken in, oldest first.                 *)

EmptyFeed  == [ids |-> <<>>, items |-> <<>>]
EmptyState == [cursor |-> None, activity |-> EmptyFeed, raw |-> EmptyFeed, metrics |-> 0]

KnownButNewest(feed, e) == \E n \in 1..(Len(feed.ids) - 1) : feed.ids[n] = e

Known(feed, e) == e \in ToSet(feed.ids)

First(s, n) == SubSeq(s, 1, Least(n, Len(s)))

Newest(s, n) == SubSeq(s, Greatest(1, Len(s) - n + 1), Len(s))

\* How many events of the list are sorted before one of this ledger.  Sorting is
\* stable and the new event is put in front: it comes before those of its ledger.
NewerThan(items, l) == Cardinality({n \in DOMAIN items : Ledger[items[n]] > l})

\* A feed takes in the events of its kinds that it does not know.
Ingest(feed, e, kinds, bound) ==
  IF e \notin kinds \/ Known(feed, e) THEN feed
  ELSE [ids   |-> Newest(Append(feed.ids, e), MAX_DEDUPE_IDS),
        items |-> First(InsertAt(feed.items, 1 + NewerThan(feed.items, Ledger[e]), e),
                        bound)]

\* The events of a page, in their order.
IngestAll(feed, first, last, kinds, bound) ==
  LET taken[e \in (first - 1)..last] ==
        IF e < first THEN feed ELSE Ingest(taken[e - 1], e, kinds, bound)
  IN  taken[last]

\* A file: there is none, it cannot be parsed, or it holds a state.
Absent   == [is |-> "absent"]
Torn     == [is |-> "torn"]
Whole(s) == [is |-> "whole", state |-> s]

-----------------------------------------------------------------------------

Idle == [at |-> "idle", cursor |-> None, latest |-> 0]

\* The poller starts from the newest ledger the loaded state has heard of.
FreshHealth(s) ==
  [failures |-> 0, latest |-> 0, succeeded |-> FALSE,
   last |-> IF s.raw.items = <<>> THEN 0 ELSE Ledger[Head(s.raw.items)]]

NoClient == [on |-> FALSE, flight |-> <<>>, first |-> None, last |-> None, seen |-> {}]

\* The contracts were deployed at the ledger the indexer is told to start from.
IndexerInit ==
  /\ ledger = StartLedger
  /\ process = "up"
  /\ state = EmptyState
  /\ poll = Idle
  /\ health = FreshHealth(EmptyState)
  /\ saves = <<>>
  /\ step = "write"
  /\ main = Absent
  /\ backup = Absent
  /\ acked = 0
  /\ client = NoClient
  /\ crashes = 0

\* The chain closes a ledger.
CloseLedger ==
  /\ ledger < MaxLedger
  /\ ledger' = ledger + 1
  /\ UNCHANGED <<process, store_vars, poller_vars, acked, client, crashes>>

\* A save asked for behind those under way writes the state of this moment.
EnqueuedFirst(s, by) == <<[state |-> s, by |-> by]>> \o saves

Enqueued(s, by) == Append(saves, [state |-> s, by |-> by])

-----------------------------------------------------------------------------
(* The poller.                                                             *)

\* tick reads the cursor and asks for the latest ledger.
StartTick ==
  /\ process = "up"
  /\ poll.at = "idle"
  /\ poll' = [at |-> "page", cursor |-> state.cursor, latest |-> ledger]
  /\ UNCHANGED <<ledger, process, store_vars, health, acked, client, crashes>>

\* The first event that is not older than a ledger.
FirstSince(l) == 1 + Cardinality({e \in OnChain : Ledger[e] < l})

\* The first event of a page: the node may send up to Overlap events again, but
\* none from before the ledger it was first asked for.
PageStart(cursor, latest, again) ==
  IF cursor = None
  THEN FirstSince(Greatest(StartLedger, latest - Backlog))
  ELSE Greatest(FirstSince(StartLedger), cursor + 1 - again)

CursorAtTip(last) == Tip

CursorAfter(last) == last

ScannedAsLatest(first, last, latest) == latest

\* A page that is not full reached the latest ledger.
Scanned(first, last, latest) ==
  IF last - first + 1 < PageLimit THEN latest ELSE Ledger[last]

\* Events in chain order.
InOrder(S) ==
  CHOOSE s \in [1..Cardinality(S) -> S] : \A m, n \in DOMAIN s : m < n => s[m] < s[n]

\* What is streamed of a page: the events that decode as activity and are new.
Streamed(first, last) ==
  InOrder({e \in first..last : e \in Activity /\ ~Known(state.activity, e)})

\* The page arrives: tick takes in its events, streams the new ones, moves the
\* cursor and asks for a save, all before anything else can run.
TakePage(again) ==
  LET first == PageStart(poll.cursor, poll.latest, again)
      last  == Least(first + PageLimit - 1, Tip)
      newer == Greatest(Scanned(first, last, poll.latest),
                        IF last >= first THEN Ledger[last] ELSE 0)
  IN
  /\ process # "down"
  /\ poll.at = "page"
  /\ state' = [state EXCEPT
       !.activity = IngestAll(@, first, last, Activity, MAX_PUBLIC_ACTIVITY),
       !.raw      = IngestAll(@, first, last, Events, MAX_CONTRACT_EVENTS),
       !.cursor   = CursorAfter(last)]
  /\ saves' = Enqueued(state', "poll")
  /\ poll' = [poll EXCEPT !.at = "save"]
  /\ health' = [health EXCEPT !.last = Greatest(@, newer)]
  /\ client' = IF client.on THEN [client EXCEPT !.flight = @ \o Streamed(first, last)]
                ELSE client
  /\ UNCHANGED <<ledger, process, step, main, backup, acked, crashes>>

TickFailed == [health EXCEPT !.failures = @ + 1]

\* The node does not answer.
FailPage ==
  /\ process # "down"
  /\ poll.at = "page"
  /\ health.failures < MaxFailures
  /\ poll' = Idle
  /\ health' = TickFailed
  /\ UNCHANGED <<ledger, process, store_vars, acked, client, crashes>>

TickSucceeded ==
  [health EXCEPT !.failures = 0, !.succeeded = TRUE,
                 !.latest = poll.latest]

Ready ==
  /\ process # "down"
  /\ health.succeeded
  /\ health.failures < 3
  /\ health.latest - health.last <= MaxReadyLag

-----------------------------------------------------------------------------
(* Saves.  Each writes a temporary file of its own, copies the main file   *)
(* over the backup, and renames the temporary file to the main one.        *)

Saving(at) == process # "down" /\ saves # <<>> /\ step = at

\* The temporary file has a name of its own and is never read.  While the copy
\* is under way the backup cannot be read.
StartCopy ==
  /\ Saving("write")
  /\ IF main = Absent THEN step' = "rename" /\ UNCHANGED backup
                      ELSE step' = "copying" /\ backup' = Torn
  /\ UNCHANGED <<ledger, process, state, saves, main, poller_vars, acked, client,
                 crashes>>

FinishCopy ==
  /\ Saving("copying")
  /\ step' = "rename"
  /\ backup' = main
  /\ UNCHANGED <<ledger, process, state, saves, main, poller_vars, acked, client,
                 crashes>>

\* The caller of the save goes on: the poller has finished its tick, a telemetry
\* request is answered, and a stopping process exits.
Rename ==
  LET by == Head(saves).by IN
  /\ Saving("rename")
  /\ main' = Whole(Head(saves).state)
  /\ saves' = Tail(saves)
  /\ step' = "write"
  /\ poll' = IF by = "poll" THEN Idle ELSE poll
  /\ health' = IF by = "poll" THEN TickSucceeded ELSE health
  /\ acked' = IF by = "telemetry" THEN acked + 1 ELSE acked
  /\ UNCHANGED <<ledger, process, state, backup, client, crashes>>

AfterFailureNone == <<>>

\* The next save in the chain does not mind that this one failed.
AfterFailure == Tail(saves)

\* The disk refuses a write, the copy or the rename.
FailSave ==
  LET by == Head(saves).by IN
  /\ process # "down" /\ saves # <<>>
  /\ health.failures < MaxFailures
  /\ saves' = AfterFailure
  /\ step' = "write"
  /\ poll' = IF by = "poll" THEN Idle ELSE poll
  /\ health' = IF by = "poll" THEN TickFailed ELSE health
  /\ UNCHANGED <<ledger, process, state, main, backup, acked, client, crashes>>

\* The server takes requests until the save of a shutdown is done.
Serving ==
  process = "up" \/ \E n \in DOMAIN saves : saves[n].by = "shutdown"

\* POST /api/v1/telemetry: recordMetric, then save.
Telemetry ==
  /\ Serving
  /\ state.metrics < MaxMetrics
  /\ state' = [state EXCEPT !.metrics = @ + 1]
  /\ saves' = Enqueued(state', "telemetry")
  /\ UNCHANGED <<ledger, process, step, main, backup, poller_vars, acked, client,
                 crashes>>

-----------------------------------------------------------------------------
(* The process and the files.                                              *)

\* SIGTERM: the poller stops after its tick, and the state is saved once more.
Shutdown ==
  /\ process = "up"
  /\ crashes < MaxCrashes
  /\ process' = "stopping"
  /\ crashes' = crashes + 1
  /\ saves' = Enqueued(state, "shutdown")
  /\ UNCHANGED <<ledger, state, step, main, backup, poller_vars, acked, client>>

Stopped ==
  /\ process' = "down"
  /\ saves' = <<>>
  /\ step' = "write"
  /\ poll' = Idle
  /\ client' = [client EXCEPT !.on = FALSE, !.flight = <<>>]
  /\ UNCHANGED <<ledger, state, health, main, backup, acked>>

\* The process exits once that save is done, or is killed before.
Exit ==
  /\ process = "stopping"
  /\ Stopped
  /\ UNCHANGED crashes

Crash ==
  /\ process = "up"
  /\ crashes < MaxCrashes
  /\ crashes' = crashes + 1
  /\ Stopped

RecoveredFromBackup ==
  IF backup # Absent THEN backup ELSE IF main = Absent THEN Whole(EmptyState) ELSE main

\* The file load reads, in the end; it throws when that one is torn.
Recovered ==
  IF main.is = "whole" THEN main
  ELSE IF backup = Absent THEN Whole(EmptyState) ELSE backup

Restart ==
  /\ process = "down"
  /\ Recovered.is = "whole"
  /\ process' = "up"
  /\ state' = Recovered.state
  /\ health' = FreshHealth(Recovered.state)
  /\ UNCHANGED <<ledger, saves, step, main, backup, poll, acked, client, crashes>>

-----------------------------------------------------------------------------
(* A page that listens to /api/v1/stream.                                  *)

NewerSkippingOne(last) ==
  LET n == CHOOSE i \in 1..Len(state.activity.items) : state.activity.items[i] = last
  IN  First(state.activity.items, n - 2)

\* The events after the one the page names, if the store still has that one.
Newer(last) ==
  LET n == CHOOSE i \in 1..Len(state.activity.items) : state.activity.items[i] = last
  IN  First(state.activity.items, n - 1)

\* A page connects, naming the last event it has received.
Connect ==
  LET last == client.last
  IN
  /\ Serving
  /\ ~client.on
  /\ client' = [client EXCEPT !.on = TRUE,
       !.flight = IF last \in ToSet(state.activity.items)
                  THEN Reverse(Newer(last)) ELSE <<>>]
  /\ UNCHANGED <<ledger, process, store_vars, poller_vars, acked, crashes>>

Receive ==
  /\ client.on
  /\ client.flight # <<>>
  /\ LET e == Head(client.flight)
     IN  client' = [client EXCEPT
           !.flight = Tail(@),
           !.first  = IF @ = None THEN e ELSE @,
           !.last   = e,
           !.seen   = @ \cup {e}]
  /\ UNCHANGED <<ledger, process, store_vars, poller_vars, acked, crashes>>

\* What was under way to the page is lost.
Disconnect ==
  /\ client.on
  /\ client' = [client EXCEPT !.on = FALSE, !.flight = <<>>]
  /\ UNCHANGED <<ledger, process, store_vars, poller_vars, acked, crashes>>

-----------------------------------------------------------------------------

PollStep == StartTick \/ \E again \in 0..Overlap : TakePage(again)

SaveStep == StartCopy \/ FinishCopy \/ Rename

IndexerNext ==
  \/ CloseLedger
  \/ PollStep \/ FailPage
  \/ SaveStep \/ FailSave
  \/ Telemetry
  \/ Shutdown \/ Exit \/ Crash \/ Restart
  \/ Connect \/ Receive \/ Disconnect

IndexerSpec == IndexerInit /\ [][IndexerNext]_indexer_vars

(***************************************************************************)
(* What is awaited comes, the poller polls again after a failure, and the  *)
(* service is restarted.  A node or a disk that fails for ever is not the  *)
(* program's fault: MaxFailures bounds failures in a row.                  *)
(***************************************************************************)
IndexerFairSpec ==
  /\ IndexerSpec
  /\ WF_indexer_vars(CloseLedger)
  /\ WF_indexer_vars(PollStep)
  /\ WF_indexer_vars(SaveStep)
  /\ WF_indexer_vars(Exit \/ Restart)

-----------------------------------------------------------------------------

\* Every copy of the state there is: in memory, waiting to be saved, on disk.
Copies == {state} \cup {saves[n].state : n \in DOMAIN saves}
                 \cup {file.state : file \in {f \in {main, backup} : f.is = "whole"}}

\* A feed has taken the event in, or has and forgot it as one of the oldest.
Indexed(feed, e) ==
  \/ Known(feed, e)
  \/ Len(feed.ids) = MAX_DEDUPE_IDS /\ \A f \in ToSet(feed.ids) : e < f

(***************************************************************************)
(* An event is indexed once.  However often the node sends it again, after *)
(* however many failed ticks and restarts, no copy of the state lists it   *)
(* twice, in its feeds or among its ids, and both feeds stay newest first. *)
(***************************************************************************)
IndexedOnce ==
  \A s \in Copies : \A feed \in {s.activity, s.raw} :
    /\ Cardinality(ToSet(feed.ids)) = Len(feed.ids)
    /\ Cardinality(ToSet(feed.items)) = Len(feed.items)
    /\ \A n \in 2..Len(feed.items) : Ledger[feed.items[n - 1]] >= Ledger[feed.items[n]]

(***************************************************************************)
(* No event is skipped.  Every copy of the state has indexed all events    *)
(* between the start ledger and its cursor, so that polling on from that   *)
(* cursor, after whatever restart, leaves no hole.                         *)
(***************************************************************************)
NothingSkipped ==
  \A s \in Copies : s.cursor # None =>
    \A e \in 1..s.cursor : Ledger[e] >= StartLedger => Indexed(s.raw, e)

(***************************************************************************)
(* A 204 is a promise: what a telemetry request counted is in what a       *)
(* restart would read, whatever crashes and failed saves come between.     *)
(***************************************************************************)
AcknowledgedIsDurable ==
  Recovered.is = "whole" /\ Recovered.state.metrics >= acked

(***************************************************************************)
(* /ready means caught up: every event older than the admitted lag, as of  *)
(* the last successful poll, is in memory, also after a page that ended in *)
(* the middle of a ledger.                                                 *)
(***************************************************************************)
ReadyMeansCaughtUp ==
  Ready => \A e \in Events :
    Ledger[e] \in StartLedger..(health.latest - MaxReadyLag - 1) => Indexed(state.raw, e)

(***************************************************************************)
(* The stream resumes without a gap.  From the first event a page received *)
(* to the latest, it has received every one, across disconnections and     *)
(* restarts of an indexer that forgot what it had streamed.                *)
(***************************************************************************)
StreamGapFree ==
  \A late \in client.seen : \A e \in Activity :
    client.first < e /\ e < late => e \in client.seen

Position(s) == IF s.cursor = None THEN 0 ELSE s.cursor

CursorOf(file) == IF file.is = "whole" THEN Position(file.state) ELSE 0

(***************************************************************************)
(* The cursor in the state file never goes back, although telemetry and    *)
(* the poller save at the same time and saves fail: an older state never   *)
(* replaces a newer one.                                                   *)
(***************************************************************************)
CursorNeverBack ==
  [][CursorOf(main') >= CursorOf(main)]_indexer_vars

(***************************************************************************)
(* Every event is indexed in the end: the state file comes to hold the     *)
(* event, or to have forgotten it as one of the oldest, and keeps it so.   *)
(***************************************************************************)
EventuallyIndexed ==
  <>[](/\ main.is = "whole"
       /\ \A e \in Events : Ledger[e] >= StartLedger => Indexed(main.state.raw, e))
=============================================================================
