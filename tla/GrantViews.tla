----------------------------- MODULE GrantViews -----------------------------
(***************************************************************************)
(* The Grants page's copy of the chain: useGrants, the event reducer, the  *)
(* discovery of grants straight from the Registry, and the merge of both.  *)
(*                                                                         *)
(* The chain is a history of contract events; what the page does is what   *)
(* is modelled.  It hears of an event by the indexer's snapshot, by its    *)
(* stream and by the RPC node's pages, it reads contract state grant by    *)
(* grant, and all of these overlap.  A remote call is one action, the one  *)
(* that takes its answer: the answer is of any ledger between the start of *)
(* the call and now.  The three reads of one grant need not agree.         *)
(***************************************************************************)
EXTENDS Integers, Sequences, FiniteSets, SequencesExt

CONSTANTS
  Scenarios,     \* what to explore: the contract events there will be, in chain
                 \*   order, how often the RPC node fails, and how often
                 \*   the user asks for a fresh read
  Milestones,    \* milestones of every grant
  LastGrantId,   \* the last id the Registry may come to allocate
  MaxGrantId,    \* MAX_DISCOVERABLE_GRANT_ID
  Concurrency,   \* GRANT_DISCOVERY_CONCURRENCY
  FailedBatchAbort,
  PageLimit,     \* events in one page of the RPC node
  Window,        \* ledgers a first page of events looks back
  Readers,       \* who may be reconciling: the page's loop, and its user
  Loop,
  MaxLedger,     \* bounds: ledgers explored,
  MaxFetches,    \*   snapshots and pages awaited at once
  None,
  Missing,       \* outcomes of a read: GrantNotFound,
  Failed         \*   or any other failure

Grants == 1..LastGrantId
Ledgers == 0..MaxLedger

Event == [id : Nat, kind : STRING, grant : Grants, ledger : Ledgers, total : Nat,
          milestone : Nat, funded : BOOLEAN]

ASSUME GrantViewsAssumption ==
  /\ {Milestones, LastGrantId, MaxGrantId, Concurrency, FailedBatchAbort, PageLimit}
       \subseteq Nat \ {0}
  /\ {Window, MaxLedger, MaxFetches} \subseteq Nat
  /\ Loop \in Readers
  /\ None \notin Nat
  /\ Scenarios \in Seq([events : Seq(Event), failures : Nat, requests : Nat])
  /\ \A n \in DOMAIN Scenarios : LET h == Scenarios[n].events IN
       \A i, j \in DOMAIN h :
         i < j => h[i].id < h[j].id /\ h[i].ledger <= h[j].ledger

VARIABLES
  scenario,       \* which of the Scenarios this is
  ledger,         \* the latest ledger
  indexed,        \* how many events the indexer has taken in
  grants,         \* state.grants of the page: a view or None
  events,         \* state.events: the activity feed, newest first
  authoritative,  \* the last completed discovery, and when it began
  grantsStatus,
  mode,           \* "connecting", "stream" or "poll"
  streamed,       \* lastIndexedEventId: what the stream has sent up to
  cursor,         \* events the page's RPC cursor has passed
  discovery,      \* discovery[r]: a discovery of r under way
  fetch,          \* fetch[r]: the snapshot or page r waits for
  attempted,      \* hydrationAttempts
  hydrations,     \* hydration reads under way
  failures,       \* of the RPC node so far
  requests        \* of the user so far

chain_vars  == <<scenario, ledger, indexed>>
bound_vars  == <<failures, requests>>
page_vars   == <<grants, events>>
feed_vars   == <<mode, streamed, cursor>>
views_vars  == <<chain_vars, page_vars, authoritative, grantsStatus, feed_vars,
                 discovery, fetch, attempted, hydrations, bound_vars>>

History == Scenarios[scenario].events

Least(a, b) == IF a <= b THEN a ELSE b

-----------------------------------------------------------------------------
(* The chain. *)

\* How many events a history has by a ledger.
EventsBy(h, l) == Cardinality({i \in DOMAIN h : h[i].ledger <= l})

Tip(l) == EventsBy(History, l)

Unvoted == [m \in 0..(Milestones - 1) |-> 0]
Statuses == {"funding", "active", "failed", "cancelled", "completed"}
GrantStates == [status : Statuses, raised : Nat, current : Nat,
                votes : [0..(Milestones - 1) -> Nat]]
NewGrant == [status |-> "funding", raised |-> 0, current |-> 0, votes |-> Unvoted]

\* What the contracts did when they published e.
ChainStep(s, e) ==
  CASE e.kind = "GrantCreated"      -> NewGrant
    [] e.kind = "ContributionMade"  -> [s EXCEPT !.raised = e.total]
    [] e.kind = "FundingFinalized"  -> [s EXCEPT !.status = IF e.funded THEN "active" ELSE "failed"]
    [] e.kind = "GrantCancelled"    -> [s EXCEPT !.status = "cancelled"]
    [] e.kind = "MilestoneVoteCast" -> [s EXCEPT !.votes[s.current] = @ + 1]
    [] e.kind = "MilestoneApproved" ->
         IF s.current + 1 = Milestones THEN [s EXCEPT !.status = "completed"]
                                       ELSE [s EXCEPT !.current = @ + 1]
    [] OTHER -> s

\* A grant in contract storage after each event, None before it is there.
Stored ==
  [n \in DOMAIN Scenarios |-> [g \in Grants |->
     LET h == Scenarios[n].events
         after[k \in 0..Len(h)] ==
           IF k = 0 THEN None
           ELSE IF h[k].grant = g THEN ChainStep(after[k - 1], h[k]) ELSE after[k - 1]
     IN  after]]

\* When the contracts publish an event.  create_grant allocates a new id and has
\* the vault opened before it publishes; contribute looks at the vault alone, so a
\* cancelled grant takes contributions until its deadline; finalize_funding and
\* cancel_grant need a grant that is funding, vote_milestone and finalize_milestone
\* one that is active, at its current milestone.
Publishes(s, e) ==
  \/ e.kind = "VaultOpened"
  \/ e.kind = "GrantCreated" /\ s = None
  \/ /\ s # None
     /\ \/ e.kind = "ContributionMade" /\ s.status \in {"funding", "cancelled"}
                                       /\ e.total >= s.raised
        \/ e.kind \in {"FundingFinalized", "GrantCancelled"} /\ s.status = "funding"
        \/ /\ e.kind \in {"MilestoneVoteCast", "MilestoneApproved"}
           /\ s.status = "active" /\ e.milestone = s.current
        \/ e.kind \in {"FundsReleased", "RefundEnabled", "RefundClaimed"}

ASSUME HistoryAssumption ==
  \A n \in DOMAIN Scenarios : LET h == Scenarios[n].events IN
    \A k \in DOMAIN h : Publishes(Stored[n][h[k].grant][k - 1], h[k])

\* ... and as of every ledger.
Storage ==
  [n \in DOMAIN Scenarios |-> [g \in Grants |-> [l \in Ledgers |->
     Stored[n][g][EventsBy(Scenarios[n].events, l)]]]]

OnChain(g, l) == Storage[scenario][g][l]
Exists(g, l)  == OnChain(g, l) # None

-----------------------------------------------------------------------------
(* grants.ts.  A view carries the contract's fields, the ledger it was     *)
(* read at (None: not a contract read, or the ledger could not be read),   *)
(* and whether its milestone schedule is known.                            *)

View(state, synced, scheduled) ==
  [state |-> state, synced |-> synced, scheduled |-> scheduled]
Views == [state : GrantStates, synced : Ledgers \cup {None}, scheduled : BOOLEAN]

ASSUME MarkersAssumption ==
  \A marker \in {None, Missing, Failed} : marker \notin GrantStates /\ marker \notin Views

AlreadyMaterialized(view, e) == view.synced # None /\ e.ledger <= view.synced

RaisedFurther(raised, e) == raised + e.total

\* An event carries the grant's new total and not the contribution.
Raised(raised, e) == e.total

\* An unknown schedule has no milestone to vote on or to be the last one.
Applied(view, e) ==
  CASE e.kind = "ContributionMade" -> [view EXCEPT !.state.raised = Raised(@, e)]
    [] e.kind = "FundingFinalized" ->
         [view EXCEPT !.state.status = IF e.funded THEN "active" ELSE "failed"]
    [] e.kind = "GrantCancelled" -> [view EXCEPT !.state.status = "cancelled"]
    [] e.kind = "MilestoneVoteCast" /\ view.scheduled ->
         [view EXCEPT !.state.votes[e.milestone] = @ + 1]
    [] e.kind = "MilestoneApproved" ->
         IF view.scheduled /\ e.milestone + 1 >= Milestones
         THEN [view EXCEPT !.state.status = "completed"]
         ELSE [view EXCEPT !.state.current = e.milestone + 1]
    [] OTHER -> view

\* sortEvents: stable, so that within a ledger what came last stands first.  The
\* 2000 events it keeps are more than there are here.
Sorted(feed, e) ==
  InsertAt(feed, 1 + Cardinality({i \in DOMAIN feed : feed[i].ledger > e.ledger}), e)

\* reduceActivity on a page [grants, events].
ReduceActivity(page, e) ==
  LET g == e.grant
      view == page.grants[g]
      next == IF view = None
              THEN IF e.kind = "GrantCreated" THEN View(NewGrant, None, FALSE) ELSE None
              ELSE IF AlreadyMaterialized(view, e) THEN view ELSE Applied(view, e)
  IN IF Contains(page.events, e) THEN page
     ELSE [grants |-> [page.grants EXCEPT ![g] = next],
           events |-> Sorted(page.events, e)]

EmptyPage == [grants |-> [g \in Grants |-> None], events |-> <<>>]
Page == [grants |-> grants, events |-> events]

\* The page after each event of a list.
Reduced(page, list) ==
  LET after[k \in 0..Len(list)] ==
        IF k = 0 THEN page ELSE ReduceActivity(after[k - 1], list[k])
  IN  after

ReduceAll(page, list) == Reduced(page, list)[Len(list)]

\* What the indexer has made of its first events, by the same reducer.
Indexed == [n \in DOMAIN Scenarios |-> Reduced(EmptyPage, Scenarios[n].events)]

NewerIfRead(derived, read) ==
  derived # None /\ derived.synced # None /\ read.synced # None

Newer(derived, read) ==
  /\ derived # None /\ derived.synced # None
  /\ read.synced # None
  /\ derived.synced >= read.synced

MergeAuthoritativeGrants(derived, read) ==
  [g \in Grants |-> IF read[g] = None \/ Newer(derived[g], read[g])
                    THEN derived[g] ELSE read[g]]

Show(page) == /\ grants' = page.grants
              /\ events' = page.events

-----------------------------------------------------------------------------
(* Contract reads.  A read that starts at ledger l and answers now.        *)

\* The RPC node fails, or the user asks for a fresh read, as often as explored.
Failing(b) == /\ b => failures < Scenarios[scenario].failures
              /\ failures' = IF b THEN failures + 1 ELSE failures
Asking(b)  == /\ b => requests < Scenarios[scenario].requests
              /\ requests' = IF b THEN requests + 1 ELSE requests

\* readGrantView: the grant, its milestones and its escrow total are read at
\* ledgers a, b and c.  Either of the first two may still answer
\* GrantNotFound; a vault that is not there yet is any other failure.
ReadGrantView(onGrant, onMilestones, onTotal) ==
  IF None \in {onGrant, onMilestones} THEN Missing
  ELSE IF onTotal = None THEN Failed
  ELSE View([onGrant EXCEPT !.votes = onMilestones.votes, !.raised = onTotal.raised],
            None, TRUE)

\* Reads of g in scenario n that begin at ledger l and have answered by now.
GrantReads ==
  [n \in DOMAIN Scenarios |-> [g \in Grants |-> [l \in Ledgers |-> [now \in Ledgers |->
     {ReadGrantView(Storage[n][g][a], Storage[n][g][b], Storage[n][g][c]) :
        a, b, c \in l..now}]]]]

Reads(g, l) == GrantReads[scenario][g][l][ledger]

Loaded(outcome) == outcome \notin {Missing, Failed}

\* The grants of a batch are read side by side; failing is where a call fails.
Outcomes(batch, failing, l) ==
  {o \in [batch -> UNION {Reads(g, l) : g \in batch} \cup {Failed}] :
     \A g \in batch : IF g \in failing THEN o[g] = Failed ELSE o[g] \in Reads(g, l)}

-----------------------------------------------------------------------------
(* registry-discovery.ts *)

NoDiscovery == [at |-> "idle"]

\* The grants a discovery can read: the cap is on every id, wherever it is from.
Discoverable == {g \in Grants : g <= MaxGrantId}

\* refreshRegistryGrants starts with the ids the page already shows.
Begun == [at |-> "ids", began |-> ledger, from |-> ledger, synced |-> None,
          known |-> {g \in Discoverable : grants[g] # None}]

\* Both scans take ids in ascending batches and give up after
\* FAILED_BATCH_ABORT of them in a row have failed as a whole.
Batch(d) == {g \in d.todo : Cardinality({h \in d.todo : h < g}) < Concurrency}
Rest(d)  == d.todo \ Batch(d)

FailedInLastBatch(d, failing) == failing

FailedIds(d, failing) == d.failed \cup failing

Scanned(d, failing) ==
  LET misses == IF failing = Batch(d) THEN d.misses + 1 ELSE 0
      abort  == misses >= FailedBatchAbort
  IN [d EXCEPT !.misses = misses,
               !.from   = ledger,
               !.failed = FailedIds(d, failing) \cup (IF abort THEN Rest(d) ELSE {}),
               !.todo   = IF abort THEN {} ELSE Rest(d)]

Scan(d, at, ids) ==
  [at |-> at, began |-> d.began, from |-> ledger, known |-> d.known, synced |-> d.synced,
   todo |-> ids, failed |-> {}, misses |-> 0, loaded |-> [g \in Grants |-> None]]

\* Every grant of the result is dated by the latest ledger, if that is known.
Result(d) == [g \in Grants |-> IF d.loaded[g] = None THEN None
                               ELSE [d.loaded[g] EXCEPT !.synced = d.synced]]

\* Until the last batch the discovery goes on; refreshRegistryGrants then
\* takes its result without another wait.
Continue(r, d) ==
  IF d.todo # {}
  THEN /\ discovery' = [discovery EXCEPT ![r] = d]
       /\ UNCHANGED <<authoritative, grants, grantsStatus>>
  ELSE /\ discovery' = [discovery EXCEPT ![r] = NoDiscovery]
       /\ authoritative' = [began |-> d.began, grants |-> Result(d)]
       /\ grants' = MergeAuthoritativeGrants(grants, Result(d))
       /\ grantsStatus' = IF d.failed # {} THEN "error" ELSE "ready"

\* The ids up to the last one the allocator has given out by ledger l, or the cap.
Allocated(l) == {g \in Discoverable : \E last \in Grants : g <= last /\ Exists(last, l)}

\* The latest ledger and the allocator are read in parallel, as of ledgers l
\* and a, or None where that fails.  Without the allocator, ids are probed.
ReadIds(r) ==
  LET d == discovery[r] IN
  /\ d.at = "ids"
  /\ \E l, a \in (d.from..ledger) \cup {None} :
       LET timed == [d EXCEPT !.synced = l] IN
       /\ Failing(None \in {l, a})
       /\ Continue(r, IF a = None THEN Scan(timed, "probe", Discoverable)
                      ELSE Scan(timed, "read", Allocated(a) \cup d.known))
  /\ UNCHANGED <<chain_vars, events, feed_vars, fetch, attempted, hydrations, requests>>

\* One batch of ids the allocator would have told: known gathers what exists,
\* each id as of when its own probe is answered.
ProbeBatch(r) ==
  LET d == discovery[r] IN
  /\ d.at = "probe"
  /\ \E failing, found \in SUBSET Batch(d) :
       LET next == Scanned([d EXCEPT !.known = @ \cup found], failing)
       IN /\ \A g \in Batch(d) \ failing : Exists(g, d.from) => g \in found
          /\ \A g \in found : g \notin failing /\ Exists(g, ledger)
          /\ Failing(failing # {})
          /\ Continue(r, IF next.todo # {} THEN next
                         ELSE [Scan(next, "read", next.known) EXCEPT !.failed = next.failed])
  /\ UNCHANGED <<chain_vars, events, feed_vars, fetch, attempted, hydrations, requests>>

\* What a batch of reads adds to a discovery.
BatchRead(d, o) ==
  [Scanned(d, {g \in Batch(d) : o[g] = Failed}) EXCEPT !.loaded =
     [g \in Grants |-> IF g \in Batch(d) /\ Loaded(o[g]) THEN o[g] ELSE @[g]]]

ReadBatch(r) ==
  LET d == discovery[r] IN
  /\ d.at = "read"
  /\ \E failing \in SUBSET Batch(d) : \E o \in Outcomes(Batch(d), failing, d.from) :
       /\ Failing(failing # {})
       /\ Continue(r, BatchRead(d, o))
  /\ UNCHANGED <<chain_vars, events, feed_vars, fetch, attempted, hydrations, requests>>

-----------------------------------------------------------------------------
(* use-grants.ts *)

NoFetch == [at |-> "idle"]
Snapshot == [at |-> "snapshot", from |-> indexed]
RpcPage  == [at |-> "page", from |-> ledger, cursor |-> cursor]

Idle(r) == discovery[r] = NoDiscovery /\ fetch[r] = NoFetch

\* reconcile, called by the polling loop or after a confirmed transaction.
Reconcile(r) ==
  /\ Idle(r)
  /\ r = Loop => mode = "poll"
  /\ Cardinality({q \in Readers : fetch[q] # NoFetch}) < MaxFetches
  /\ Asking(r # Loop)
  /\ discovery' = [discovery EXCEPT ![r] = Begun]
  /\ fetch' = [fetch EXCEPT ![r] = Snapshot]
  /\ UNCHANGED <<chain_vars, page_vars, authoritative, grantsStatus, feed_vars,
                 attempted, hydrations, failures>>

\* retryRegistryRead
Retry(r) ==
  /\ r # Loop /\ Idle(r)
  /\ Asking(TRUE)
  /\ grantsStatus' = "loading"
  /\ discovery' = [discovery EXCEPT ![r] = Begun]
  /\ UNCHANGED <<chain_vars, page_vars, authoritative, feed_vars, fetch, attempted,
                 hydrations, failures>>

\* What a feed holds and another does not, oldest ledger first and otherwise in
\* the order of the feed, as a stable sort leaves it.
OldestLedgerFirst(feed, other) ==
  LET sorted[k \in 0..Len(feed)] ==
        IF k = 0 THEN <<>>
        ELSE IF Contains(other, feed[k]) THEN sorted[k - 1]
        ELSE InsertAt(sorted[k - 1],
                      1 + Cardinality({i \in DOMAIN sorted[k - 1] :
                                         sorted[k - 1][i].ledger <= feed[k].ledger}),
                      feed[k])
  IN  sorted[Len(feed)]

\* The indexer answers the two requests of a snapshot as of its first n and
\* its first m events, of which it sends the last 200: more than there are here.
\* What the feed holds and the snapshot does not is replayed.
TakeSnapshot(r) ==
  LET f == fetch[r] IN
  /\ f.at = "snapshot"
  /\ \E n, m \in f.from..indexed :
       LET snapshot == [grants |-> Indexed[scenario][n].grants,
                        events |-> Indexed[scenario][m].events]
           received == OldestLedgerFirst(events, snapshot.events)
           reduced  == ReduceAll(snapshot, received)
       IN /\ Show([reduced EXCEPT !.grants =
                     MergeAuthoritativeGrants(@, authoritative.grants)])
          /\ cursor' = m
          /\ streamed' = m
  /\ fetch' = [fetch EXCEPT ![r] = NoFetch]
  /\ UNCHANGED <<chain_vars, authoritative, grantsStatus, mode, discovery, attempted,
                 hydrations, bound_vars>>

SnapshotUnavailable(r) ==
  /\ fetch[r].at = "snapshot"
  /\ fetch' = [fetch EXCEPT ![r] = RpcPage]
  /\ UNCHANGED <<chain_vars, page_vars, authoritative, grantsStatus, feed_vars,
                 discovery, attempted, hydrations, bound_vars>>

\* fetchActivityEvents, asked for with a cursor: a first page starts a window of
\* ledgers back.
PageStart(asked, l) ==
  IF asked # None THEN asked
  ELSE Cardinality({i \in DOMAIN History : History[i].ledger < l - Window})

TakePage(r) ==
  LET f == fetch[r] IN
  /\ f.at = "page"
  /\ \E l \in f.from..ledger :
       LET first == PageStart(f.cursor, l)
           last  == Least(first + PageLimit, Tip(l))
           page  == SubSeq(History, first + 1, last)
           reduced == ReduceAll(Page, page)
       IN /\ Show([reduced EXCEPT !.grants =
                     MergeAuthoritativeGrants(@, authoritative.grants)])
          /\ cursor' = IF last > first THEN last ELSE first
  /\ fetch' = [fetch EXCEPT ![r] = NoFetch]
  /\ UNCHANGED <<chain_vars, authoritative, grantsStatus, mode, streamed, discovery,
                 attempted, hydrations, bound_vars>>

\* reconcile rejects.  On connecting, the page falls back to polling.
PageUnavailable(r) ==
  /\ fetch[r].at = "page"
  /\ Failing(TRUE)
  /\ fetch' = [fetch EXCEPT ![r] = NoFetch]
  /\ mode' = IF r = Loop THEN "poll" ELSE mode
  /\ UNCHANGED <<chain_vars, page_vars, authoritative, grantsStatus, streamed, cursor,
                 discovery, attempted, hydrations, requests>>

\* Without a last event the stream sends only what is indexed from now on.
OpenStream ==
  /\ mode = "connecting" /\ Idle(Loop)
  /\ mode' = "stream"
  /\ streamed' = IF streamed = 0 THEN indexed ELSE streamed
  /\ UNCHANGED <<chain_vars, page_vars, authoritative, grantsStatus, cursor, discovery,
                 fetch, attempted, hydrations, bound_vars>>

\* source.onmessage
OnMessage ==
  /\ mode = "stream" /\ streamed < indexed
  /\ streamed' = streamed + 1
  /\ Show(ReduceActivity(Page, History[streamed + 1]))
  /\ UNCHANGED <<chain_vars, authoritative, grantsStatus, mode, cursor, discovery, fetch,
                 attempted, hydrations, bound_vars>>

\* source.onerror: the stream is given up for good.
OnError ==
  /\ mode = "stream"
  /\ mode' = "poll"
  /\ UNCHANGED <<chain_vars, page_vars, authoritative, grantsStatus, streamed, cursor,
                 discovery, fetch, attempted, hydrations, bound_vars>>

\* The effect that reads the schedule of grants known only from events, once.
Targets == {g \in Grants : grants[g] # None /\ ~ grants[g].scheduled} \ attempted

Hydrate ==
  /\ Targets # {}
  /\ attempted' = attempted \cup Targets
  /\ hydrations' = hydrations \cup {[targets |-> Targets, from |-> ledger]}
  /\ UNCHANGED <<chain_vars, page_vars, authoritative, grantsStatus, feed_vars, discovery,
                 fetch, bound_vars>>

FinishHydration ==
  /\ \E h \in hydrations : \E failing \in SUBSET h.targets :
       \E o \in Outcomes(h.targets, failing, h.from) :
         /\ Failing(failing # {})
         /\ grants' = [g \in Grants |->
              IF g \in h.targets /\ grants[g] # None /\ Loaded(o[g]) THEN o[g]
              ELSE grants[g]]
         /\ hydrations' = hydrations \ {h}
  /\ UNCHANGED <<chain_vars, events, authoritative, grantsStatus, feed_vars, discovery,
                 fetch, attempted, requests>>

-----------------------------------------------------------------------------

CloseLedger ==
  /\ ledger < MaxLedger
  /\ ledger' = ledger + 1
  /\ UNCHANGED <<scenario, indexed, page_vars, authoritative, grantsStatus, feed_vars,
                 discovery, fetch, attempted, hydrations, bound_vars>>

\* The indexer is modelled in Indexer; here it catches up.
Index ==
  /\ indexed < Tip(ledger)
  /\ indexed' = Tip(ledger)
  /\ UNCHANGED <<scenario, ledger, page_vars, authoritative, grantsStatus, feed_vars,
                 discovery, fetch, attempted, hydrations, bound_vars>>

\* The page is opened at any time in the life of the contracts.
ViewsInit ==
  /\ scenario \in DOMAIN Scenarios
  /\ ledger = 0
  /\ indexed = 0
  /\ grants = EmptyPage.grants
  /\ events = EmptyPage.events
  /\ authoritative = [began |-> None, grants |-> EmptyPage.grants]
  /\ grantsStatus = "loading"
  /\ mode = "connecting"
  /\ streamed = 0
  /\ cursor = None
  /\ discovery = [r \in Readers |-> IF r = Loop THEN Begun ELSE NoDiscovery]
  /\ fetch = [r \in Readers |-> IF r = Loop THEN Snapshot ELSE NoFetch]
  /\ attempted = {}
  /\ hydrations = {}
  /\ failures = 0
  /\ requests = 0

Discover(r) == ReadIds(r) \/ ProbeBatch(r) \/ ReadBatch(r)
Fetch(r) == TakeSnapshot(r) \/ SnapshotUnavailable(r) \/ TakePage(r) \/ PageUnavailable(r)

ViewsNext ==
  \/ CloseLedger
  \/ Index
  \/ \E r \in Readers : Discover(r) \/ Fetch(r) \/ Reconcile(r) \/ Retry(r)
  \/ OpenStream
  \/ OnMessage
  \/ OnError
  \/ Hydrate
  \/ FinishHydration

\* Ledgers close.  While it waits for a call or for the timer of the polling
\* loop, the page gets on with something: calls answer or time out
\* (withTimeout).  Which of them, how soon, and whether the indexer ever
\* answers is left open.  The second conjunct is weak fairness of
\* Reconcile(Loop) \/ \E r : Discover(r) \/ Fetch(r), with what enables that
\* action written out.
Waiting == mode = "poll" \/ \E r \in Readers : ~ Idle(r)

ViewsFairness ==
  /\ WF_views_vars(CloseLedger)
  /\ []<>(~ Waiting) \/ []<><<discovery' # discovery \/ fetch' # fetch>>_views_vars

ViewsSpec == ViewsInit /\ [][ViewsNext]_views_vars /\ ViewsFairness

-----------------------------------------------------------------------------
(* Properties *)

\* However late, repeated or out of order events and reads arrive, the page
\* shows no grant the Registry does not hold, never more money raised or (once
\* the schedule is known) a later milestone than the chain has, and no end the
\* grant has not come to.
NothingInvented ==
  \A g \in Grants : grants[g] # None =>
    /\ Exists(g, ledger)
    /\ LET shown == grants[g].state
           truth == OnChain(g, ledger)
       IN /\ shown.raised <= truth.raised
          /\ grants[g].scheduled => shown.current <= truth.current
          /\ shown.status \in {"failed", "cancelled", "completed"} =>
               shown.status = truth.status

\* "ready" is never shown over an incomplete list of the grants a discovery can
\* read: each of them that was there when the last completed discovery began is
\* on the page, whatever failed reads, probes and indexer snapshots came between.
\* Of a grant past the cap it says nothing: the allocator's ids are cut too, with
\* nothing counted as failed, and only events bring such a grant to the page.
ReadyMeansComplete ==
  grantsStatus = "ready" =>
    \A g \in Discoverable : Exists(g, authoritative.began) => grants[g] # None

ShowsChain == \A g \in Discoverable :
  Exists(g, ledger) => grants[g] # None /\ grants[g].state = OnChain(g, ledger)

\* A page that polls ends up showing exactly what the contracts hold of the
\* grants a discovery can read once they are quiet, whatever was lost, repeated
\* or overwritten before.
PollingConverges == <>[](mode = "poll") => <>[]ShowsChain

\* grants.ts:168-170: events at or below the ledger of a contract read are
\* "not applied a second time".  The page never shows more votes than were cast.
VotesCountedOnce ==
  \A g \in Grants : grants[g] # None =>
    \A m \in DOMAIN Unvoted : grants[g].state.votes[m] <= OnChain(g, ledger).votes[m]

=============================================================================
