---------------------------- MODULE Indexer_proofs ----------------------------
(***************************************************************************)
(* The indexer, proved for any chain of events, any sizes of pages, lists  *)
(* and ids, and any number of polls, telemetry requests, failures and      *)
(* crashes.  First its files: what was answered with 204 is on disk, and   *)
(* the cursor there never goes back.  Then its feeds: nothing is listed    *)
(* twice, nothing is left out, and ready means caught up.  Last the        *)
(* activity stream: a page that listens to it misses nothing in between.   *)
(***************************************************************************)
EXTENDS Indexer, FiniteSetTheorems, TLAPS

\* What load would find: the state the process restarts from.
OnDisk == IF main.is = "whole" THEN main.state ELSE EmptyState

IsState(s) ==
  /\ s = [cursor |-> s.cursor, activity |-> s.activity, raw |-> s.raw, metrics |-> s.metrics]
  /\ s.cursor \in Nat \cup {None}
  /\ s.metrics \in Nat

NoOlder(s, t) == s.metrics <= t.metrics /\ Position(s) <= Position(t)

\* A save never writes less than s; one that answers a telemetry request writes more.
Follows(s, save) ==
  /\ NoOlder(s, save.state)
  /\ save.by = "telemetry" => s.metrics < save.state.metrics

(***************************************************************************)
(* From the disk over the saves in their order to memory, no state is      *)
(* older than the one before it.                                           *)
(***************************************************************************)
SavesInOrder ==
  /\ saves \in Seq({saves[n] : n \in DOMAIN saves})
  /\ \A n \in DOMAIN saves :
       /\ IsState(saves[n].state)
       /\ Follows(OnDisk, saves[n])
       /\ NoOlder(saves[n].state, state)
  /\ \A m, n \in DOMAIN saves : m < n => Follows(saves[m].state, saves[n])
  /\ NoOlder(OnDisk, state)

\* The main file is never torn, and there is a backup only when there is one.
FilesOK ==
  /\ main = Absent \/ main = Whole(main.state)
  /\ IsState(OnDisk)
  /\ main = Absent => backup = Absent /\ step # "copying"
  /\ acked \in Nat
  /\ acked <= OnDisk.metrics

\* Nothing runs in a process that is down, and nothing but a page moves the cursor.
PollerOK ==
  /\ poll = [at |-> poll.at, cursor |-> poll.cursor, latest |-> poll.latest]
  /\ poll.at = "page" => poll.cursor = state.cursor
  /\ process = "down" => poll.at # "page" /\ saves = <<>>

\* The cursor is at an event of a closed ledger.
ReadFromChain ==
  /\ ledger \in Nat
  /\ IsState(state)
  /\ Position(state) <= Tip

IndexerInv == SavesInOrder /\ FilesOK /\ PollerOK /\ ReadFromChain

-----------------------------------------------------------------------------
(* States, the order of them, and the chain of events.                      *)

LEMMA EmptyIsState == IsState(EmptyState) /\ Position(EmptyState) = 0
BY DEF IsState, EmptyState, Position

LEMMA PositionInNat ==
  ASSUME NEW s, IsState(s)
  PROVE  Position(s) \in Nat
BY DEF IsState, Position

LEMMA NoOlderThanItself ==
  ASSUME NEW s, IsState(s)
  PROVE  NoOlder(s, s)
BY PositionInNat DEF IsState, NoOlder

LEMMA NoOlderCarries ==
  ASSUME NEW r, NEW s, NEW t, IsState(r), IsState(s), IsState(t),
         NoOlder(r, s), NoOlder(s, t)
  PROVE  NoOlder(r, t)
<1>1. Position(r) \in Nat /\ Position(s) \in Nat /\ Position(t) \in Nat
  BY PositionInNat
<1> QED
  BY <1>1 DEF IsState, NoOlder

\* A save that follows s follows all that is no newer than s.
LEMMA FollowsCarries ==
  ASSUME NEW r, NEW s, NEW save, IsState(r), IsState(s), IsState(save.state),
         NoOlder(r, s), Follows(s, save)
  PROVE  Follows(r, save)
<1>1. NoOlder(r, save.state)
  BY NoOlderCarries DEF Follows
<1>2. r.metrics <= s.metrics /\ r.metrics \in Nat /\ s.metrics \in Nat
      /\ save.state.metrics \in Nat
  BY DEF NoOlder, IsState
<1> QED
  BY <1>1, <1>2 DEF Follows

\* Sequences range over their own elements.
LEMMA OverItsElements ==
  ASSUME NEW S, NEW s \in Seq(S)
  PROVE  s \in Seq({s[n] : n \in DOMAIN s})
OBVIOUS

LEMMA EventsFinite == IsFiniteSet(Events)
<1>1. Ledger \in Seq(Nat \ {0})
  BY IndexerAssumption
<1>2. DOMAIN Ledger = 1..Len(Ledger) /\ Len(Ledger) \in Nat
  BY <1>1
<1> QED
  BY <1>2, FS_Interval DEF Events

LEMMA LedgerOfEvent == \A e \in Events : Ledger[e] \in Nat
<1>1. Ledger \in Seq(Nat \ {0})
  BY IndexerAssumption
<1> QED
  BY <1>1 DEF Events

LEMMA TipInNat == Tip \in Nat
<1>1. OnChain \subseteq Events
  BY DEF OnChain
<1> QED
  BY <1>1, EventsFinite, FS_Subset, FS_CardinalityType DEF Tip

LEMMA TipStays == ASSUME ledger' = ledger PROVE Tip' = Tip
BY DEF Tip, OnChain

\* A closed ledger takes no event away.
LEMMA TipGrows ==
  ASSUME ledger \in Nat, ledger' = ledger + 1
  PROVE  Tip <= Tip' /\ Tip' \in Nat
<1>1. OnChain \subseteq OnChain'
  BY LedgerOfEvent DEF OnChain
<1>2. OnChain' \subseteq Events
  BY DEF OnChain
<1>3. IsFiniteSet(OnChain')
  BY <1>2, EventsFinite, FS_Subset
<1> QED
  BY <1>1, <1>3, FS_Subset, FS_CardinalityType DEF Tip

LEMMA FirstSinceInNat ==
  ASSUME NEW l
  PROVE  FirstSince(l) \in Nat \ {0}
<1> DEFINE before == {e \in OnChain : Ledger[e] < l}
<1>1. before \subseteq Events
  BY DEF OnChain
<1>2. Cardinality(before) \in Nat
  BY <1>1, EventsFinite, FS_Subset, FS_CardinalityType
<1>3. FirstSince(l) = 1 + Cardinality(before)
  BY DEF FirstSince
<1> HIDE DEF before
<1> QED
  BY <1>2, <1>3

-----------------------------------------------------------------------------
(* The chain of saves: one joins it behind, the first leaves it.            *)

\* A save that joins the chain is behind all the others.
LEMMA EnqueueInOrder ==
  ASSUME SavesInOrder, IsState(OnDisk), IsState(state), NEW t, IsState(t),
         NoOlder(state, t), NEW by, by = "telemetry" => state.metrics < t.metrics,
         state' = t, saves' = Enqueued(t, by), main' = main
  PROVE  SavesInOrder'
<1> DEFINE save == [state |-> t, by |-> by]
           S    == {saves[n] : n \in DOMAIN saves}
<1>0. save.state = t /\ save.by = by
  OBVIOUS
<1>1. saves \in Seq(S)
  BY DEF SavesInOrder
<1>2. saves' = Append(saves, save)
  BY DEF Enqueued
<1> HIDE DEF save, S
<1>3. /\ saves' \in Seq(S \cup {save})
      /\ Len(saves) \in Nat
      /\ DOMAIN saves = 1..Len(saves)
      /\ DOMAIN saves' = 1..(Len(saves) + 1)
      /\ saves'[Len(saves) + 1] = save
      /\ \A n \in DOMAIN saves : saves'[n] = saves[n]
  BY <1>1, <1>2
<1>4. OnDisk' = OnDisk
  BY DEF OnDisk
<1>5. NoOlder(t, t) /\ Follows(state, save)
  BY <1>0, NoOlderThanItself DEF Follows
<1>6. \A n \in DOMAIN saves :
        /\ IsState(saves[n].state)
        /\ Follows(OnDisk, saves[n])
        /\ NoOlder(saves[n].state, t)
        /\ Follows(saves[n].state, save)
  <2> TAKE n \in DOMAIN saves
  <2>1. IsState(saves[n].state) /\ Follows(OnDisk, saves[n]) /\ NoOlder(saves[n].state, state)
    BY DEF SavesInOrder
  <2>2. NoOlder(saves[n].state, t) /\ Follows(saves[n].state, save)
    BY <1>0, <1>5, <2>1, NoOlderCarries, FollowsCarries
  <2> QED
    BY <2>1, <2>2
<1>7. Follows(OnDisk, save) /\ NoOlder(OnDisk, t)
  <2>1. NoOlder(OnDisk, state)
    BY DEF SavesInOrder
  <2> QED
    BY <1>0, <1>5, <2>1, NoOlderCarries, FollowsCarries
<1>8. saves' \in Seq({saves'[n] : n \in DOMAIN saves'})
  BY <1>3, OverItsElements
<1>9. ASSUME NEW n \in DOMAIN saves'
      PROVE  /\ IsState(saves'[n].state)
             /\ Follows(OnDisk, saves'[n])
             /\ NoOlder(saves'[n].state, t)
  <2>1. CASE n \in DOMAIN saves
    BY <1>3, <1>6, <2>1
  <2>2. CASE n = Len(saves) + 1
    BY <1>0, <1>3, <1>5, <1>7, <2>2
  <2> QED
    BY <1>3, <2>1, <2>2
<1>10. ASSUME NEW m \in DOMAIN saves', NEW n \in DOMAIN saves', m < n
       PROVE  Follows(saves'[m].state, saves'[n])
  <2>1. m \in DOMAIN saves /\ (n \in DOMAIN saves \/ n = Len(saves) + 1)
    BY <1>3, <1>10
  <2>2. CASE n \in DOMAIN saves
    <3>1. Follows(saves[m].state, saves[n])
      BY <1>10, <2>1, <2>2 DEF SavesInOrder
    <3> QED
      BY <1>3, <2>1, <2>2, <3>1
  <2>3. CASE n = Len(saves) + 1
    BY <1>3, <1>6, <2>1, <2>3
  <2> QED
    BY <2>1, <2>2, <2>3
<1> QED
  BY <1>4, <1>7, <1>8, <1>9, <1>10 DEF SavesInOrder

\* The rest of the chain, as part of the whole one.
LEMMA RestOfSaves ==
  ASSUME SavesInOrder, saves # <<>>
  PROVE  /\ 1 \in DOMAIN saves /\ Head(saves) = saves[1]
         /\ Tail(saves) \in Seq({saves[n] : n \in DOMAIN saves})
         /\ \A n \in DOMAIN Tail(saves) :
              n + 1 \in DOMAIN saves /\ n \in Nat /\ 1 < n + 1
              /\ Tail(saves)[n] = saves[n + 1]
<1> DEFINE S == {saves[n] : n \in DOMAIN saves}
<1>1. saves \in Seq(S)
  BY DEF SavesInOrder
<1> HIDE DEF S
<1>2. /\ Len(saves) \in Nat /\ Len(saves) > 0
      /\ DOMAIN saves = 1..Len(saves)
      /\ Head(saves) = saves[1]
      /\ Tail(saves) \in Seq(S)
      /\ DOMAIN Tail(saves) = 1..(Len(saves) - 1)
      /\ \A n \in 1..(Len(saves) - 1) : Tail(saves)[n] = saves[n + 1]
  BY <1>1
<1> QED
  BY <1>2 DEF S

\* Whatever becomes of the first save, the others stay in order behind a disk
\* that it has, or has not, moved on.
LEMMA RestInOrder ==
  ASSUME SavesInOrder, saves # <<>>, saves' = Tail(saves), state' = state,
         OnDisk' = OnDisk \/ OnDisk' = saves[1].state
  PROVE  SavesInOrder'
<1>1. /\ 1 \in DOMAIN saves
      /\ saves' \in Seq({saves[n] : n \in DOMAIN saves})
      /\ \A n \in DOMAIN saves' :
           n + 1 \in DOMAIN saves /\ n \in Nat /\ 1 < n + 1 /\ saves'[n] = saves[n + 1]
  BY RestOfSaves
<1>2. saves' \in Seq({saves'[n] : n \in DOMAIN saves'})
  <2> DEFINE S == {saves[n] : n \in DOMAIN saves}
  <2>1. saves' \in Seq(S)
    BY <1>1
  <2> HIDE DEF S
  <2>2. PICK rest \in Seq(S) : rest = saves'
    BY <2>1
  <2>3. rest \in Seq({rest[n] : n \in DOMAIN rest})
    BY OverItsElements
  <2> QED
    BY ONLY <2>2, <2>3
<1>3. ASSUME NEW n \in DOMAIN saves'
      PROVE  /\ IsState(saves'[n].state)
             /\ Follows(OnDisk', saves'[n])
             /\ NoOlder(saves'[n].state, state)
  <2>1. n + 1 \in DOMAIN saves /\ 1 < n + 1 /\ saves'[n] = saves[n + 1]
    BY <1>1
  <2>2. /\ IsState(saves[n + 1].state)
        /\ Follows(OnDisk, saves[n + 1])
        /\ NoOlder(saves[n + 1].state, state)
        /\ Follows(saves[1].state, saves[n + 1])
    BY <1>1, <2>1 DEF SavesInOrder
  <2> QED
    BY <2>1, <2>2
<1>4. ASSUME NEW m \in DOMAIN saves', NEW n \in DOMAIN saves', m < n
      PROVE  Follows(saves'[m].state, saves'[n])
  <2>1. /\ m + 1 \in DOMAIN saves /\ n + 1 \in DOMAIN saves /\ m + 1 < n + 1
        /\ saves'[m] = saves[m + 1] /\ saves'[n] = saves[n + 1]
    BY <1>1, <1>4
  <2> QED
    BY <2>1 DEF SavesInOrder
<1>5. NoOlder(OnDisk', state)
  BY <1>1 DEF SavesInOrder
<1> QED
  BY <1>2, <1>3, <1>4, <1>5 DEF SavesInOrder

\* With no save under way, the disk is all there is to be in order with.
LEMMA NoSavesInOrder ==
  ASSUME saves' = <<>>, NoOlder(OnDisk', state')
  PROVE  SavesInOrder'
<1>1. DOMAIN saves' = {}
  OBVIOUS
<1>2. saves' \in Seq({saves'[n] : n \in DOMAIN saves'})
  OBVIOUS
<1> QED
  BY <1>1, <1>2 DEF SavesInOrder

LEMMA SameSavesInOrder ==
  ASSUME SavesInOrder, saves' = saves, state' = state, main' = main
  PROVE  SavesInOrder'
BY DEF SavesInOrder, OnDisk

-----------------------------------------------------------------------------
(* The invariant holds at first, and each step keeps it.                    *)

LEMMA InitInv == IndexerInit => IndexerInv
<1> SUFFICES ASSUME IndexerInit PROVE IndexerInv
  OBVIOUS
<1>1. main = Absent /\ backup = Absent /\ state = EmptyState /\ saves = <<>>
      /\ step = "write" /\ acked = 0 /\ poll = Idle /\ ledger = StartLedger
  BY DEF IndexerInit
<1>2. OnDisk = EmptyState
  BY <1>1 DEF OnDisk, Absent
<1>3. SavesInOrder
  <2>1. DOMAIN saves = {} /\ saves \in Seq({saves[n] : n \in DOMAIN saves})
    BY <1>1
  <2>2. NoOlder(OnDisk, state)
    BY <1>1, <1>2, EmptyIsState, NoOlderThanItself
  <2> QED
    BY <2>1, <2>2 DEF SavesInOrder
<1>4. FilesOK
  BY <1>1, <1>2, EmptyIsState DEF FilesOK, EmptyState
<1>5. PollerOK
  BY <1>1 DEF PollerOK, Idle
<1>6. ReadFromChain
  BY <1>1, EmptyIsState, TipInNat, IndexerAssumption DEF ReadFromChain
<1> QED
  BY <1>3, <1>4, <1>5, <1>6 DEF IndexerInv

\* What leaves memory and disk alone.
LEMMA SameStore ==
  ASSUME IndexerInv, UNCHANGED <<store_vars, acked, ledger>>
  PROVE  SavesInOrder' /\ FilesOK' /\ ReadFromChain'
<1>1. SavesInOrder'
  BY SameSavesInOrder DEF IndexerInv, store_vars
<1>2. OnDisk' = OnDisk
  BY DEF OnDisk, store_vars
<1>3. FilesOK'
  BY <1>2 DEF IndexerInv, FilesOK, store_vars
<1>4. ReadFromChain'
  BY TipStays DEF IndexerInv, ReadFromChain, store_vars
<1> QED
  BY <1>1, <1>3, <1>4

LEMMA SameFiles ==
  ASSUME FilesOK, UNCHANGED <<main, backup, step, acked>>
  PROVE  FilesOK' /\ OnDisk' = OnDisk
BY DEF FilesOK, OnDisk

LEMMA CloseLedgerInv ==
  ASSUME IndexerInv, CloseLedger
  PROVE  IndexerInv'
<1>1. /\ UNCHANGED <<process, state, saves, step, main, backup, poll, acked>>
      /\ ledger' = ledger + 1
  BY DEF CloseLedger, store_vars, poller_vars
<1>2. SavesInOrder' /\ FilesOK' /\ PollerOK'
  BY <1>1, SameSavesInOrder, SameFiles DEF IndexerInv, PollerOK
<1>3. ReadFromChain'
  <2>1. ledger \in Nat /\ IsState(state) /\ Position(state) <= Tip
    BY DEF IndexerInv, ReadFromChain
  <2>2. Tip <= Tip' /\ Tip' \in Nat /\ Tip \in Nat /\ Position(state) \in Nat
    BY <1>1, <2>1, TipGrows, TipInNat, PositionInNat
  <2> QED
    BY <1>1, <2>1, <2>2 DEF ReadFromChain
<1> QED
  BY <1>2, <1>3 DEF IndexerInv

LEMMA StartTickInv ==
  ASSUME IndexerInv, StartTick
  PROVE  IndexerInv'
<1>1. PollerOK'
  BY DEF IndexerInv, PollerOK, StartTick, store_vars
<1> QED
  BY <1>1, SameStore DEF IndexerInv, StartTick

LEMMA FailPageInv ==
  ASSUME IndexerInv, FailPage
  PROVE  IndexerInv'
<1>1. PollerOK'
  BY DEF IndexerInv, PollerOK, FailPage, store_vars, Idle
<1> QED
  BY <1>1, SameStore DEF IndexerInv, FailPage

\* A page gets at least to where the poller stood, and not beyond the chain.
LEMMA PageMovesOn ==
  ASSUME ReadFromChain, NEW latest, NEW again \in 0..Overlap
  PROVE  LET first == PageStart(state.cursor, latest, again)
             last  == Least(first + PageLimit - 1, Tip)
         IN  last \in Nat /\ Position(state) <= last /\ last <= Tip
<1> DEFINE first == PageStart(state.cursor, latest, again)
           last  == Least(first + PageLimit - 1, Tip)
<1>1. /\ Tip \in Nat /\ PageLimit \in Nat \ {0} /\ Overlap \in Nat
      /\ Overlap <= PageLimit
  BY TipInNat, IndexerAssumption
<1>2. Position(state) \in Nat /\ Position(state) <= Tip /\ state.cursor \in Nat \cup {None}
  BY PositionInNat DEF ReadFromChain, IsState
<1>3. first \in Nat /\ first >= 1 /\ first + PageLimit - 1 >= Position(state)
  <2>1. CASE state.cursor = None
    <3>1. first \in Nat \ {0} /\ Position(state) = 0
      BY <2>1, FirstSinceInNat DEF PageStart, Position
    <3> HIDE DEF first
    <3> QED
      BY <1>1, <3>1
  <2>2. CASE state.cursor # None
    <3>1. first = Greatest(FirstSince(StartLedger), state.cursor + 1 - again)
          /\ Position(state) = state.cursor
      BY <2>2 DEF PageStart, Position
    <3>2. FirstSince(StartLedger) \in Nat \ {0}
      BY FirstSinceInNat
    <3> HIDE DEF first
    <3> QED
      BY <1>1, <1>2, <3>1, <3>2 DEF Greatest
  <2> QED
    BY <2>1, <2>2
<1> HIDE DEF first
<1>4. last \in Nat /\ Position(state) <= last /\ last <= Tip
  BY <1>1, <1>2, <1>3 DEF Least
<1> QED
  BY <1>4 DEF first

LEMMA TakePageInv ==
  ASSUME IndexerInv, NEW again \in 0..Overlap, TakePage(again)
  PROVE  IndexerInv'
<1> DEFINE first == PageStart(poll.cursor, poll.latest, again)
           last  == Least(first + PageLimit - 1, Tip)
           act   == IngestAll(state.activity, first, last, Activity, MAX_PUBLIC_ACTIVITY)
           raw   == IngestAll(state.raw, first, last, Events, MAX_CONTRACT_EVENTS)
<1>1. /\ process # "down" /\ poll.at = "page"
      /\ state' = [state EXCEPT !.activity = act, !.raw = raw, !.cursor = last]
      /\ saves' = Enqueued(state', "poll")
      /\ poll' = [poll EXCEPT !.at = "save"]
      /\ UNCHANGED <<ledger, process, step, main, backup, acked>>
  BY DEF TakePage, CursorAfter
<1>2. SavesInOrder /\ FilesOK /\ PollerOK /\ ReadFromChain /\ IsState(state)
  BY DEF IndexerInv, ReadFromChain
<1>3. poll.cursor = state.cursor
  BY <1>1, <1>2 DEF PollerOK
<1>4. last \in Nat /\ Position(state) <= last /\ last <= Tip
  BY <1>2, <1>3, PageMovesOn
<1> HIDE DEF last, act, raw
<1>5. state' = [cursor |-> last, activity |-> act, raw |-> raw, metrics |-> state.metrics]
  BY <1>1, <1>2 DEF IsState
<1>6. IsState(state') /\ Position(state') = last /\ state'.metrics = state.metrics
  BY <1>2, <1>4, <1>5, IndexerAssumption DEF IsState, Position
<1>7. NoOlder(state, state')
  BY <1>2, <1>4, <1>6 DEF NoOlder, IsState
<1>8. SavesInOrder'
  <2>1. IsState(OnDisk)
    BY <1>2 DEF FilesOK
  <2>2. "poll" # "telemetry"
    OBVIOUS
  <2> QED
    BY <1>1, <1>2, <1>6, <1>7, <2>1, <2>2, EnqueueInOrder
<1>9. FilesOK' /\ PollerOK'
  <2>1. poll' = [at |-> "save", cursor |-> poll.cursor, latest |-> poll.latest]
    BY <1>1, <1>2 DEF PollerOK
  <2> QED
    BY <1>1, <1>2, <2>1, SameFiles DEF PollerOK
<1>10. ReadFromChain'
  BY <1>1, <1>2, <1>4, <1>6, TipStays DEF ReadFromChain
<1> QED
  BY <1>8, <1>9, <1>10 DEF IndexerInv

LEMMA StartCopyInv ==
  ASSUME IndexerInv, StartCopy
  PROVE  IndexerInv'
<1>1. /\ UNCHANGED <<ledger, process, state, saves, main, poll, acked>>
      /\ IF main = Absent THEN step' = "rename" /\ backup' = backup
                          ELSE step' = "copying" /\ backup' = Torn
  BY DEF StartCopy, poller_vars
<1>2. OnDisk' = OnDisk
  BY <1>1 DEF OnDisk
<1>3. FilesOK'
  BY <1>1, <1>2 DEF IndexerInv, FilesOK
<1>4. SavesInOrder' /\ PollerOK' /\ ReadFromChain'
  BY <1>1, SameSavesInOrder, TipStays DEF IndexerInv, PollerOK, ReadFromChain
<1> QED
  BY <1>3, <1>4 DEF IndexerInv

LEMMA FinishCopyInv ==
  ASSUME IndexerInv, FinishCopy
  PROVE  IndexerInv'
<1>1. /\ UNCHANGED <<ledger, process, state, saves, main, poll, acked>>
      /\ step = "copying" /\ step' = "rename" /\ backup' = main
  BY DEF FinishCopy, Saving, poller_vars
<1>2. OnDisk' = OnDisk
  BY <1>1 DEF OnDisk
<1>3. FilesOK'
  BY <1>1, <1>2 DEF IndexerInv, FilesOK
<1>4. SavesInOrder' /\ PollerOK' /\ ReadFromChain'
  BY <1>1, SameSavesInOrder, TipStays DEF IndexerInv, PollerOK, ReadFromChain
<1> QED
  BY <1>3, <1>4 DEF IndexerInv

\* The first save is on disk: as it follows what was there, nothing is lost.
LEMMA RenameInv ==
  ASSUME IndexerInv, Rename
  PROVE  IndexerInv' /\ Position(OnDisk) <= Position(OnDisk')
<1> DEFINE s == saves[1].state
<1>1. SavesInOrder /\ FilesOK /\ PollerOK /\ ReadFromChain
  BY DEF IndexerInv
<1>2. saves # <<>> /\ process # "down"
  BY DEF Rename, Saving
<1>3. 1 \in DOMAIN saves /\ Head(saves) = saves[1]
  BY <1>1, <1>2, RestOfSaves
<1>4. /\ main' = Whole(s)
      /\ saves' = Tail(saves)
      /\ step' = "write"
      /\ poll' = IF saves[1].by = "poll" THEN Idle ELSE poll
      /\ acked' = IF saves[1].by = "telemetry" THEN acked + 1 ELSE acked
      /\ UNCHANGED <<ledger, process, state, backup>>
  BY <1>3 DEF Rename
<1>5. IsState(s) /\ Follows(OnDisk, saves[1])
  BY <1>1, <1>3 DEF SavesInOrder
<1> HIDE DEF s
<1>6. main'.is = "whole" /\ main'.state = s
  BY <1>4 DEF Whole
<1>7. OnDisk' = s
  BY <1>6 DEF OnDisk
<1>8. SavesInOrder'
  BY <1>1, <1>2, <1>4, <1>7, RestInOrder DEF s
<1>9. FilesOK'
  <2>1. main' = Whole(main'.state) /\ main' # Absent
    BY <1>4, <1>6 DEF Absent
  <2>2. acked' \in Nat /\ acked' <= OnDisk'.metrics
    <3>1. /\ acked \in Nat /\ acked <= OnDisk.metrics /\ OnDisk.metrics \in Nat
          /\ s.metrics \in Nat /\ OnDisk.metrics <= s.metrics
          /\ saves[1].by = "telemetry" => OnDisk.metrics < s.metrics
      BY <1>1, <1>5 DEF FilesOK, IsState, Follows, NoOlder, s
    <3> QED
      BY <1>4, <1>7, <3>1
  <2> QED
    BY <1>5, <1>7, <2>1, <2>2 DEF FilesOK
<1>10. PollerOK'
  BY <1>1, <1>2, <1>4 DEF PollerOK, Idle
<1>11. ReadFromChain'
  BY <1>1, <1>4, TipStays DEF ReadFromChain
<1>12. Position(OnDisk) <= Position(OnDisk')
  BY <1>5, <1>7 DEF Follows, NoOlder, s
<1> QED
  BY <1>8, <1>9, <1>10, <1>11, <1>12 DEF IndexerInv

LEMMA FailSaveInv ==
  ASSUME IndexerInv, FailSave
  PROVE  IndexerInv'
<1>1. /\ saves # <<>> /\ process # "down"
      /\ saves' = Tail(saves)
      /\ step' = "write"
      /\ poll' = IF Head(saves).by = "poll" THEN Idle ELSE poll
      /\ UNCHANGED <<ledger, process, state, main, backup, acked>>
  BY DEF FailSave, AfterFailure
<1>2. OnDisk' = OnDisk
  BY <1>1 DEF OnDisk
<1>3. SavesInOrder'
  BY <1>1, <1>2, RestInOrder DEF IndexerInv
<1>4. FilesOK'
  BY <1>1, <1>2 DEF IndexerInv, FilesOK
<1>5. PollerOK' /\ ReadFromChain'
  BY <1>1, TipStays DEF IndexerInv, PollerOK, ReadFromChain, Idle
<1> QED
  BY <1>3, <1>4, <1>5 DEF IndexerInv

\* A server that takes requests is not down.
LEMMA ServingIsUp ==
  ASSUME IndexerInv, Serving
  PROVE  process # "down"
<1>1. process = "down" => saves = <<>>
  BY DEF IndexerInv, PollerOK
<1>2. saves = <<>> => DOMAIN saves = {}
  OBVIOUS
<1> QED
  BY <1>1, <1>2 DEF Serving

LEMMA TelemetryInv ==
  ASSUME IndexerInv, Telemetry
  PROVE  IndexerInv'
<1>1. SavesInOrder /\ FilesOK /\ PollerOK /\ ReadFromChain /\ IsState(state) /\ IsState(OnDisk)
  BY DEF IndexerInv, ReadFromChain, FilesOK
<1>2. /\ state' = [state EXCEPT !.metrics = @ + 1]
      /\ saves' = Enqueued(state', "telemetry")
      /\ process # "down"
      /\ UNCHANGED <<ledger, process, step, main, backup, poll, acked>>
  BY ServingIsUp DEF Telemetry, poller_vars
<1>3. state' = [cursor |-> state.cursor, activity |-> state.activity,
                raw |-> state.raw, metrics |-> state.metrics + 1]
  BY <1>1, <1>2 DEF IsState
<1>4. IsState(state') /\ Position(state') = Position(state)
      /\ state'.metrics = state.metrics + 1 /\ state'.cursor = state.cursor
  BY <1>1, <1>3 DEF IsState, Position
<1>5. NoOlder(state, state') /\ state.metrics < state'.metrics
  <2>1. Position(state) \in Nat /\ state.metrics \in Nat
    BY <1>1, PositionInNat DEF IsState
  <2> QED
    BY <1>4, <2>1 DEF NoOlder
<1>6. SavesInOrder'
  BY <1>1, <1>2, <1>4, <1>5, EnqueueInOrder
<1>7. FilesOK' /\ PollerOK'
  BY <1>1, <1>2, <1>4, SameFiles DEF PollerOK
<1>8. ReadFromChain'
  BY <1>1, <1>2, <1>4, TipStays DEF ReadFromChain
<1> QED
  BY <1>6, <1>7, <1>8 DEF IndexerInv

LEMMA ShutdownInv ==
  ASSUME IndexerInv, Shutdown
  PROVE  IndexerInv'
<1>1. SavesInOrder /\ FilesOK /\ PollerOK /\ ReadFromChain /\ IsState(state) /\ IsState(OnDisk)
  BY DEF IndexerInv, ReadFromChain, FilesOK
<1>2. /\ process' = "stopping"
      /\ saves' = Enqueued(state, "shutdown")
      /\ UNCHANGED <<ledger, state, step, main, backup, poll, acked>>
  BY DEF Shutdown, poller_vars
<1>3. SavesInOrder'
  <2>1. "shutdown" # "telemetry" /\ NoOlder(state, state)
    BY <1>1, NoOlderThanItself
  <2> QED
    BY <1>1, <1>2, <2>1, EnqueueInOrder
<1>4. FilesOK' /\ PollerOK' /\ ReadFromChain'
  BY <1>1, <1>2, SameFiles, TipStays DEF PollerOK, ReadFromChain
<1> QED
  BY <1>3, <1>4 DEF IndexerInv

\* However the process ends: what was only in memory or on its way is lost.
LEMMA StoppedInv ==
  ASSUME IndexerInv, Stopped
  PROVE  IndexerInv'
<1>1. SavesInOrder /\ FilesOK /\ PollerOK /\ ReadFromChain
  BY DEF IndexerInv
<1>2. /\ process' = "down" /\ saves' = <<>> /\ step' = "write" /\ poll' = Idle
      /\ UNCHANGED <<ledger, state, main, backup, acked>>
  BY DEF Stopped
<1>3. OnDisk' = OnDisk
  BY <1>2 DEF OnDisk
<1>4. SavesInOrder'
  BY <1>1, <1>2, <1>3, NoSavesInOrder DEF SavesInOrder
<1>5. FilesOK'
  BY <1>1, <1>2, <1>3 DEF FilesOK
<1>6. PollerOK' /\ ReadFromChain'
  BY <1>1, <1>2, TipStays DEF PollerOK, ReadFromChain, Idle
<1> QED
  BY <1>4, <1>5, <1>6 DEF IndexerInv

\* The backup is never needed: load finds what the last save has left.
LEMMA RecoveredIsOnDisk ==
  ASSUME FilesOK
  PROVE  Recovered.is = "whole" /\ Recovered.state = OnDisk
<1>1. CASE main = Absent
  BY <1>1 DEF FilesOK, Recovered, OnDisk, Absent, Whole
<1>2. CASE main = Whole(main.state)
  <2>1. main.is = "whole"
    BY <1>2 DEF Whole
  <2> QED
    BY <2>1 DEF Recovered, OnDisk
<1> QED
  BY <1>1, <1>2 DEF FilesOK

LEMMA RestartInv ==
  ASSUME IndexerInv, Restart
  PROVE  IndexerInv'
<1>1. SavesInOrder /\ FilesOK /\ PollerOK /\ ReadFromChain
  BY DEF IndexerInv
<1>2. /\ process = "down" /\ process' = "up" /\ state' = OnDisk
      /\ UNCHANGED <<ledger, saves, step, main, backup, poll, acked>>
  BY <1>1, RecoveredIsOnDisk DEF Restart
<1>3. IsState(OnDisk) /\ FilesOK' /\ OnDisk' = OnDisk
  BY <1>1, <1>2, SameFiles DEF FilesOK
<1>4. saves = <<>> /\ poll.at # "page"
  BY <1>1, <1>2 DEF PollerOK
<1>5. SavesInOrder'
  BY <1>2, <1>3, <1>4, NoOlderThanItself, NoSavesInOrder
<1>6. PollerOK'
  BY <1>1, <1>2, <1>4 DEF PollerOK
<1>7. ReadFromChain'
  <2>1. NoOlder(OnDisk, state) /\ Position(state) <= Tip /\ ledger \in Nat /\ IsState(state)
    BY <1>1 DEF SavesInOrder, ReadFromChain
  <2>2. Position(OnDisk) \in Nat /\ Position(state) \in Nat /\ Tip \in Nat
    BY <1>3, <2>1, PositionInNat, TipInNat
  <2>3. Position(OnDisk) <= Tip
    BY <2>1, <2>2 DEF NoOlder
  <2> QED
    BY <1>2, <1>3, <2>1, <2>3, TipStays DEF ReadFromChain
<1> QED
  BY <1>3, <1>5, <1>6, <1>7 DEF IndexerInv

\* The listening page and stuttering touch none of this.
LEMMA PageInv ==
  ASSUME IndexerInv, UNCHANGED <<process, store_vars, poller_vars, acked, ledger>>
  PROVE  IndexerInv'
<1>1. PollerOK'
  BY DEF IndexerInv, PollerOK, store_vars, poller_vars
<1> QED
  BY <1>1, SameStore DEF IndexerInv

\* Every step keeps the invariant, and only a rename changes the main file.
LEMMA NextInv ==
  ASSUME IndexerInv, [IndexerNext]_indexer_vars
  PROVE  IndexerInv' /\ (main' = main \/ Position(OnDisk) <= Position(OnDisk'))
<1>1. CASE CloseLedger
  BY <1>1, CloseLedgerInv DEF CloseLedger, store_vars
<1>2. CASE StartTick
  BY <1>2, StartTickInv DEF StartTick, store_vars
<1>3. ASSUME NEW again \in 0..Overlap, TakePage(again)
      PROVE  IndexerInv' /\ main' = main
  BY <1>3, TakePageInv DEF TakePage
<1>4. CASE FailPage
  BY <1>4, FailPageInv DEF FailPage, store_vars
<1>5. CASE StartCopy
  BY <1>5, StartCopyInv DEF StartCopy
<1>6. CASE FinishCopy
  BY <1>6, FinishCopyInv DEF FinishCopy
<1>7. CASE Rename
  BY <1>7, RenameInv
<1>8. CASE FailSave
  BY <1>8, FailSaveInv DEF FailSave
<1>9. CASE Telemetry
  BY <1>9, TelemetryInv DEF Telemetry
<1>10. CASE Shutdown
  BY <1>10, ShutdownInv DEF Shutdown
<1>11. CASE Exit \/ Crash
  <2>1. Stopped
    BY <1>11 DEF Exit, Crash
  <2> QED
    BY <2>1, StoppedInv DEF Stopped
<1>12. CASE Restart
  BY <1>12, RestartInv DEF Restart
<1>13. CASE Connect \/ Receive \/ Disconnect
  <2>1. UNCHANGED <<process, store_vars, poller_vars, acked, ledger>>
    BY <1>13 DEF Connect, Receive, Disconnect
  <2> QED
    BY <2>1, PageInv DEF store_vars
<1>14. CASE UNCHANGED indexer_vars
  <2>1. UNCHANGED <<process, store_vars, poller_vars, acked, ledger>>
    BY <1>14 DEF indexer_vars
  <2> QED
    BY <2>1, PageInv DEF store_vars
<1> QED
  BY <1>1, <1>2, <1>3, <1>4, <1>5, <1>6, <1>7, <1>8, <1>9, <1>10, <1>11, <1>12, <1>13,
     <1>14 DEF IndexerNext, PollStep, SaveStep

-----------------------------------------------------------------------------
(* The theorems.                                                            *)

LEMMA IndexerInvariant == IndexerSpec => []IndexerInv
BY InitInv, NextInv, PTL DEF IndexerSpec

\* What telemetry was told is counted is in what the next start reads, and there
\* is always something to read: no crash, failed save or torn backup costs it.
THEOREM AcknowledgedAlways == IndexerSpec => []AcknowledgedIsDurable
<1>1. IndexerInv => AcknowledgedIsDurable
  <2> SUFFICES ASSUME IndexerInv PROVE AcknowledgedIsDurable
    OBVIOUS
  <2>1. acked \in Nat /\ acked <= OnDisk.metrics /\ OnDisk.metrics \in Nat
    BY DEF IndexerInv, FilesOK, IsState
  <2>2. Recovered.is = "whole" /\ Recovered.state = OnDisk
    BY RecoveredIsOnDisk DEF IndexerInv
  <2> QED
    BY <2>1, <2>2 DEF AcknowledgedIsDurable
<1> QED
  BY <1>1, IndexerInvariant, PTL

\* The cursor in the state file never goes back: saves reach the disk in the
\* order of the states they write, and those only move on.
THEOREM CursorOnDiskAdvances == IndexerSpec => CursorNeverBack
<1>1. IndexerInv => CursorOf(main) = Position(OnDisk) /\ CursorOf(main) \in Nat
  <2> SUFFICES ASSUME IndexerInv
               PROVE  CursorOf(main) = Position(OnDisk) /\ CursorOf(main) \in Nat
    OBVIOUS
  <2>1. IsState(OnDisk)
    BY DEF IndexerInv, FilesOK
  <2>2. main.is = "whole" => CursorOf(main) = Position(OnDisk)
    BY DEF CursorOf, OnDisk
  <2>3. main.is # "whole" => CursorOf(main) = Position(OnDisk)
    BY EmptyIsState DEF CursorOf, OnDisk
  <2> QED
    BY <2>1, <2>2, <2>3, PositionInNat
<1>2. IndexerInv' => (CursorOf(main) = Position(OnDisk) /\ CursorOf(main) \in Nat)'
  BY <1>1, PTL
<1>3. IndexerInv /\ IndexerInv' /\ [IndexerNext]_indexer_vars
        => [CursorOf(main') >= CursorOf(main)]_indexer_vars
  <2> SUFFICES ASSUME IndexerInv, IndexerInv', [IndexerNext]_indexer_vars
               PROVE  CursorOf(main') >= CursorOf(main)
    OBVIOUS
  <2>1. CursorOf(main) = Position(OnDisk) /\ CursorOf(main) \in Nat
    BY <1>1
  <2>2. (CursorOf(main) = Position(OnDisk) /\ CursorOf(main) \in Nat)'
    BY <1>2
  <2>3. main' = main \/ Position(OnDisk) <= Position(OnDisk')
    BY NextInv
  <2>4. CASE main' = main
    BY <2>1, <2>4
  <2>5. CASE Position(OnDisk) <= Position(OnDisk')
    <3>1. CursorOf(main') = Position(OnDisk')
      BY <2>2
    <3> QED
      BY <2>1, <2>2, <2>5, <3>1
  <2> QED
    BY <2>3, <2>4, <2>5
<1> QED
  BY <1>3, IndexerInvariant, PTL DEF IndexerSpec, CursorNeverBack

-----------------------------------------------------------------------------
(* The feeds.  The invariant of the files says of states only how they are  *)
(* ordered; this one says what is in each of them.                          *)

(***************************************************************************)
(* A feed of a state whose cursor is at c.  The ids are in chain order, so *)
(* that the last MAX_DEDUPE_IDS of them reach back at least that far, the  *)
(* list is in the opposite order, and no event since StartLedger is left   *)
(* out: all are indexed, and only the oldest are missing from the list.    *)
(***************************************************************************)
FeedOK(feed, kinds, c) ==
  /\ feed = [ids |-> feed.ids, items |-> feed.items]
  /\ feed.ids \in Seq(Events) /\ feed.items \in Seq(Events)
  /\ Len(feed.ids) <= MAX_DEDUPE_IDS
  /\ \A m, n \in DOMAIN feed.ids : m <= n => feed.ids[m] + (n - m) <= feed.ids[n]
  /\ \A n \in DOMAIN feed.ids : feed.ids[n] <= c
  /\ \A m, n \in DOMAIN feed.items : m < n => feed.items[m] > feed.items[n]
  /\ \A n \in DOMAIN feed.items : feed.items[n] <= c
  /\ \A e \in kinds : e <= c /\ Ledger[e] >= StartLedger => Indexed(feed, e)
  /\ \A n \in DOMAIN feed.items : \A e \in kinds :
       feed.items[n] < e /\ e <= c /\ Ledger[e] >= StartLedger => e \in ToSet(feed.items)

FeedsOK(s) ==
  /\ IsState(s)
  /\ Position(s) <= Len(Ledger)
  /\ FeedOK(s.activity, Activity, Position(s))
  /\ FeedOK(s.raw, Events, Position(s))

\* All copies of the state, the one in memory, those to be saved and the files.
StoredOK ==
  /\ FeedsOK(state)
  /\ \A n \in DOMAIN saves : FeedsOK(saves[n].state)
  /\ main.is = "whole" => FeedsOK(main.state)
  /\ backup.is = "whole" => FeedsOK(backup.state)

\* A fresh start asks early enough for Backlog to reach back to StartLedger.
PolledInTime == state.cursor = None => ledger <= StartLedger + Backlog

FirstPoll ==
  /\ poll.latest \in Nat
  /\ poll.at = "page" =>
       /\ poll.latest <= ledger
       /\ poll.cursor = None => poll.latest <= StartLedger + Backlog

\* What the poller's health says it has scanned, it has.
HealthOK ==
  /\ health = [failures |-> health.failures, latest |-> health.latest,
               succeeded |-> health.succeeded, last |-> health.last]
  /\ health.last \in Nat /\ health.latest \in Nat
  /\ \A e \in Events : Ledger[e] < health.last => e <= Position(state)

FeedsInv == StoredOK /\ FirstPoll /\ HealthOK

-----------------------------------------------------------------------------
(* Taking in the events of a page one after the other.                      *)

\* Numbers have a least one.
LEMMA LeastOf ==
  ASSUME NEW S \in SUBSET Nat, S # {}
  PROVE  \E n \in S : \A m \in S : n <= m
<1> DEFINE Less == {ss \in Nat \X Nat : ss[1] < ss[2]}
<1>1. IsWellFoundedOn(Less, Nat)
  BY NatLessThanWellFounded, Zenon DEF OpToRel
<1> HIDE DEF Less
<1>2. PICK n \in S : \A m \in S : <<m, n>> \notin Less
  BY <1>1, WFMin
<1>3. ASSUME NEW m \in S PROVE n <= m
  <2>1. m \in Nat /\ n \in Nat /\ ~(m < n)
    BY <1>2 DEF Less
  <2> QED
    BY <2>1
<1> QED
  BY <1>3

\* taken[e] is the feed after the events up to e.
Takes(taken, feed, first, last, kinds, bound) ==
  taken = [e \in (first - 1)..last |->
             IF e < first THEN feed ELSE Ingest(taken[e - 1], e, kinds, bound)]

LEMMA IngestAllTakes ==
  ASSUME NEW feed, NEW first, NEW last, NEW kinds, NEW bound
  PROVE  IngestAll(feed, first, last, kinds, bound) =
           (CHOOSE taken : Takes(taken, feed, first, last, kinds, bound))[last]
BY DEF IngestAll, Takes

\* The recursion has a solution, as it starts somewhere.
LEMMA TakesExists ==
  ASSUME NEW feed, NEW first \in Nat \ {0}, NEW last \in Nat, first - 1 <= last,
         NEW kinds, NEW bound
  PROVE  \E taken : Takes(taken, feed, first, last, kinds, bound)
<1> DEFINE Bad == {n \in (first - 1)..last :
                     ~ \E taken : Takes(taken, feed, first, n, kinds, bound)}
<1> SUFFICES ASSUME Bad # {} PROVE FALSE
  OBVIOUS
<1>1. PICK n \in Bad : \A m \in Bad : n <= m
  <2>1. Bad \in SUBSET Nat
    OBVIOUS
  <2> HIDE DEF Bad
  <2> QED
    BY <2>1, LeastOf
<1>2. n \in (first - 1)..last /\ ~ \E taken : Takes(taken, feed, first, n, kinds, bound)
  BY <1>1
<1>3. CASE n = first - 1
  <2> DEFINE taken == [e \in (first - 1)..n |-> feed]
  <2>1. taken = [e \in (first - 1)..n |->
                   IF e < first THEN feed ELSE Ingest(taken[e - 1], e, kinds, bound)]
    BY <1>3
  <2> HIDE DEF taken
  <2>2. Takes(taken, feed, first, n, kinds, bound)
    BY <2>1 DEF Takes
  <2> QED
    BY <1>2, <2>2
<1>4. CASE n # first - 1
  <2>1. n - 1 \in (first - 1)..last /\ n - 1 \notin Bad
    BY <1>1, <1>2, <1>4
  <2>2. PICK before : Takes(before, feed, first, n - 1, kinds, bound)
    BY <2>1
  <2> DEFINE taken == [e \in (first - 1)..n |->
                         IF e < first THEN feed ELSE Ingest(before[e - 1], e, kinds, bound)]
  <2>3. \A e \in (first - 1)..(n - 1) : taken[e] = before[e]
    BY <1>2, <2>2 DEF Takes
  <2>4. \A e \in first..n : taken[e - 1] = before[e - 1]
    <3> HIDE DEF taken
    <3> QED
      BY <1>2, <2>3
  <2>5. taken = [e \in (first - 1)..n |->
                   IF e < first THEN feed ELSE Ingest(taken[e - 1], e, kinds, bound)]
    <3> DEFINE after == [e \in (first - 1)..n |->
                           IF e < first THEN feed ELSE Ingest(taken[e - 1], e, kinds, bound)]
    <3>1. ASSUME NEW e \in (first - 1)..n PROVE taken[e] = after[e]
      <4>1. CASE e < first
        BY <4>1
      <4>2. CASE ~(e < first)
        <5>1. e \in first..n
          BY <1>2, <4>2
        <5>2. taken[e - 1] = before[e - 1]
          BY <2>4, <5>1
        <5>3. taken[e] = Ingest(before[e - 1], e, kinds, bound)
          BY <4>2
        <5>4. after[e] = Ingest(taken[e - 1], e, kinds, bound)
          BY <4>2
        <5> HIDE DEF taken, after
        <5> QED
          BY <5>2, <5>3, <5>4
      <4> QED
        BY <4>1, <4>2
    <3> QED
      BY <3>1
  <2> HIDE DEF taken
  <2>6. Takes(taken, feed, first, n, kinds, bound)
    BY <2>5 DEF Takes
  <2> QED
    BY <1>2, <2>6
<1> QED
  BY <1>3, <1>4

(***************************************************************************)
(* Induction over a page: if the feed is good at first, and a good feed    *)
(* that takes in an event is good after that event, it is good at the end. *)
(* Good[e] are the good feeds after the events up to e.                    *)
(***************************************************************************)
LEMMA PageInduction ==
  ASSUME NEW feed, NEW first \in Nat \ {0}, NEW last \in Nat, first - 1 <= last,
         NEW kinds, NEW bound, NEW Good,
         feed \in Good[first - 1],
         \A e \in first..last : \A f \in Good[e - 1] :
           Ingest(f, e, kinds, bound) \in Good[e]
  PROVE  IngestAll(feed, first, last, kinds, bound) \in Good[last]
<1> DEFINE taken == CHOOSE t : Takes(t, feed, first, last, kinds, bound)
<1>1. Takes(taken, feed, first, last, kinds, bound)
  BY TakesExists
<1>2. IngestAll(feed, first, last, kinds, bound) = taken[last]
  BY IngestAllTakes
<1> HIDE DEF taken
<1>3. taken[first - 1] = feed
  BY <1>1 DEF Takes
<1>4. \A e \in first..last : taken[e] = Ingest(taken[e - 1], e, kinds, bound)
  BY <1>1 DEF Takes
<1> DEFINE Bad == {e \in (first - 1)..last : taken[e] \notin Good[e]}
<1>5. Bad = {}
  <2> SUFFICES ASSUME Bad # {} PROVE FALSE
    OBVIOUS
  <2>1. PICK n \in Bad : \A m \in Bad : n <= m
    <3>1. Bad \in SUBSET Nat
      OBVIOUS
    <3> HIDE DEF Bad
    <3> QED
      BY <3>1, LeastOf
  <2>2. n \in first..last
    BY <1>3, <2>1
  <2>3. n - 1 \in (first - 1)..last /\ n - 1 \notin Bad
    BY <2>1, <2>2
  <2>4. taken[n - 1] \in Good[n - 1]
    BY <2>3
  <2> QED
    BY <1>4, <2>1, <2>2, <2>4
<1> QED
  BY <1>2, <1>5

\* A set of events that has with each event all earlier ones is a beginning of
\* the chain.
LEMMA Beginning ==
  ASSUME NEW D \in SUBSET Events, \A e \in D, f \in Events : f <= e => f \in D
  PROVE  D = 1..Cardinality(D)
<1>0. Events = 1..Len(Ledger) /\ Len(Ledger) \in Nat
  <2>1. Ledger \in Seq(Nat \ {0})
    BY IndexerAssumption
  <2> QED
    BY <2>1 DEF Events
<1> DEFINE Out == {n \in Nat : n + 1 \notin D}
<1>1. Len(Ledger) \in Out /\ Out \in SUBSET Nat
  BY <1>0
<1> HIDE DEF Out
<1>2. PICK n \in Out : \A m \in Out : n <= m
  BY <1>1, LeastOf
<1>3. n \in Nat /\ n + 1 \notin D /\ \A m \in Nat : m < n => m + 1 \in D
  BY <1>2 DEF Out
<1>4. ASSUME NEW e \in 1..n PROVE e \in D
  <2>1. e - 1 \in Nat /\ e - 1 < n /\ (e - 1) + 1 = e
    BY <1>3
  <2> QED
    BY <1>3, <2>1
<1>5. ASSUME NEW e \in D PROVE e \in 1..n
  <2> SUFFICES ASSUME e > n PROVE FALSE
    BY <1>0, <1>3
  <2>1. n + 1 \in Events /\ n + 1 <= e
    BY <1>0, <1>3
  <2> QED
    BY <1>3, <2>1
<1>6. D = 1..n
  BY <1>4, <1>5
<1>7. Cardinality(1..n) = n
  BY <1>3, FS_Interval
<1> QED
  BY <1>6, <1>7

LEMMA LedgersInOrder ==
  \A e, f \in Events : e <= f => Ledger[e] <= Ledger[f] /\ Ledger[e] \in Nat /\ Ledger[f] \in Nat
BY IndexerAssumption, LedgerOfEvent

LEMMA ChainIsBeginning ==
  ASSUME ledger \in Nat
  PROVE  /\ OnChain = 1..Tip
         /\ \A l \in Nat : {e \in OnChain : Ledger[e] < l} = 1..(FirstSince(l) - 1)
<1>0. Events = 1..Len(Ledger) /\ Len(Ledger) \in Nat
  <2>1. Ledger \in Seq(Nat \ {0})
    BY IndexerAssumption
  <2> QED
    BY <2>1 DEF Events
<1>1. OnChain = 1..Tip
  <2>1. OnChain \in SUBSET Events
    BY DEF OnChain
  <2>2. \A e \in OnChain, f \in Events : f <= e => f \in OnChain
    BY <1>0, LedgersInOrder DEF OnChain
  <2> QED
    BY <2>1, <2>2, Beginning DEF Tip
<1>2. ASSUME NEW l \in Nat
      PROVE  {e \in OnChain : Ledger[e] < l} = 1..(FirstSince(l) - 1)
  <2> DEFINE before == {e \in OnChain : Ledger[e] < l}
  <2>1. before \in SUBSET Events
    BY DEF OnChain
  <2>2. \A e \in before, f \in Events : f <= e => f \in before
    BY <1>0, LedgersInOrder DEF OnChain
  <2>3. FirstSince(l) = 1 + Cardinality(before)
    BY DEF FirstSince
  <2> HIDE DEF before
  <2>4. before = 1..Cardinality(before)
    BY <2>1, <2>2, Beginning
  <2>5. Cardinality(before) \in Nat
    BY <2>1, EventsFinite, FS_Subset, FS_CardinalityType
  <2>6. FirstSince(l) - 1 = Cardinality(before)
    BY <2>3, <2>5
  <2> QED
    BY <2>4, <2>6 DEF before
<1> QED
  BY <1>1, <1>2

\* Where the new event is put, when it is newer than all in the list.
LEMMA NewestIsPutFirst ==
  ASSUME NEW items \in Seq(Events), NEW e \in Events,
         \A n \in DOMAIN items : items[n] <= e
  PROVE  NewerThan(items, Ledger[e]) = 0
<1>1. \A n \in DOMAIN items : items[n] \in Events
  OBVIOUS
<1>2. \A n \in DOMAIN items : ~(Ledger[items[n]] > Ledger[e])
  BY <1>1, LedgersInOrder
<1>3. {n \in DOMAIN items : Ledger[items[n]] > Ledger[e]} = {}
  BY <1>2
<1> QED
  BY <1>3, FS_EmptySet DEF NewerThan

PutFirst(items, e, bound) == First(InsertAt(items, 1, e), bound)

LEMMA NewItems ==
  ASSUME NEW items \in Seq(Events), NEW e \in Events, NEW bound \in Nat
  PROVE  LET new == PutFirst(items, e, bound) IN
         /\ new \in Seq(Events)
         /\ Len(new) <= Len(items) + 1
         /\ \A n \in 1..Len(new) : new[n] = IF n = 1 THEN e ELSE items[n - 1]
<1> DEFINE new  == PutFirst(items, e, bound)
           list == InsertAt(items, 1, e)
<1>1. /\ list \in Seq(Events)
      /\ Len(list) = Len(items) + 1
      /\ \A n \in 1..Len(list) : list[n] = IF n = 1 THEN e ELSE items[n - 1]
  <2>1. list = SubSeq(items, 1, 0) \o <<e>> \o SubSeq(items, 1, Len(items))
    BY DEF InsertAt
  <2>2. SubSeq(items, 1, 0) = <<>> /\ SubSeq(items, 1, Len(items)) = items
    OBVIOUS
  <2>3. list = <<e>> \o items
    BY <2>1, <2>2
  <2> HIDE DEF list
  <2> QED
    BY <2>3
<1> DEFINE k == Least(bound, Len(list))
<1>2. new = SubSeq(list, 1, k)
  BY DEF First, PutFirst
<1> HIDE DEF list, new
<1>3. k \in Nat /\ k <= Len(list)
  BY <1>1 DEF Least
<1> HIDE DEF k
<1>4. new \in Seq(Events) /\ Len(new) = k /\ \A n \in 1..k : new[n] = list[n]
  <2>1. list \in Seq(Events) /\ Len(list) \in Nat
    BY <1>1
  <2>2. \A n \in 1..k : list[n] \in Events
    BY <1>3, <2>1
  <2>3. new = [n \in 1..k |-> list[n]]
    BY <1>2, <1>3, <2>1
  <2> QED
    BY <1>3, <2>2, <2>3
<1>5. /\ new \in Seq(Events)
      /\ Len(new) <= Len(items) + 1
      /\ \A n \in 1..Len(new) : new[n] = IF n = 1 THEN e ELSE items[n - 1]
  BY <1>1, <1>3, <1>4
<1> QED
  BY <1>5 DEF new

\* At most one id, the oldest, is dropped.
LEMMA NewIds ==
  ASSUME NEW ids \in Seq(Events), NEW e \in Events, Len(ids) <= MAX_DEDUPE_IDS,
         NEW new, new = Newest(Append(ids, e), MAX_DEDUPE_IDS)
  PROVE  /\ new \in Seq(Events)
         /\ Len(new) <= MAX_DEDUPE_IDS
         /\ \E k \in {0, 1} :
              /\ Len(new) = Len(ids) + 1 - k
              /\ k = 1 => Len(new) = MAX_DEDUPE_IDS
              /\ \A n \in 1..Len(new) :
                   new[n] = IF n + k = Len(ids) + 1 THEN e ELSE ids[n + k]
<1> DEFINE list == Append(ids, e)
           k    == Greatest(1, Len(list) - MAX_DEDUPE_IDS + 1) - 1
<1>1. /\ list \in Seq(Events)
      /\ Len(list) = Len(ids) + 1 /\ Len(ids) \in Nat
      /\ \A n \in 1..Len(list) : list[n] = IF n = Len(ids) + 1 THEN e ELSE ids[n]
  OBVIOUS
<1>2. MAX_DEDUPE_IDS \in Nat \ {0}
  BY IndexerAssumption
<1> HIDE DEF list
<1>3. k \in {0, 1} /\ (k = 1 => Len(ids) = MAX_DEDUPE_IDS)
      /\ (k = 0 => Len(ids) + 1 <= MAX_DEDUPE_IDS)
  BY <1>1, <1>2 DEF Greatest
<1>4. new = SubSeq(list, k + 1, Len(list))
  <2>1. Greatest(1, Len(list) - MAX_DEDUPE_IDS + 1) = k + 1
    BY <1>1, <1>2 DEF Greatest
  <2> HIDE DEF k
  <2> QED
    BY <2>1 DEF Newest, list
<1> HIDE DEF k
<1>5. /\ new \in Seq(Events)
      /\ Len(new) = Len(list) - k
      /\ \A n \in 1..(Len(list) - k) : new[n] = list[n + k]
  BY <1>1, <1>3, <1>4
<1>6. Len(new) = Len(ids) + 1 - k /\ Len(new) <= MAX_DEDUPE_IDS
      /\ (k = 1 => Len(new) = MAX_DEDUPE_IDS)
  BY <1>1, <1>2, <1>3, <1>5
<1>7. ASSUME NEW n \in 1..Len(new)
      PROVE  new[n] = IF n + k = Len(ids) + 1 THEN e ELSE ids[n + k]
  BY <1>1, <1>3, <1>5, <1>6
<1> QED
  BY <1>3, <1>5, <1>6, <1>7

\* An event that is sent again is known: the ids reach back far enough.
LEMMA SentAgainIsKnown ==
  ASSUME NEW feed, NEW kinds \in SUBSET Events, NEW c \in Nat, FeedOK(feed, kinds, c),
         NEW e \in kinds, e <= c, c - e < Overlap, Ledger[e] >= StartLedger
  PROVE  Known(feed, e)
<1> SUFFICES ASSUME ~Known(feed, e) PROVE FALSE
  OBVIOUS
<1> DEFINE ids == feed.ids
<1>1. /\ ids \in Seq(Events) /\ Indexed(feed, e)
      /\ \A m, n \in DOMAIN ids : m <= n => ids[m] + (n - m) <= ids[n]
      /\ \A n \in DOMAIN ids : ids[n] <= c
  BY DEF FeedOK
<1>2. Len(ids) = MAX_DEDUPE_IDS /\ \A f \in ToSet(ids) : e < f
  BY <1>1 DEF Indexed
<1>3. MAX_DEDUPE_IDS \in Nat \ {0} /\ Overlap \in Nat /\ Overlap <= MAX_DEDUPE_IDS
  BY IndexerAssumption
<1>4. Events \subseteq Nat
  <2>1. Ledger \in Seq(Nat \ {0})
    BY IndexerAssumption
  <2> QED
    BY <2>1 DEF Events
<1> HIDE DEF ids
<1>5. 1 \in DOMAIN ids /\ MAX_DEDUPE_IDS \in DOMAIN ids
  BY <1>1, <1>2, <1>3
<1>6. ids[1] \in Nat /\ ids[MAX_DEDUPE_IDS] \in Nat /\ e \in Nat
  <2>1. ids[1] \in Events /\ ids[MAX_DEDUPE_IDS] \in Events
    BY <1>1, <1>5
  <2>2. e \in Events
    OBVIOUS
  <2> QED
    BY <1>4, <2>1, <2>2
<1>7. e < ids[1]
  BY <1>2, <1>5 DEF ToSet
<1>8. ids[1] + (MAX_DEDUPE_IDS - 1) <= ids[MAX_DEDUPE_IDS] /\ ids[MAX_DEDUPE_IDS] <= c
  BY <1>1, <1>3, <1>5
<1> QED
  BY <1>3, <1>6, <1>7, <1>8

LEMMA EventsAreNumbers ==
  Events = 1..Len(Ledger) /\ Len(Ledger) \in Nat /\ Events \subseteq Nat \ {0}
<1>1. Ledger \in Seq(Nat \ {0})
  BY IndexerAssumption
<1>2. Events = 1..Len(Ledger) /\ Len(Ledger) \in Nat
  BY <1>1 DEF Events
<1> QED
  BY <1>2

\* The next event of the chain joins a feed at its end.
LEMMA IngestNew ==
  ASSUME NEW feed, NEW kinds \in SUBSET Events, NEW e \in kinds, FeedOK(feed, kinds, e - 1),
         NEW bound \in Nat
  PROVE  FeedOK(Ingest(feed, e, kinds, bound), kinds, e)
<1> DEFINE ids   == feed.ids
           items == feed.items
           new   == Ingest(feed, e, kinds, bound)
<1>0. Events = 1..Len(Ledger) /\ Events \subseteq Nat \ {0} /\ e \in Events /\ e \in Nat
  BY EventsAreNumbers
<1>1. /\ ids \in Seq(Events) /\ items \in Seq(Events)
      /\ Len(ids) <= MAX_DEDUPE_IDS
      /\ \A m, n \in DOMAIN ids : m <= n => ids[m] + (n - m) <= ids[n]
      /\ \A n \in DOMAIN ids : ids[n] <= e - 1
      /\ \A m, n \in DOMAIN items : m < n => items[m] > items[n]
      /\ \A n \in DOMAIN items : items[n] <= e - 1
      /\ \A f \in kinds : f <= e - 1 /\ Ledger[f] >= StartLedger => Indexed(feed, f)
      /\ \A n \in DOMAIN items : \A f \in kinds :
           items[n] < f /\ f <= e - 1 /\ Ledger[f] >= StartLedger => f \in ToSet(items)
  BY DEF FeedOK
<1>2. ~Known(feed, e)
  <2> SUFFICES ASSUME Known(feed, e) PROVE FALSE
    OBVIOUS
  <2>1. PICK n \in DOMAIN ids : ids[n] = e
    BY DEF Known, ToSet
  <2> HIDE DEF ids
  <2> QED
    BY <1>0, <1>1, <2>1
<1>3. NewerThan(items, Ledger[e]) = 0
  <2> HIDE DEF items
  <2>1. \A n \in DOMAIN items : items[n] \in Events
    BY <1>1
  <2>2. \A n \in DOMAIN items : items[n] <= e
    BY <1>0, <1>1, <2>1
  <2> QED
    BY <1>0, <1>1, <2>2, NewestIsPutFirst
<1>4. new = [ids   |-> Newest(Append(ids, e), MAX_DEDUPE_IDS),
             items |-> PutFirst(items, e, bound)]
  BY <1>2, <1>3 DEF Ingest, PutFirst
<1> DEFINE newIds   == Newest(Append(ids, e), MAX_DEDUPE_IDS)
           newItems == PutFirst(items, e, bound)
<1>5. new.ids = newIds /\ new.items = newItems /\ new = [ids |-> new.ids, items |-> new.items]
  BY <1>4
<1>6. /\ newItems \in Seq(Events)
      /\ Len(newItems) <= Len(items) + 1
      /\ \A n \in 1..Len(newItems) : newItems[n] = IF n = 1 THEN e ELSE items[n - 1]
  <2>1. newItems = PutFirst(items, e, bound)
    OBVIOUS
  <2>2. items \in Seq(Events) /\ e \in Events /\ bound \in Nat
    BY <1>0, <1>1
  <2> HIDE DEF items, newItems
  <2> QED
    BY ONLY <2>1, <2>2, NewItems
<1>7. /\ newIds \in Seq(Events)
      /\ Len(newIds) <= MAX_DEDUPE_IDS
      /\ \E k \in {0, 1} :
           /\ Len(newIds) = Len(ids) + 1 - k
           /\ k = 1 => Len(newIds) = MAX_DEDUPE_IDS
           /\ \A n \in 1..Len(newIds) :
                newIds[n] = IF n + k = Len(ids) + 1 THEN e ELSE ids[n + k]
  <2> HIDE DEF ids
  <2> QED
    BY <1>0, <1>1, NewIds
<1>8. PICK k \in {0, 1} :
           /\ Len(newIds) = Len(ids) + 1 - k
           /\ k = 1 => Len(newIds) = MAX_DEDUPE_IDS
           /\ \A n \in 1..Len(newIds) :
                newIds[n] = IF n + k = Len(ids) + 1 THEN e ELSE ids[n + k]
  BY <1>7
<1> HIDE DEF newIds, newItems, new, ids, items
<1>9. /\ Len(ids) \in Nat /\ DOMAIN ids = 1..Len(ids) /\ DOMAIN newIds = 1..Len(newIds)
      /\ Len(items) \in Nat /\ DOMAIN items = 1..Len(items)
      /\ DOMAIN newItems = 1..Len(newItems) /\ Len(newItems) \in Nat /\ Len(newIds) \in Nat
  BY <1>1, <1>6, <1>7
<1>10. \A n \in DOMAIN ids : ids[n] \in Nat
  <2>1. \A n \in DOMAIN ids : ids[n] \in Events
    BY <1>1
  <2> QED
    BY <1>0, <2>1
<1>11. \A n \in DOMAIN items : items[n] \in Nat
  <2>1. \A n \in DOMAIN items : items[n] \in Events
    BY <1>1
  <2> QED
    BY <1>0, <2>1
<1>12. ASSUME NEW m \in DOMAIN newIds, NEW n \in DOMAIN newIds, m <= n
       PROVE  newIds[m] + (n - m) <= newIds[n]
  <2>1. m \in Nat /\ n \in Nat /\ m + k \in 1..(Len(ids) + 1) /\ n + k \in 1..(Len(ids) + 1)
    BY <1>8, <1>9
  <2>2. CASE n + k # Len(ids) + 1
    <3>1. m + k \in DOMAIN ids /\ n + k \in DOMAIN ids /\ m + k # Len(ids) + 1
      BY <1>9, <1>12, <2>1, <2>2
    <3>2. newIds[m] = ids[m + k] /\ newIds[n] = ids[n + k]
      BY <1>8, <1>9, <2>2, <3>1
    <3>3. ids[m + k] + ((n + k) - (m + k)) <= ids[n + k]
      BY <1>1, <1>12, <2>1, <3>1
    <3> QED
      BY <1>10, <2>1, <3>1, <3>2, <3>3
  <2>3. CASE n + k = Len(ids) + 1 /\ m + k # Len(ids) + 1
    <3>1. m + k \in DOMAIN ids /\ Len(ids) \in DOMAIN ids /\ m + k <= Len(ids)
      BY <1>9, <2>1, <2>3
    <3>2. newIds[m] = ids[m + k] /\ newIds[n] = e
      BY <1>8, <1>9, <2>3
    <3>3. ids[m + k] + (Len(ids) - (m + k)) <= ids[Len(ids)] /\ ids[Len(ids)] <= e - 1
      BY <1>1, <3>1
    <3>4. ids[m + k] \in Nat /\ ids[Len(ids)] \in Nat
      BY <1>10, <3>1
    <3>5. n - m = (Len(ids) - (m + k)) + 1 /\ Len(ids) - (m + k) \in Int
      BY <1>9, <2>1, <2>3
    <3>6. ids[m + k] + ((Len(ids) - (m + k)) + 1) <= e
      BY <1>0, <3>3, <3>4, <3>5
    <3> QED
      BY <3>2, <3>5, <3>6
  <2>4. CASE m + k = Len(ids) + 1
    <3>1. m = n /\ newIds[m] = e
      BY <1>8, <1>9, <1>12, <2>1, <2>4
    <3> QED
      BY <1>0, <2>1, <3>1
  <2> QED
    BY <2>2, <2>3, <2>4
<1>13. ASSUME NEW n \in DOMAIN newIds PROVE newIds[n] <= e
  <2>1. CASE n + k = Len(ids) + 1
    BY <1>0, <1>8, <1>9, <2>1
  <2>2. CASE n + k # Len(ids) + 1
    <3>1. n + k \in DOMAIN ids
      BY <1>8, <1>9, <2>2
    <3>2. newIds[n] = ids[n + k] /\ ids[n + k] <= e - 1 /\ ids[n + k] \in Nat
      BY <1>1, <1>8, <1>9, <1>10, <2>2, <3>1
    <3> QED
      BY <1>0, <3>2
  <2> QED
    BY <2>1, <2>2
<1>14. ASSUME NEW n \in DOMAIN newItems PROVE newItems[n] <= e
  <2>1. CASE n = 1
    BY <1>0, <1>6, <1>9, <2>1
  <2>2. CASE n # 1
    <3>1. n - 1 \in DOMAIN items
      BY <1>6, <1>9, <2>2
    <3>2. newItems[n] = items[n - 1] /\ items[n - 1] <= e - 1 /\ items[n - 1] \in Nat
      BY <1>1, <1>6, <1>9, <1>11, <2>2, <3>1
    <3> QED
      BY <1>0, <3>2
  <2> QED
    BY <2>1, <2>2
<1>15. ASSUME NEW m \in DOMAIN newItems, NEW n \in DOMAIN newItems, m < n
       PROVE  newItems[m] > newItems[n]
  <2>1. n - 1 \in DOMAIN items /\ n # 1 /\ m \in Nat /\ n \in Nat
    BY <1>6, <1>9, <1>15
  <2>2. newItems[n] = items[n - 1] /\ items[n - 1] \in Nat
    BY <1>6, <1>9, <1>11, <2>1
  <2>3. CASE m = 1
    <3>1. newItems[m] = e /\ items[n - 1] <= e - 1
      BY <1>1, <1>6, <1>9, <2>1, <2>3
    <3> QED
      BY <1>0, <2>2, <3>1
  <2>4. CASE m # 1
    <3>1. m - 1 \in DOMAIN items /\ m - 1 < n - 1 /\ newItems[m] = items[m - 1]
      BY <1>6, <1>9, <1>15, <2>1, <2>4
    <3> QED
      BY <1>1, <2>1, <2>2, <3>1
  <2> QED
    BY <2>3, <2>4
<1>16. Known(new, e)
  <2> DEFINE n == Len(ids) + 1 - k
  <2>1. n \in DOMAIN newIds /\ n + k = Len(ids) + 1
    <3>1. n # 0
      <4>1. MAX_DEDUPE_IDS # 0
        BY IndexerAssumption
      <4> QED
        BY <1>8, <1>9, <4>1
    <3> QED
      BY <1>8, <1>9, <3>1
  <2>2. newIds[n] = e
    BY <1>8, <1>9, <2>1
  <2> HIDE DEF n
  <2> QED
    BY <1>5, <2>1, <2>2 DEF Known, ToSet
<1>17. ASSUME NEW f \in kinds, f <= e, Ledger[f] >= StartLedger
       PROVE  Indexed(new, f)
  <2>1. CASE f = e
    BY <1>16, <2>1 DEF Indexed
  <2>2. CASE f # e
    <3>1. f <= e - 1 /\ f \in Nat /\ f < e
      BY <1>0, <1>17, <2>2
    <3>2. Indexed(feed, f)
      BY <1>1, <1>17, <3>1
    <3>4. ASSUME NEW n \in DOMAIN newIds
          PROVE  newIds[n] = e \/ (n + k \in DOMAIN ids /\ newIds[n] = ids[n + k])
      <4>1. CASE n + k = Len(ids) + 1
        BY <1>8, <1>9, <4>1
      <4>2. CASE n + k # Len(ids) + 1
        <5>1. n + k \in DOMAIN ids
          BY <1>8, <1>9, <4>2
        <5> QED
          BY <1>8, <1>9, <4>2, <5>1
      <4> QED
        BY <4>1, <4>2
    <3>5. CASE \E n \in DOMAIN ids : ids[n] = f /\ n > k
      <4>1. PICK n \in DOMAIN ids : ids[n] = f /\ n > k
        BY <3>5
      <4>2. n - k \in 1..Len(newIds) /\ (n - k) + k = n /\ n # Len(ids) + 1
        BY <1>8, <1>9, <4>1
      <4>3. n - k \in DOMAIN newIds /\ newIds[n - k] = f
        BY <1>8, <1>9, <4>1, <4>2
      <4> QED
        BY <1>5, <4>3 DEF Indexed, Known, ToSet
    <3>6. CASE \E n \in DOMAIN ids : ids[n] = f /\ ~(n > k)
      <4>1. k = 1 /\ 1 \in DOMAIN ids /\ ids[1] = f
        BY <1>8, <1>9, <3>6
      <4>2. ASSUME NEW n \in DOMAIN newIds PROVE f < newIds[n]
        <5>1. CASE newIds[n] = e
          BY <3>1, <5>1
        <5>2. CASE n + k \in DOMAIN ids /\ newIds[n] = ids[n + k]
          <6>1. ids[1] + ((n + 1) - 1) <= ids[n + 1] /\ ids[n + 1] \in Nat
            BY <1>1, <1>9, <1>10, <4>1, <5>2
          <6> QED
            BY <1>9, <3>1, <4>1, <5>2, <6>1
        <5> QED
          BY <3>4, <5>1, <5>2
      <4>3. Len(new.ids) = MAX_DEDUPE_IDS /\ \A g \in ToSet(new.ids) : f < g
        BY <1>5, <1>8, <4>1, <4>2 DEF ToSet
      <4> QED
        BY <4>3 DEF Indexed
    <3>7. CASE ~ \E n \in DOMAIN ids : ids[n] = f
      <4>1. Len(ids) = MAX_DEDUPE_IDS /\ \A n \in DOMAIN ids : f < ids[n]
        <5>1. ~Known(feed, f)
          BY <3>7 DEF Known, ToSet, ids
        <5> QED
          BY <3>2, <5>1 DEF Indexed, ToSet, ids
      <4>2. Len(newIds) = MAX_DEDUPE_IDS
        <5>1. MAX_DEDUPE_IDS \in Nat
          BY IndexerAssumption
        <5> QED
          BY <1>7, <1>8, <4>1, <5>1
      <4>3. ASSUME NEW n \in DOMAIN newIds PROVE f < newIds[n]
        BY <3>1, <3>4, <4>1
      <4>4. \A g \in ToSet(new.ids) : f < g
        BY <1>5, <4>3 DEF ToSet
      <4> QED
        BY <1>5, <4>2, <4>4 DEF Indexed
    <3> QED
      BY <3>5, <3>6, <3>7
  <2> QED
    BY <2>1, <2>2
<1>18. ASSUME NEW n \in DOMAIN newItems, NEW f \in kinds,
              newItems[n] < f, f <= e, Ledger[f] >= StartLedger
       PROVE  f \in ToSet(newItems)
  <2>1. 1 \in DOMAIN newItems /\ newItems[1] = e /\ f \in Nat
    BY <1>0, <1>6, <1>9, <1>18
  <2>2. CASE f = e
    BY <2>1, <2>2 DEF ToSet
  <2>3. CASE f # e
    <3>0. n # 1 /\ f <= e - 1
      BY <1>0, <1>18, <2>1, <2>3
    <3>1. n # 1 /\ n - 1 \in DOMAIN items /\ newItems[n] = items[n - 1] /\ f <= e - 1
      BY <1>6, <1>9, <3>0
    <3>2. f \in ToSet(items)
      BY <1>1, <1>18, <3>1
    <3>3. PICK k1 \in DOMAIN items : items[k1] = f
      BY <3>2 DEF ToSet
    <3>4. k1 < n - 1
      <4>1. ~(n - 1 < k1) /\ n - 1 # k1
        BY <1>1, <1>11, <1>18, <3>1, <3>3
      <4> QED
        BY <1>9, <3>1, <4>1
    <3>5. k1 + 1 \in DOMAIN newItems /\ newItems[k1 + 1] = f
      BY <1>6, <1>9, <3>1, <3>3, <3>4
    <3> QED
      BY <3>5 DEF ToSet
  <2> QED
    BY <2>2, <2>3
<1>19. FeedOK(new, kinds, e)
  BY <1>5, <1>6, <1>7, <1>12, <1>13, <1>14, <1>15, <1>17, <1>18 DEF FeedOK
<1> QED
  BY <1>19 DEF new

\* A cursor may pass over what is older than StartLedger.
LEMMA PassesOldEvents ==
  ASSUME NEW feed, NEW kinds \in SUBSET Events, NEW c \in Nat, NEW d \in Nat, c <= d,
         FeedOK(feed, kinds, c),
         \A e \in kinds : c < e /\ e <= d => ~(Ledger[e] >= StartLedger)
  PROVE  FeedOK(feed, kinds, d)
<1>1. /\ feed.ids \in Seq(Events) /\ feed.items \in Seq(Events)
      /\ \A n \in DOMAIN feed.ids : feed.ids[n] <= c
      /\ \A n \in DOMAIN feed.items : feed.items[n] <= c
      /\ \A e \in kinds : e <= c /\ Ledger[e] >= StartLedger => Indexed(feed, e)
  BY DEF FeedOK
<1>2. Events \subseteq Nat
  BY EventsAreNumbers
<1>3. (\A n \in DOMAIN feed.ids : feed.ids[n] \in Events)
      /\ (\A n \in DOMAIN feed.items : feed.items[n] \in Events)
  BY <1>1
<1>4. ASSUME NEW n \in DOMAIN feed.ids PROVE feed.ids[n] <= d
  <2>1. feed.ids[n] \in Nat /\ feed.ids[n] <= c
    BY <1>1, <1>2, <1>3
  <2> QED
    BY <2>1
<1>5. ASSUME NEW n \in DOMAIN feed.items PROVE feed.items[n] <= d
  <2>1. feed.items[n] \in Nat /\ feed.items[n] <= c
    BY <1>1, <1>2, <1>3
  <2> QED
    BY <2>1
<1>6. ASSUME NEW e \in kinds, e <= d, Ledger[e] >= StartLedger
      PROVE  Indexed(feed, e)
  <2>1. e \in Nat
    BY <1>2
  <2>2. ~(c < e)
    BY <1>6
  <2>3. e <= c
    BY <2>1, <2>2
  <2> QED
    BY <1>1, <1>6, <2>3
<1>7. ASSUME NEW n \in DOMAIN feed.items, NEW e \in kinds,
             feed.items[n] < e, e <= d, Ledger[e] >= StartLedger
      PROVE  e \in ToSet(feed.items)
  <2>1. e \in Nat /\ ~(c < e)
    BY <1>2, <1>7
  <2>2. e <= c
    BY <2>1
  <2> QED
    BY <1>7, <2>2 DEF FeedOK
<1> QED
  BY <1>4, <1>5, <1>6, <1>7 DEF FeedOK

\* A feed stays in order, and complete, over a page.
LEMMA PageKeepsFeed ==
  ASSUME NEW feed, NEW kinds \in SUBSET Events, NEW c \in Nat, FeedOK(feed, kinds, c),
         NEW bound \in Nat, NEW first \in Nat \ {0}, NEW last \in Nat,
         first - 1 <= last, c <= last,
         \A e \in Events : c < e /\ e < first => ~(Ledger[e] >= StartLedger),
         \A e \in first..last : e <= c => Ledger[e] >= StartLedger /\ c - e < Overlap
  PROVE  FeedOK(IngestAll(feed, first, last, kinds, bound), kinds, last)
<1> DEFINE Feeds == [ids : Seq(Events), items : Seq(Events)]
           Good  == [e \in (first - 1)..last |->
                       {f \in Feeds : FeedOK(f, kinds, Greatest(c, e))}]
<1>0. \A e \in (first - 1)..last : Greatest(c, e) \in Nat /\ c <= Greatest(c, e)
  BY DEF Greatest
<1>1. \A f, d : FeedOK(f, kinds, d) => f \in Feeds
  BY DEF FeedOK
<1>2. \A e \in (first - 1)..last : \A f :
        f \in Good[e] <=> FeedOK(f, kinds, Greatest(c, e))
  BY <1>1
<1> HIDE DEF Good, Feeds
<1>3. feed \in Good[first - 1]
  <2>1. \A e \in kinds : c < e /\ e <= Greatest(c, first - 1) => ~(Ledger[e] >= StartLedger)
    BY EventsAreNumbers DEF Greatest
  <2>2. FeedOK(feed, kinds, Greatest(c, first - 1))
    BY <1>0, <2>1, PassesOldEvents
  <2> QED
    BY <1>2, <2>2
<1>4. ASSUME NEW e \in first..last, NEW f \in Good[e - 1]
      PROVE  Ingest(f, e, kinds, bound) \in Good[e]
  <2>1. e \in (first - 1)..last /\ e - 1 \in (first - 1)..last /\ e \in Nat
    OBVIOUS
  <2>2. FeedOK(f, kinds, Greatest(c, e - 1))
    BY <1>2, <2>1
  <2>3. FeedOK(Ingest(f, e, kinds, bound), kinds, Greatest(c, e))
    <3>1. CASE e \notin kinds
      <4>1. Ingest(f, e, kinds, bound) = f
        BY <3>1 DEF Ingest
      <4>2. \A g \in kinds : Greatest(c, e - 1) < g /\ g <= Greatest(c, e) => g = e
        BY <2>1, EventsAreNumbers DEF Greatest
      <4>3. Greatest(c, e - 1) \in Nat /\ Greatest(c, e) \in Nat
            /\ Greatest(c, e - 1) <= Greatest(c, e)
        BY <2>1 DEF Greatest
      <4>4. FeedOK(f, kinds, Greatest(c, e))
        BY <2>2, <3>1, <4>2, <4>3, PassesOldEvents
      <4> QED
        BY <4>1, <4>4
    <3>2. CASE e \in kinds /\ e <= c
      <4>1. Greatest(c, e - 1) = c /\ Greatest(c, e) = c
        BY <2>1, <3>2 DEF Greatest
      <4>2. Known(f, e)
        BY <2>2, <3>2, <4>1, SentAgainIsKnown
      <4>3. Ingest(f, e, kinds, bound) = f
        BY <4>2 DEF Ingest
      <4> QED
        BY <2>2, <4>1, <4>3
    <3>3. CASE e \in kinds /\ ~(e <= c)
      <4>1. Greatest(c, e - 1) = e - 1 /\ Greatest(c, e) = e
        BY <2>1, <3>3 DEF Greatest
      <4> QED
        BY <2>2, <3>3, <4>1, IngestNew
    <3> QED
      BY <3>1, <3>2, <3>3
  <2> QED
    BY <1>2, <2>1, <2>3
<1>5. IngestAll(feed, first, last, kinds, bound) \in Good[last]
  BY <1>3, <1>4, PageInduction
<1>6. Greatest(c, last) = last
  BY DEF Greatest
<1> QED
  BY <1>2, <1>5, <1>6

\* Where a page begins and ends, and what it can leave out or repeat.
LEMMA PageOfChain ==
  ASSUME ReadFromChain, NEW latest \in Nat, NEW again \in 0..Overlap,
         state.cursor = None => latest <= StartLedger + Backlog
  PROVE  LET first == PageStart(state.cursor, latest, again)
             last  == Least(first + PageLimit - 1, Tip)
             c     == Position(state)
         IN  /\ first \in Nat \ {0} /\ last \in Nat
             /\ first - 1 <= last /\ c <= last /\ last <= Tip
             /\ \A e \in Events : c < e /\ e < first => ~(Ledger[e] >= StartLedger)
             /\ \A e \in first..last :
                  e <= c => Ledger[e] >= StartLedger /\ c - e < Overlap
             /\ \A e \in first..last : Ledger[e] >= StartLedger
<1> DEFINE first == PageStart(state.cursor, latest, again)
           last  == Least(first + PageLimit - 1, Tip)
           c     == Position(state)
           since == FirstSince(StartLedger)
<1>1. /\ Tip \in Nat /\ PageLimit \in Nat \ {0} /\ Overlap \in Nat
      /\ StartLedger \in Nat /\ Backlog \in Nat
  BY TipInNat, IndexerAssumption
<1>2. c \in Nat /\ c <= Tip /\ state.cursor \in Nat \cup {None} /\ ledger \in Nat
  BY PositionInNat DEF ReadFromChain, IsState
<1>3. last \in Nat /\ c <= last /\ last <= Tip
  BY PageMovesOn
<1>4. since \in Nat \ {0} /\ OnChain = 1..Tip
      /\ {e \in OnChain : Ledger[e] < StartLedger} = 1..(since - 1)
  BY <1>1, <1>2, FirstSinceInNat, ChainIsBeginning
<1>5. /\ first \in Nat \ {0}
      /\ first = since \/ (first > since /\ first = c + 1 - again)
      /\ first > c => first = since \/ first = c + 1
      /\ first > c - Overlap
  <2>1. CASE state.cursor = None
    <3>1. Greatest(StartLedger, latest - Backlog) = StartLedger
      BY <1>1, <2>1 DEF Greatest
    <3>2. first = since /\ c = 0
      BY <2>1, <3>1 DEF PageStart, Position
    <3> HIDE DEF first, since
    <3> QED
      BY <1>1, <1>4, <3>2
  <2>2. CASE state.cursor # None
    <3>1. first = Greatest(since, c + 1 - again)
      BY <2>2 DEF PageStart, Position
    <3> HIDE DEF first, since, c
    <3> QED
      BY <1>1, <1>2, <1>4, <3>1 DEF Greatest
  <2> QED
    BY <2>1, <2>2
<1>6. Events \subseteq Nat \ {0}
  BY EventsAreNumbers
<1>7. since - 1 <= Tip
  <2> HIDE DEF since
  <2>1. since - 1 = 0 \/ since - 1 \in 1..(since - 1)
    BY <1>4
  <2>2. since - 1 = 0 \/ since - 1 \in 1..Tip
    BY <1>4, <2>1
  <2> QED
    BY <1>1, <1>4, <2>2
<1>8. first - 1 <= last
  <2>1. last = Least(first + PageLimit - 1, Tip)
    OBVIOUS
  <2> HIDE DEF first, last, since, c
  <2>2. first - 1 <= Tip
    BY <1>1, <1>2, <1>4, <1>5, <1>7
  <2> QED
    BY <1>1, <1>5, <2>1, <2>2 DEF Least
<1>9. ASSUME NEW e \in Events, c < e, e < first
      PROVE  ~(Ledger[e] >= StartLedger)
  <2>1. Ledger[e] \in Nat
    BY LedgerOfEvent
  <2> HIDE DEF first, last, since, c
  <2>2. e \in 1..(since - 1)
    BY <1>2, <1>4, <1>5, <1>6, <1>9
  <2>3. Ledger[e] < StartLedger
    BY <1>4, <2>2
  <2> QED
    BY <1>1, <2>1, <2>3
<1>10. ASSUME NEW e \in first..last
       PROVE  Ledger[e] >= StartLedger /\ (e <= c => c - e < Overlap)
  <2> HIDE DEF first, last, since, c
  <2>1. e \in OnChain /\ e \notin 1..(since - 1)
    BY <1>1, <1>3, <1>4, <1>5
  <2>2. Ledger[e] \in Nat /\ ~(Ledger[e] < StartLedger)
    BY <1>4, <2>1, LedgerOfEvent DEF OnChain
  <2> QED
    BY <1>1, <1>2, <1>5, <1>10, <2>2
<1>11. /\ first \in Nat \ {0} /\ last \in Nat
       /\ first - 1 <= last /\ c <= last /\ last <= Tip
       /\ \A e \in Events : c < e /\ e < first => ~(Ledger[e] >= StartLedger)
       /\ \A e \in first..last : e <= c => Ledger[e] >= StartLedger /\ c - e < Overlap
       /\ \A e \in first..last : Ledger[e] >= StartLedger
  BY <1>3, <1>5, <1>8, <1>9, <1>10
<1> QED
  BY <1>11

-----------------------------------------------------------------------------
(* The invariant of the feeds holds at first, and each step keeps it.       *)

LEMMA EmptyFeedsOK == FeedsOK(EmptyState)
<1>1. IsState(EmptyState) /\ Position(EmptyState) = 0
  BY EmptyIsState
<1>2. Len(Ledger) \in Nat /\ Events \subseteq Nat \ {0} /\ Activity \subseteq Events
  BY EventsAreNumbers, IndexerAssumption
<1>3. EmptyState.activity = EmptyFeed /\ EmptyState.raw = EmptyFeed
  BY DEF EmptyState
<1>4. ASSUME NEW kinds \in SUBSET Events PROVE FeedOK(EmptyFeed, kinds, 0)
  <2>1. EmptyFeed = [ids |-> EmptyFeed.ids, items |-> EmptyFeed.items]
        /\ EmptyFeed.ids = <<>> /\ EmptyFeed.items = <<>>
    BY DEF EmptyFeed
  <2>2. MAX_DEDUPE_IDS \in Nat
    BY IndexerAssumption
  <2>3. \A e \in kinds : ~(e <= 0)
    BY <1>2
  <2> QED
    BY <2>1, <2>2, <2>3 DEF FeedOK
<1>5. FeedOK(EmptyFeed, Activity, 0) /\ FeedOK(EmptyFeed, Events, 0)
  BY <1>2, <1>4
<1> QED
  BY <1>1, <1>2, <1>3, <1>5 DEF FeedsOK

\* The poller of a fresh process has not scanned beyond the state it found.
LEMMA FreshHealthOK ==
  ASSUME NEW s, FeedsOK(s)
  PROVE  /\ FreshHealth(s).last \in Nat /\ FreshHealth(s).latest = 0
         /\ \A e \in Events : Ledger[e] < FreshHealth(s).last => e <= Position(s)
<1> DEFINE items == s.raw.items
<1>1. /\ items \in Seq(Events) /\ IsState(s)
      /\ \A n \in DOMAIN items : items[n] <= Position(s)
  BY DEF FeedsOK, FeedOK
<1>2. Position(s) \in Nat
  BY <1>1, PositionInNat
<1>3. FreshHealth(s).last = IF items = <<>> THEN 0 ELSE Ledger[Head(items)]
  BY DEF FreshHealth
<1>4. FreshHealth(s).latest = 0
  BY DEF FreshHealth
<1> HIDE DEF items
<1>5. CASE items = <<>>
  BY <1>3, <1>4, <1>5, LedgerOfEvent
<1>6. CASE items # <<>>
  <2>1. Head(items) \in Events /\ Head(items) <= Position(s)
    BY <1>1, <1>6
  <2>2. FreshHealth(s).last = Ledger[Head(items)] /\ Ledger[Head(items)] \in Nat
    BY <1>3, <1>6, <2>1, LedgerOfEvent
  <2>3. ASSUME NEW e \in Events, Ledger[e] < Ledger[Head(items)]
        PROVE  e <= Position(s)
    <3>1. Ledger[e] \in Nat /\ e \in Nat /\ Head(items) \in Nat
      BY <2>1, LedgerOfEvent, EventsAreNumbers
    <3>2. ~(Head(items) <= e)
      BY <2>1, <2>2, <2>3, <3>1, LedgersInOrder
    <3> QED
      BY <1>2, <2>1, <3>1, <3>2
  <2> QED
    BY <1>4, <2>2, <2>3
<1> QED
  BY <1>5, <1>6

LEMMA InitFeeds == IndexerInit => FeedsInv
<1> SUFFICES ASSUME IndexerInit PROVE FeedsInv
  OBVIOUS
<1>1. /\ state = EmptyState /\ saves = <<>> /\ main = Absent /\ backup = Absent
      /\ poll = Idle /\ health = FreshHealth(EmptyState)
  BY DEF IndexerInit
<1>2. StoredOK
  <2>1. DOMAIN saves = {} /\ main.is # "whole" /\ backup.is # "whole"
    BY <1>1 DEF Absent
  <2> QED
    BY <1>1, <2>1, EmptyFeedsOK DEF StoredOK
<1>3. FirstPoll
  BY <1>1 DEF FirstPoll, Idle
<1>4. HealthOK
  <2>1. health = [failures |-> health.failures, latest |-> health.latest,
                  succeeded |-> health.succeeded, last |-> health.last]
    BY <1>1 DEF FreshHealth
  <2> QED
    BY <1>1, <2>1, EmptyFeedsOK, FreshHealthOK DEF HealthOK
<1> QED
  BY <1>2, <1>3, <1>4 DEF FeedsInv

\* A save that joins the chain writes what memory holds.
LEMMA EnqueueStored ==
  ASSUME SavesInOrder, StoredOK, NEW t, FeedsOK(t), NEW by,
         state' = t, saves' = Enqueued(t, by), main' = main, backup' = backup
  PROVE  StoredOK'
<1> DEFINE save == [state |-> t, by |-> by]
           S    == {saves[n] : n \in DOMAIN saves}
<1>1. saves \in Seq(S) /\ saves' = Append(saves, save) /\ save.state = t
  BY DEF SavesInOrder, Enqueued
<1> HIDE DEF save, S
<1>2. /\ DOMAIN saves' = 1..(Len(saves) + 1) /\ DOMAIN saves = 1..Len(saves)
      /\ Len(saves) \in Nat
      /\ saves'[Len(saves) + 1] = save
      /\ \A n \in DOMAIN saves : saves'[n] = saves[n]
  BY <1>1
<1>3. \A n \in DOMAIN saves' : n \in DOMAIN saves \/ n = Len(saves) + 1
  BY <1>2
<1>4. \A n \in DOMAIN saves' : FeedsOK(saves'[n].state)
  BY <1>1, <1>2, <1>3 DEF StoredOK
<1> QED
  BY <1>4 DEF StoredOK

\* The first save leaves the chain, whether or not it reached the disk.
LEMMA RestStored ==
  ASSUME SavesInOrder, StoredOK, saves # <<>>, saves' = Tail(saves), state' = state,
         main' = main \/ main' = Whole(saves[1].state), backup' = backup
  PROVE  StoredOK'
<1>1. /\ 1 \in DOMAIN saves
      /\ \A n \in DOMAIN saves' : n + 1 \in DOMAIN saves /\ saves'[n] = saves[n + 1]
  BY RestOfSaves
<1>2. \A n \in DOMAIN saves' : FeedsOK(saves'[n].state)
  BY <1>1 DEF StoredOK
<1>3. main'.is = "whole" => FeedsOK(main'.state)
  BY <1>1 DEF StoredOK, Whole
<1> QED
  BY <1>2, <1>3 DEF StoredOK

LEMMA SameStored ==
  ASSUME StoredOK, UNCHANGED <<state, saves, main, backup>>
  PROVE  StoredOK'
BY DEF StoredOK

\* The poller's health, when it says nothing new of what was scanned.
LEMMA SameScanned ==
  ASSUME HealthOK, state'.cursor = state.cursor,
         \/ health' = health
         \/ health' = TickFailed
         \/ health' = TickSucceeded /\ poll.latest \in Nat
  PROVE  HealthOK'
<1>1. Position(state') = Position(state)
  BY DEF Position
<1>2. /\ health' = [failures |-> health'.failures, latest |-> health'.latest,
                    succeeded |-> health'.succeeded, last |-> health'.last]
      /\ health'.last = health.last
      /\ health'.latest \in Nat
  BY DEF HealthOK, TickFailed, TickSucceeded
<1> QED
  BY <1>1, <1>2 DEF HealthOK

\* While it waits for a page, no poller forgets when it asked.
LEMMA SamePoll ==
  ASSUME FirstPoll, ledger' = ledger, poll' = poll \/ poll' = Idle
  PROVE  FirstPoll'
BY DEF FirstPoll, Idle

\* What has been scanned, after a page: all that is older than the last event of a
\* full page, and than the latest ledger if the page is not full.
LEMMA ScannedIsRead ==
  ASSUME ledger \in Nat, NEW latest \in Nat, latest <= ledger,
         NEW first \in Nat \ {0}, NEW last \in Nat,
         last = Least(first + PageLimit - 1, Tip), first - 1 <= last
  PROVE  LET newer == Greatest(Scanned(first, last, latest),
                               IF last >= first THEN Ledger[last] ELSE 0)
         IN  newer \in Nat /\ \A e \in Events : Ledger[e] < newer => e <= last
<1> DEFINE scanned == Scanned(first, last, latest)
           reached == IF last >= first THEN Ledger[last] ELSE 0
<1>1. /\ Tip \in Nat /\ PageLimit \in Nat \ {0} /\ OnChain = 1..Tip
      /\ Events = 1..Len(Ledger) /\ Len(Ledger) \in Nat /\ last <= Tip
  BY TipInNat, IndexerAssumption, ChainIsBeginning, EventsAreNumbers DEF Least
<1>2. ASSUME last >= first
      PROVE  Ledger[last] \in Nat /\ \A e \in Events : Ledger[e] < Ledger[last] => e <= last
  <2>1. last \in Events
    <3>1. last \in OnChain
      BY <1>1, <1>2
    <3> QED
      BY <3>1 DEF OnChain
  <2>2. Ledger[last] \in Nat
    BY <2>1, LedgerOfEvent
  <2>3. ASSUME NEW e \in Events, Ledger[e] < Ledger[last] PROVE e <= last
    <3>1. e \in Nat /\ Ledger[e] \in Nat
      BY <1>1, LedgerOfEvent
    <3>2. ~(last <= e)
      BY <2>1, <2>2, <2>3, <3>1, LedgersInOrder
    <3> QED
      BY <3>1, <3>2
  <2> QED
    BY <2>2, <2>3
<1>3. reached \in Nat /\ \A e \in Events : Ledger[e] < reached => e <= last
  <2>1. CASE last >= first
    BY <1>2, <2>1
  <2>2. CASE ~(last >= first)
    <3>1. reached = 0
      BY <2>2
    <3> HIDE DEF reached
    <3> QED
      BY <3>1, LedgerOfEvent
  <2> QED
    BY <2>1, <2>2
<1>4. scanned \in Nat /\ \A e \in Events : Ledger[e] < scanned => e <= last
  <2>1. CASE last - first + 1 < PageLimit
    <3>1. scanned = latest
      BY <2>1 DEF Scanned
    <3>2. last = Tip
      BY <1>1, <2>1 DEF Least
    <3>3. ASSUME NEW e \in Events, Ledger[e] < latest PROVE e <= last
      <4>1. Ledger[e] \in Nat
        BY LedgerOfEvent
      <4>2. e \in OnChain
        BY <3>3, <4>1 DEF OnChain
      <4> QED
        BY <1>1, <3>2, <4>2
    <3> HIDE DEF scanned
    <3> QED
      BY <3>1, <3>3
  <2>2. CASE ~(last - first + 1 < PageLimit)
    <3>1. scanned = Ledger[last] /\ last >= first
      BY <1>1, <2>2 DEF Scanned
    <3> HIDE DEF scanned
    <3> QED
      BY <1>2, <3>1
  <2> QED
    BY <2>1, <2>2
<1> HIDE DEF scanned, reached
<1>5. Greatest(scanned, reached) \in Nat
      /\ \A e \in Events : Ledger[e] < Greatest(scanned, reached) => e <= last
  BY <1>3, <1>4 DEF Greatest
<1> QED
  BY <1>5 DEF scanned, reached

LEMMA TakePageFeeds ==
  ASSUME IndexerInv, IndexerInv', FeedsInv, NEW again \in 0..Overlap, TakePage(again)
  PROVE  FeedsInv'
<1> DEFINE first == PageStart(poll.cursor, poll.latest, again)
           last  == Least(first + PageLimit - 1, Tip)
           act   == IngestAll(state.activity, first, last, Activity, MAX_PUBLIC_ACTIVITY)
           raw   == IngestAll(state.raw, first, last, Events, MAX_CONTRACT_EVENTS)
           newer == Greatest(Scanned(first, last, poll.latest),
                             IF last >= first THEN Ledger[last] ELSE 0)
           c     == Position(state)
<1>1. /\ poll.at = "page"
      /\ state' = [state EXCEPT !.activity = act, !.raw = raw, !.cursor = last]
      /\ saves' = Enqueued(state', "poll")
      /\ poll' = [poll EXCEPT !.at = "save"]
      /\ health' = [health EXCEPT !.last = Greatest(@, newer)]
      /\ UNCHANGED <<ledger, main, backup>>
  BY DEF TakePage, CursorAfter
<1>2. SavesInOrder /\ PollerOK /\ ReadFromChain /\ IsState(state) /\ IsState(state')
      /\ StoredOK /\ FirstPoll /\ HealthOK /\ ledger \in Nat
  BY DEF IndexerInv, ReadFromChain, FeedsInv
<1>3. poll.cursor = state.cursor /\ poll.latest \in Nat /\ poll.latest <= ledger
      /\ (state.cursor = None => poll.latest <= StartLedger + Backlog)
  BY <1>1, <1>2 DEF PollerOK, FirstPoll
<1>4. /\ first \in Nat \ {0} /\ last \in Nat
      /\ first - 1 <= last /\ c <= last /\ last <= Tip
      /\ \A e \in Events : c < e /\ e < first => ~(Ledger[e] >= StartLedger)
      /\ \A e \in first..last : e <= c => Ledger[e] >= StartLedger /\ c - e < Overlap
  BY <1>2, <1>3, PageOfChain
<1>5. newer \in Nat /\ \A e \in Events : Ledger[e] < newer => e <= last
  <2> HIDE DEF first
  <2> QED
    BY <1>2, <1>3, <1>4, ScannedIsRead
<1>6. c \in Nat /\ FeedOK(state.activity, Activity, c) /\ FeedOK(state.raw, Events, c)
  BY <1>2, PositionInNat DEF StoredOK, FeedsOK
<1>7. FeedOK(act, Activity, last) /\ FeedOK(raw, Events, last)
  <2>1. Activity \in SUBSET Events /\ Events \in SUBSET Events
        /\ MAX_PUBLIC_ACTIVITY \in Nat /\ MAX_CONTRACT_EVENTS \in Nat
    BY IndexerAssumption
  <2> HIDE DEF first, last, c
  <2> QED
    BY <1>4, <1>6, <2>1, PageKeepsFeed
<1> HIDE DEF first, last, act, raw, newer, c
<1>8. state' = [cursor |-> last, activity |-> act, raw |-> raw, metrics |-> state.metrics]
  BY <1>1, <1>2 DEF IsState
<1>9. Position(state') = last
  BY <1>4, <1>8, IndexerAssumption DEF Position
<1>10. FeedsOK(state')
  <2>1. last <= Len(Ledger)
    <3>1. Events = 1..Len(Ledger) /\ Len(Ledger) \in Nat /\ OnChain = 1..Tip /\ Tip \in Nat
      BY <1>2, EventsAreNumbers, ChainIsBeginning, TipInNat
    <3>2. last = 0 \/ last \in OnChain
      BY <1>4, <3>1
    <3>3. last = 0 \/ last \in Events
      BY <3>2 DEF OnChain
    <3> QED
      BY <3>1, <3>3
  <2> QED
    BY <1>2, <1>7, <1>8, <1>9, <2>1 DEF FeedsOK
<1>11. StoredOK'
  BY <1>1, <1>2, <1>10, EnqueueStored
<1>12. FirstPoll'
  <2>1. poll' = [at |-> "save", cursor |-> poll.cursor, latest |-> poll.latest]
    BY <1>1, <1>2 DEF PollerOK
  <2> QED
    BY <1>3, <2>1 DEF FirstPoll
<1>13. HealthOK'
  <2>1. health' = [failures |-> health.failures, latest |-> health.latest,
                   succeeded |-> health.succeeded, last |-> Greatest(health.last, newer)]
    BY <1>1, <1>2 DEF HealthOK
  <2>2. health.last \in Nat /\ health.latest \in Nat
        /\ \A e \in Events : Ledger[e] < health.last => e <= c
    BY <1>2 DEF HealthOK, c
  <2>3. Greatest(health.last, newer) \in Nat
    BY <1>5, <2>2 DEF Greatest
  <2>4. ASSUME NEW e \in Events, Ledger[e] < Greatest(health.last, newer)
        PROVE  e <= last
    <3>1. e \in Nat
      BY EventsAreNumbers
    <3>2. CASE Ledger[e] < health.last
      BY <1>4, <1>6, <2>2, <3>1, <3>2
    <3>3. CASE ~(Ledger[e] < health.last)
      <4>1. Ledger[e] < newer
        BY <2>4, <3>3 DEF Greatest
      <4> QED
        BY <1>5, <4>1
    <3> QED
      BY <3>2, <3>3
  <2> QED
    BY <1>9, <2>1, <2>2, <2>3, <2>4 DEF HealthOK
<1> QED
  BY <1>11, <1>12, <1>13 DEF FeedsInv

\* Every step keeps the feeds, if the first poll comes in time.
LEMMA NextFeeds ==
  ASSUME IndexerInv, IndexerInv', FeedsInv, PolledInTime, [IndexerNext]_indexer_vars
  PROVE  FeedsInv'
<1>0. /\ SavesInOrder /\ FilesOK /\ PollerOK /\ ReadFromChain /\ ledger \in Nat
      /\ StoredOK /\ FirstPoll /\ HealthOK /\ FeedsOK(state) /\ poll.latest \in Nat
  BY DEF IndexerInv, ReadFromChain, FeedsInv, StoredOK, FirstPoll
<1>1. CASE CloseLedger
  <2>1. UNCHANGED <<state, saves, main, backup, poll, health>> /\ ledger' = ledger + 1
    BY <1>1 DEF CloseLedger, store_vars, poller_vars
  <2>2. FirstPoll'
    BY <1>0, <2>1 DEF FirstPoll
  <2> QED
    BY <1>0, <2>1, <2>2, SameStored, SameScanned DEF FeedsInv
<1>2. CASE StartTick
  <2>1. /\ UNCHANGED <<ledger, state, saves, main, backup, health>>
        /\ poll' = [at |-> "page", cursor |-> state.cursor, latest |-> ledger]
    BY <1>2 DEF StartTick, store_vars
  <2>2. FirstPoll'
    BY <1>0, <2>1 DEF FirstPoll, PolledInTime
  <2> QED
    BY <1>0, <2>1, <2>2, SameStored, SameScanned DEF FeedsInv
<1>3. ASSUME NEW again \in 0..Overlap, TakePage(again) PROVE FeedsInv'
  BY <1>3, TakePageFeeds
<1>4. CASE FailPage
  <2>1. /\ UNCHANGED <<ledger, state, saves, main, backup>>
        /\ poll' = Idle /\ health' = TickFailed
    BY <1>4 DEF FailPage, store_vars
  <2> QED
    BY <1>0, <2>1, SameStored, SamePoll, SameScanned DEF FeedsInv
<1>5. CASE StartCopy \/ FinishCopy
  <2>1. /\ UNCHANGED <<ledger, state, saves, main, poll, health>>
        /\ backup' = backup \/ backup' = Torn \/ backup' = main
    BY <1>5 DEF StartCopy, FinishCopy, poller_vars
  <2>2. StoredOK'
    BY <1>0, <2>1 DEF StoredOK, Torn
  <2> QED
    BY <1>0, <2>1, <2>2, SamePoll, SameScanned DEF FeedsInv
<1>6. CASE Rename
  <2>1. saves # <<>> /\ Head(saves) = saves[1]
    BY <1>0, <1>6, RestOfSaves DEF Rename, Saving
  <2>2. /\ UNCHANGED <<ledger, state, backup>>
        /\ main' = Whole(saves[1].state)
        /\ saves' = Tail(saves)
        /\ poll' = poll \/ poll' = Idle
        /\ health' = health \/ health' = TickSucceeded
    BY <1>6, <2>1 DEF Rename
  <2>3. StoredOK'
    BY <1>0, <2>1, <2>2, RestStored
  <2>4. FirstPoll'
    BY <1>0, <2>2, SamePoll
  <2>5. HealthOK'
    BY <1>0, <2>2, SameScanned
  <2> QED
    BY <2>3, <2>4, <2>5 DEF FeedsInv
<1>7. CASE FailSave
  <2>1. /\ UNCHANGED <<ledger, state, main, backup>> /\ saves # <<>>
        /\ saves' = Tail(saves)
        /\ poll' = poll \/ poll' = Idle
        /\ health' = health \/ health' = TickFailed
    BY <1>7 DEF FailSave, AfterFailure
  <2>2. StoredOK'
    BY <1>0, <2>1, RestStored
  <2>3. FirstPoll' /\ HealthOK'
    BY <1>0, <2>1, SamePoll, SameScanned
  <2> QED
    BY <2>2, <2>3 DEF FeedsInv
<1>8. CASE Telemetry
  <2>1. /\ UNCHANGED <<ledger, main, backup, poll, health>>
        /\ state' = [state EXCEPT !.metrics = @ + 1]
        /\ saves' = Enqueued(state', "telemetry")
    BY <1>8 DEF Telemetry, poller_vars
  <2>2. IsState(state) /\ IsState(state')
    BY <1>0 DEF ReadFromChain, IndexerInv
  <2>3. state'.cursor = state.cursor /\ state'.activity = state.activity
        /\ state'.raw = state.raw
    BY <2>1, <2>2 DEF IsState
  <2>4. FeedsOK(state')
    BY <1>0, <2>2, <2>3 DEF FeedsOK, Position
  <2>5. StoredOK'
    BY <1>0, <2>1, <2>4, EnqueueStored
  <2> QED
    BY <1>0, <2>1, <2>3, <2>5, SamePoll, SameScanned DEF FeedsInv
<1>9. CASE Shutdown
  <2>1. /\ UNCHANGED <<ledger, state, main, backup, poll, health>>
        /\ saves' = Enqueued(state, "shutdown")
    BY <1>9 DEF Shutdown, poller_vars
  <2>2. StoredOK'
    BY <1>0, <2>1, EnqueueStored
  <2> QED
    BY <1>0, <2>1, <2>2, SamePoll, SameScanned DEF FeedsInv
<1>10. CASE Exit \/ Crash
  <2>1. /\ UNCHANGED <<ledger, state, main, backup, health>>
        /\ saves' = <<>> /\ poll' = Idle
    BY <1>10 DEF Exit, Crash, Stopped
  <2>2. DOMAIN saves' = {}
    BY <2>1
  <2>3. StoredOK'
    BY <1>0, <2>1, <2>2 DEF StoredOK
  <2> QED
    BY <1>0, <2>1, <2>3, SamePoll, SameScanned DEF FeedsInv
<1>11. CASE Restart
  <2>1. /\ UNCHANGED <<ledger, saves, main, backup, poll>>
        /\ state' = OnDisk /\ health' = FreshHealth(OnDisk)
    BY <1>0, <1>11, RecoveredIsOnDisk DEF Restart
  <2>2. FeedsOK(OnDisk)
    BY <1>0, EmptyFeedsOK DEF OnDisk, StoredOK
  <2>3. StoredOK'
    BY <1>0, <2>1, <2>2 DEF StoredOK
  <2>4. FirstPoll'
    BY <1>0, <2>1, SamePoll
  <2>5. HealthOK'
    <3>1. health' = [failures |-> health'.failures, latest |-> health'.latest,
                     succeeded |-> health'.succeeded, last |-> health'.last]
      BY <2>1 DEF FreshHealth
    <3>2. /\ health'.last \in Nat /\ health'.latest \in Nat
          /\ \A e \in Events : Ledger[e] < health'.last => e <= Position(state')
      BY <2>1, <2>2, FreshHealthOK
    <3> QED
      BY <3>1, <3>2 DEF HealthOK
  <2> QED
    BY <2>3, <2>4, <2>5 DEF FeedsInv
<1>12. CASE Connect \/ Receive \/ Disconnect \/ UNCHANGED indexer_vars
  <2>1. UNCHANGED <<ledger, store_vars, poller_vars>>
    BY <1>12 DEF Connect, Receive, Disconnect, indexer_vars
  <2>2. UNCHANGED <<ledger, state, saves, main, backup, poll, health>>
    BY <2>1 DEF store_vars, poller_vars
  <2> QED
    BY <1>0, <2>2, SameStored, SamePoll, SameScanned DEF FeedsInv
<1> QED
  BY <1>1, <1>2, <1>3, <1>4, <1>5, <1>6, <1>7, <1>8, <1>9, <1>10, <1>11, <1>12
     DEF IndexerNext, PollStep, SaveStep

LEMMA FeedsInvariant == IndexerSpec /\ []PolledInTime => [](IndexerInv /\ FeedsInv)
<1>1. IndexerInv /\ IndexerInv' /\ FeedsInv /\ PolledInTime /\ [IndexerNext]_indexer_vars
        => FeedsInv'
  BY NextFeeds
<1> QED
  BY <1>1, InitFeeds, IndexerInvariant, PTL DEF IndexerSpec

-----------------------------------------------------------------------------
(* What the feeds promise.                                                  *)

\* A sequence without repetition has as many elements as places.
LEMMA DistinctCount ==
  ASSUME NEW s \in Seq(Events), \A m, n \in DOMAIN s : m < n => s[m] # s[n]
  PROVE  Cardinality(ToSet(s)) = Len(s)
<1> DEFINE T == ToSet(s)
<1>1. Len(s) \in Nat /\ DOMAIN s = 1..Len(s) /\ s = [n \in 1..Len(s) |-> s[n]]
  OBVIOUS
<1>2. T = {s[n] : n \in 1..Len(s)}
  BY <1>1 DEF ToSet
<1>3. s \in Bijection(1..Len(s), T)
  <2>1. s \in [1..Len(s) -> T]
    BY <1>1, <1>2
  <2>2. \A m, n \in 1..Len(s) : s[m] = s[n] => m = n
    <3> SUFFICES ASSUME NEW m \in 1..Len(s), NEW n \in 1..Len(s), s[m] = s[n], m # n
                 PROVE  FALSE
      OBVIOUS
    <3>1. m < n \/ n < m
      BY <1>1
    <3> QED
      BY <1>1, <3>1
  <2>3. \A t \in T : \E n \in 1..Len(s) : s[n] = t
    BY <1>2
  <2> HIDE DEF T
  <2> QED
    BY <2>1, <2>2, <2>3 DEF Bijection, Injection, Surjection, IsInjective
<1> HIDE DEF T
<1>4. ExistsBijection(1..Len(s), T)
  BY <1>3 DEF ExistsBijection
<1>5. IsFiniteSet(1..Len(s)) /\ Cardinality(1..Len(s)) = Len(s)
  <2> DEFINE k == Len(s)
  <2>1. k \in Nat
    BY <1>1
  <2> HIDE DEF k
  <2>2. IsFiniteSet(1..k) /\ Cardinality(1..k) = IF 1 > k THEN 0 ELSE k - 1 + 1
    BY <2>1, FS_Interval
  <2>3. Cardinality(1..k) = k
    BY <2>1, <2>2
  <2> QED
    BY <2>2, <2>3 DEF k
<1>6. Cardinality(T) = Len(s)
  BY <1>4, <1>5, FS_Bijection
<1> QED
  BY <1>6 DEF T

LEMMA FeedListsOnce ==
  ASSUME NEW feed, NEW kinds, NEW c, FeedOK(feed, kinds, c)
  PROVE  /\ Cardinality(ToSet(feed.ids)) = Len(feed.ids)
         /\ Cardinality(ToSet(feed.items)) = Len(feed.items)
         /\ \A n \in 2..Len(feed.items) : Ledger[feed.items[n - 1]] >= Ledger[feed.items[n]]
<1> DEFINE ids   == feed.ids
           items == feed.items
<1>1. /\ ids \in Seq(Events) /\ items \in Seq(Events)
      /\ \A m, n \in DOMAIN ids : m <= n => ids[m] + (n - m) <= ids[n]
      /\ \A m, n \in DOMAIN items : m < n => items[m] > items[n]
  BY DEF FeedOK
<1>2. Events \subseteq Nat
  BY EventsAreNumbers
<1> HIDE DEF ids, items
<1>3. ASSUME NEW m \in DOMAIN ids, NEW n \in DOMAIN ids, m < n PROVE ids[m] # ids[n]
  <2>1. ids[m] \in Nat /\ ids[n] \in Nat /\ m \in Nat /\ n \in Nat
    <3>1. ids[m] \in Events /\ ids[n] \in Events /\ m \in Nat /\ n \in Nat
      BY <1>1
    <3> QED
      BY <1>2, <3>1
  <2>2. ids[m] + (n - m) <= ids[n]
    BY <1>1, <1>3, <2>1
  <2> QED
    BY <1>3, <2>1, <2>2
<1>4. ASSUME NEW m \in DOMAIN items, NEW n \in DOMAIN items, m < n PROVE items[m] # items[n]
  <2>1. items[m] \in Nat /\ items[n] \in Nat /\ items[m] > items[n]
    <3>1. items[m] \in Events /\ items[n] \in Events
      BY <1>1
    <3> QED
      BY <1>1, <1>2, <1>4, <3>1
  <2> QED
    BY <2>1
<1>5. ASSUME NEW n \in 2..Len(items) PROVE Ledger[items[n - 1]] >= Ledger[items[n]]
  <2>1. n \in DOMAIN items /\ n - 1 \in DOMAIN items /\ n - 1 < n
    BY <1>1
  <2>2. items[n] \in Events /\ items[n - 1] \in Events /\ items[n - 1] > items[n]
    BY <1>1, <2>1
  <2>3. items[n] <= items[n - 1]
    <3>1. items[n] \in Nat /\ items[n - 1] \in Nat
      BY <1>2, <2>2
    <3> QED
      BY <2>2, <3>1
  <2>4. Ledger[items[n]] <= Ledger[items[n - 1]]
        /\ Ledger[items[n]] \in Nat /\ Ledger[items[n - 1]] \in Nat
    BY <2>2, <2>3, LedgersInOrder
  <2> QED
    BY <2>4
<1>6. Cardinality(ToSet(ids)) = Len(ids) /\ Cardinality(ToSet(items)) = Len(items)
  BY <1>1, <1>3, <1>4, DistinctCount
<1> QED
  BY <1>5, <1>6 DEF ids, items

LEMMA CopiesOK ==
  ASSUME FeedsInv
  PROVE  \A s \in Copies : FeedsOK(s)
BY DEF FeedsInv, StoredOK, Copies

\* No copy of the state lists an event twice, and both lists are newest first,
\* whatever the node sends again and whenever the process restarts.
THEOREM IndexedOnceAlways == IndexerSpec /\ []PolledInTime => []IndexedOnce
<1>1. FeedsInv => IndexedOnce
  <2> SUFFICES ASSUME FeedsInv, NEW s \in Copies, NEW feed \in {s.activity, s.raw}
               PROVE  /\ Cardinality(ToSet(feed.ids)) = Len(feed.ids)
                      /\ Cardinality(ToSet(feed.items)) = Len(feed.items)
                      /\ \A n \in 2..Len(feed.items) :
                           Ledger[feed.items[n - 1]] >= Ledger[feed.items[n]]
    BY DEF IndexedOnce
  <2>1. \E kinds, c : FeedOK(feed, kinds, c)
    BY CopiesOK DEF FeedsOK
  <2> QED
    BY <2>1, FeedListsOnce
<1> QED
  BY <1>1, FeedsInvariant, PTL

\* Between the start ledger and its cursor, no copy of the state has a hole.
THEOREM NothingSkippedAlways == IndexerSpec /\ []PolledInTime => []NothingSkipped
<1>1. FeedsInv => NothingSkipped
  <2> SUFFICES ASSUME FeedsInv, NEW s \in Copies, s.cursor # None,
                      NEW e \in 1..s.cursor, Ledger[e] >= StartLedger
               PROVE  Indexed(s.raw, e)
    BY DEF NothingSkipped
  <2>1. FeedsOK(s) /\ Position(s) = s.cursor
    BY CopiesOK DEF Position
  <2>2. s.cursor \in Nat /\ s.cursor <= Len(Ledger)
    BY <2>1 DEF FeedsOK, IsState
  <2>3. e \in Events /\ e <= s.cursor
    BY <2>2, EventsAreNumbers
  <2> QED
    BY <2>1, <2>3 DEF FeedsOK, FeedOK
<1> QED
  BY <1>1, FeedsInvariant, PTL

\* A poller that reports itself ready has taken in all but the admitted lag.
THEOREM ReadyIsCaughtUp == IndexerSpec /\ []PolledInTime => []ReadyMeansCaughtUp
<1>1. FeedsInv => ReadyMeansCaughtUp
  <2> SUFFICES ASSUME FeedsInv, Ready, NEW e \in Events,
                      Ledger[e] \in StartLedger..(health.latest - MaxReadyLag - 1)
               PROVE  Indexed(state.raw, e)
    BY DEF ReadyMeansCaughtUp
  <2>1. /\ health.last \in Nat /\ health.latest \in Nat /\ MaxReadyLag \in Nat
        /\ StartLedger \in Nat
        /\ health.latest - health.last <= MaxReadyLag
        /\ \A f \in Events : Ledger[f] < health.last => f <= Position(state)
    BY IndexerAssumption DEF Ready, FeedsInv, HealthOK
  <2>2. Ledger[e] \in Nat /\ Ledger[e] >= StartLedger
        /\ Ledger[e] <= health.latest - MaxReadyLag - 1
    BY <2>1, LedgerOfEvent
  <2>3. Ledger[e] < health.last
    BY <2>1, <2>2
  <2>4. e <= Position(state)
    BY <2>1, <2>3
  <2> QED
    BY <2>2, <2>4 DEF FeedsInv, StoredOK, FeedsOK, FeedOK
<1> QED
  BY <1>1, FeedsInvariant, PTL
-----------------------------------------------------------------------------
(* The stream.  What a page c has received and what is under way to it.     *)

Heard(c) == c.seen \cup ToSet(c.flight)

\* The first event a page has received or will receive.
Start(c) == IF c.first # None THEN c.first
            ELSE IF c.flight # <<>> THEN c.flight[1] ELSE None

ClientOK(c) ==
  /\ c = [on |-> c.on, flight |-> c.flight, first |-> c.first, last |-> c.last,
          seen |-> c.seen]
  /\ c.flight \in Seq(Events) /\ c.seen \subseteq Events
  /\ c.first \in c.seen \/ (c.first = None /\ c.seen = {})
  /\ c.last \in c.seen \/ (c.last = None /\ c.seen = {})
  /\ \A e \in Heard(c) : Ledger[e] >= StartLedger
  /\ c.on \/ c.flight = <<>>

GapFree(c) ==
  \A late \in c.seen : \A e \in Activity : c.first < e /\ e < late => e \in c.seen

\* Before an event arrives, all that lie between it and the first have arrived.
ComesInOrder(c) ==
  \A n \in DOMAIN c.flight : \A e \in Activity :
    Start(c) < e /\ e < c.flight[n] =>
      e \in c.seen \/ \E m \in DOMAIN c.flight : m < n /\ c.flight[m] = e

\* What is streamed next follows on what the page has heard of.
ReachesTo(c, position) ==
  c.on /\ Start(c) # None =>
    \A e \in Activity : Start(c) < e /\ e <= position => e \in Heard(c)

StreamOK(c, position) ==
  ClientOK(c) /\ GapFree(c) /\ ComesInOrder(c) /\ ReachesTo(c, position)

StreamInv == StreamOK(client, Position(state)) /\ (process = "down" => ~client.on)

\* A page that connects again names an event that is still listed, or one that
\* the indexer, restarted from an older state, has yet to come to.
ListedOnReturn ==
  [][Connect => \/ client.last = None
                \/ client.last \in ToSet(state.activity.items)
                \/ Position(state) < client.last]_indexer_vars

LEMMA NoneIsNoEvent == Activity \subseteq Events /\ Events \subseteq Nat /\ None \notin Events
BY EventsAreNumbers, IndexerAssumption

\* Any set of numbers can be put in order.
Ascends(s, D) ==
  s \in [1..Cardinality(D) -> D] /\ \A m, n \in DOMAIN s : m < n => s[m] < s[n]

Orderable(n) == \A D : D \subseteq 1..n => \E s : Ascends(s, D)

LEMMA OrderExists == \A n \in Nat : Orderable(n)
<1> DEFINE Bad == {n \in Nat : ~Orderable(n)}
<1> SUFFICES ASSUME Bad # {} PROVE FALSE
  OBVIOUS
<1>1. PICK n \in Bad : \A m \in Bad : n <= m
  <2>1. Bad \in SUBSET Nat
    OBVIOUS
  <2> HIDE DEF Bad
  <2> QED
    BY <2>1, LeastOf
<1>2. n \in Nat /\ ~Orderable(n) /\ \A m \in Nat : m < n => Orderable(m)
  BY <1>1
<1> HIDE DEF Bad
<1>3. PICK D : D \subseteq 1..n /\ ~ \E s : Ascends(s, D)
  BY <1>2 DEF Orderable
<1>4. IsFiniteSet(D)
  <2>1. IsFiniteSet(1..n)
    BY <1>2, FS_Interval
  <2> QED
    BY <1>3, <2>1, FS_Subset
<1>5. CASE n = 0
  <2>1. 1..0 = {}
    OBVIOUS
  <2>2. D = {} /\ Cardinality(D) = 0
    BY <1>3, <1>5, <2>1, FS_EmptySet
  <2>3. Ascends([m \in 1..0 |-> 0], D)
    BY <2>1, <2>2 DEF Ascends
  <2> QED
    BY <1>3, <2>3
<1>6. CASE n # 0 /\ n \notin D
  <2>1. D \subseteq 1..(n - 1) /\ n - 1 \in Nat /\ n - 1 < n
    BY <1>2, <1>3, <1>6
  <2> QED
    BY <1>2, <1>3, <2>1 DEF Orderable
<1>7. CASE n # 0 /\ n \in D
  <2> DEFINE E == D \ {n}
  <2>1. E \subseteq 1..(n - 1) /\ n - 1 \in Nat /\ n - 1 < n
    BY <1>2, <1>3, <1>7
  <2>2. PICK s : Ascends(s, E)
    BY <1>2, <2>1 DEF Orderable
  <2>3. Cardinality(D) = Cardinality(E) + 1 /\ Cardinality(E) \in Nat
    <3>1. Cardinality(E) = Cardinality(D) - 1 /\ IsFiniteSet(E)
      BY <1>4, <1>7, FS_RemoveElement
    <3> QED
      BY <1>4, <3>1, FS_CardinalityType
  <2>4. E \subseteq D /\ \A e \in E : e \in Nat /\ e < n
    BY <1>2, <2>1
  <2> DEFINE k == Cardinality(D)
             t == [m \in 1..k |-> IF m = k THEN n ELSE s[m]]
  <2>5. s \in [1..(k - 1) -> E] /\ \A m, j \in 1..(k - 1) : m < j => s[m] < s[j]
    <3>1. Cardinality(E) = k - 1
      BY <2>3
    <3>2. s \in [1..(k - 1) -> E] /\ \A m, j \in DOMAIN s : m < j => s[m] < s[j]
      BY <2>2, <3>1 DEF Ascends
    <3> HIDE DEF k, E
    <3> QED
      BY <3>2
  <2> HIDE DEF E
  <2>6. k \in Nat
    BY <2>3
  <2> HIDE DEF k
  <2>7. \A m \in 1..k : m # k => m \in 1..(k - 1)
    BY <2>6
  <2>8. ASSUME NEW m \in 1..k PROVE t[m] \in D
    BY <1>7, <2>4, <2>5, <2>7
  <2>9. ASSUME NEW m \in 1..k, NEW j \in 1..k, m < j PROVE t[m] < t[j]
    <3>1. m # k /\ m \in 1..(k - 1) /\ t[m] = s[m] /\ s[m] \in E
      BY <2>5, <2>6, <2>7, <2>9
    <3>2. CASE j = k
      BY <2>4, <3>1, <3>2
    <3>3. CASE j # k
      BY <2>5, <2>7, <2>9, <3>1, <3>3
    <3> QED
      BY <3>2, <3>3
  <2>10. t \in [1..k -> D] /\ DOMAIN t = 1..k
    BY <2>8
  <2> HIDE DEF t
  <2>11. Ascends(t, D)
    BY <2>9, <2>10 DEF Ascends, k
  <2> QED
    BY <1>3, <2>11
<1> QED
  BY <1>5, <1>6, <1>7

LEMMA InOrderOf ==
  ASSUME NEW n \in Nat, NEW S, S \subseteq 1..n
  PROVE  /\ InOrder(S) \in Seq(S) /\ ToSet(InOrder(S)) = S
         /\ \A i, j \in DOMAIN InOrder(S) : i < j => InOrder(S)[i] < InOrder(S)[j]
<1> DEFINE s == InOrder(S)
           k == Cardinality(S)
<1>1. s \in [1..k -> S] /\ \A i, j \in DOMAIN s : i < j => s[i] < s[j]
  <2>1. \E t \in [1..k -> S] : \A i, j \in DOMAIN t : i < j => t[i] < t[j]
    BY OrderExists DEF Ascends, Orderable
  <2> QED
    BY <2>1 DEF InOrder
<1> HIDE DEF s
<1>2. IsFiniteSet(S) /\ k \in Nat
  <2>1. IsFiniteSet(1..n)
    BY FS_Interval
  <2>2. IsFiniteSet(S)
    BY <2>1, FS_Subset
  <2> QED
    BY <2>2, FS_CardinalityType
<1>3. IsFiniteSet(1..k) /\ Cardinality(1..k) = k
  BY <1>2, FS_Interval
<1>4. s \in Injection(1..k, S)
  <2> SUFFICES ASSUME NEW i \in 1..k, NEW j \in 1..k, s[i] = s[j], i # j PROVE FALSE
    BY <1>1 DEF Injection, IsInjective
  <2>0. S \subseteq Nat
    OBVIOUS
  <2>1. s[i] \in Nat /\ s[j] \in Nat
    BY <1>1, <2>0
  <2>2. i < j \/ j < i
    BY <1>2
  <2> QED
    BY <1>1, <2>1, <2>2
<1>5. s \in Surjection(1..k, S)
  BY <1>2, <1>3, <1>4, FS_Injection
<1>6. ToSet(s) = S
  BY <1>1, <1>5 DEF Surjection, ToSet
<1>7. s \in Seq(S)
  BY <1>1, <1>2
<1>8. \A i, j \in DOMAIN s : i < j => s[i] < s[j]
  BY <1>1
<1> QED
  BY <1>6, <1>7, <1>8 DEF s

LEMMA NoClientOK == ASSUME NEW position PROVE StreamOK(NoClient, position)
<1>1. NoClient = [on |-> FALSE, flight |-> <<>>, first |-> None, last |-> None, seen |-> {}]
  BY DEF NoClient
<1>2. Heard(NoClient) = {} /\ DOMAIN NoClient.flight = {}
  BY <1>1 DEF Heard, ToSet
<1>3. /\ NoClient.flight = <<>> /\ NoClient.seen = {}
      /\ NoClient.first = None /\ NoClient.last = None /\ ~NoClient.on
  BY <1>1
<1>4. NoClient = [on |-> NoClient.on, flight |-> NoClient.flight, first |-> NoClient.first,
                  last |-> NoClient.last, seen |-> NoClient.seen]
  BY <1>1
<1>5. ClientOK(NoClient)
  <2>1. <<>> \in Seq(Events)
    OBVIOUS
  <2> QED
    BY <1>2, <1>3, <1>4, <2>1 DEF ClientOK
<1> QED
  BY <1>2, <1>3, <1>5 DEF StreamOK, GapFree, ComesInOrder, ReachesTo

\* While a page is not connected, it does not matter where the indexer is.
LEMMA AwayAnywhere ==
  ASSUME NEW c, NEW position, NEW other, StreamOK(c, position), ~c.on
  PROVE  StreamOK(c, other)
BY DEF StreamOK, ReachesTo

LEMMA Leaves ==
  ASSUME NEW c, NEW position, NEW other, StreamOK(c, position),
         NEW d, d = [c EXCEPT !.on = FALSE, !.flight = <<>>]
  PROVE  StreamOK(d, other)
<1>1. d = [on |-> FALSE, flight |-> <<>>, first |-> c.first, last |-> c.last, seen |-> c.seen]
  BY DEF StreamOK, ClientOK
<1>2. Heard(d) \subseteq Heard(c) /\ DOMAIN d.flight = {} /\ d.flight \in Seq(Events)
  BY <1>1 DEF Heard, ToSet
<1>3. ClientOK(d)
  BY <1>1, <1>2 DEF StreamOK, ClientOK
<1>4. GapFree(d)
  BY <1>1 DEF StreamOK, GapFree
<1> QED
  BY <1>1, <1>2, <1>3, <1>4 DEF StreamOK, ComesInOrder, ReachesTo

\* The page receives the event at the head of what is under way to it.
LEMMA Receives ==
  ASSUME NEW c, NEW position, StreamOK(c, position), c.on, c.flight # <<>>,
         NEW d, d = [on |-> c.on, flight |-> Tail(c.flight), first |-> Start(c),
                     last |-> Head(c.flight), seen |-> c.seen \cup {Head(c.flight)}]
  PROVE  StreamOK(d, position)
<1> DEFINE e == c.flight[1]
<1>1. /\ c = [on |-> c.on, flight |-> c.flight, first |-> c.first, last |-> c.last,
              seen |-> c.seen]
      /\ c.flight \in Seq(Events) /\ c.seen \subseteq Events
      /\ c.first \in c.seen \/ (c.first = None /\ c.seen = {})
      /\ \A f \in Heard(c) : Ledger[f] >= StartLedger
  BY DEF StreamOK, ClientOK
<1>2. /\ Head(c.flight) = e /\ e \in Events
      /\ Len(c.flight) \in Nat \ {0} /\ DOMAIN c.flight = 1..Len(c.flight)
      /\ Tail(c.flight) \in Seq(Events)
      /\ DOMAIN Tail(c.flight) = 1..(Len(c.flight) - 1)
      /\ \A n \in 1..(Len(c.flight) - 1) : Tail(c.flight)[n] = c.flight[n + 1]
  BY <1>1
<1> HIDE DEF e
<1>3. /\ d.on = c.on /\ d.flight = Tail(c.flight) /\ d.first = Start(c)
      /\ d.last = e /\ d.seen = c.seen \cup {e}
      /\ d = [on |-> d.on, flight |-> d.flight, first |-> d.first, last |-> d.last,
              seen |-> d.seen]
  BY <1>2
<1>4. Start(c) \in Events /\ Start(c) \in c.seen \cup {e} /\ Start(c) # None
  BY <1>1, <1>2, NoneIsNoEvent DEF Start, e
<1>5. Start(d) = Start(c)
  BY <1>3, <1>4 DEF Start
<1>6. Heard(d) = Heard(c)
  <2>1. ToSet(c.flight) = ToSet(Tail(c.flight)) \cup {e}
    <3>1. ASSUME NEW f \in ToSet(c.flight) PROVE f \in ToSet(Tail(c.flight)) \cup {e}
      <4>1. PICK n \in DOMAIN c.flight : c.flight[n] = f
        BY <3>1 DEF ToSet
      <4>2. CASE n = 1
        BY <4>1, <4>2 DEF e
      <4>3. CASE n # 1
        <5>1. n - 1 \in DOMAIN Tail(c.flight) /\ Tail(c.flight)[n - 1] = c.flight[n]
          BY <1>2, <4>3
        <5> QED
          BY <4>1, <5>1 DEF ToSet
      <4> QED
        BY <4>2, <4>3
    <3>2. ASSUME NEW f \in ToSet(Tail(c.flight)) PROVE f \in ToSet(c.flight)
      <4>1. PICK n \in DOMAIN Tail(c.flight) : Tail(c.flight)[n] = f
        BY <3>2 DEF ToSet
      <4>2. n + 1 \in DOMAIN c.flight /\ c.flight[n + 1] = f
        BY <1>2, <4>1
      <4> QED
        BY <4>2 DEF ToSet
    <3>3. e \in ToSet(c.flight)
      BY <1>2 DEF ToSet, e
    <3> QED
      BY <3>1, <3>2, <3>3
  <2> QED
    BY <1>3, <2>1 DEF Heard
<1>7. ClientOK(d)
  BY <1>1, <1>2, <1>3, <1>4, <1>6 DEF StreamOK, ClientOK
<1>8. GapFree(d)
  <2> SUFFICES ASSUME NEW late \in d.seen, NEW f \in Activity, d.first < f, f < late
               PROVE  f \in d.seen
    BY DEF GapFree
  <2>1. CASE late = e
    <3>1. 1 \in DOMAIN c.flight /\ c.flight[1] = late /\ Start(c) < f
      BY <1>2, <1>3, <2>1 DEF e
    <3>2. f \in c.seen \/ \E m \in DOMAIN c.flight : m < 1 /\ c.flight[m] = f
      BY <3>1 DEF StreamOK, ComesInOrder
    <3>3. ~ \E m \in DOMAIN c.flight : m < 1 /\ c.flight[m] = f
      BY <1>2
    <3> QED
      BY <1>3, <3>2, <3>3
  <2>2. CASE late # e
    <3>0. late \in c.seen
      BY <1>3, <2>2
    <3>1. late \in c.seen /\ c.first # None
      BY <1>1, <3>0, NoneIsNoEvent
    <3>2. c.first = d.first
      BY <1>3, <3>1 DEF Start
    <3> QED
      BY <1>3, <3>1, <3>2 DEF StreamOK, GapFree
  <2> QED
    BY <2>1, <2>2
<1>9. ComesInOrder(d)
  <2> SUFFICES ASSUME NEW n \in DOMAIN d.flight, NEW f \in Activity,
                      Start(d) < f, f < d.flight[n]
               PROVE  f \in d.seen \/ \E m \in DOMAIN d.flight : m < n /\ d.flight[m] = f
    BY DEF ComesInOrder
  <2>1. n + 1 \in DOMAIN c.flight /\ d.flight[n] = c.flight[n + 1] /\ n \in Nat
        /\ DOMAIN d.flight = 1..(Len(c.flight) - 1)
    BY <1>2, <1>3
  <2>2. f \in c.seen \/ \E m \in DOMAIN c.flight : m < n + 1 /\ c.flight[m] = f
    BY <1>5, <2>1 DEF StreamOK, ComesInOrder
  <2>3. ASSUME NEW m \in DOMAIN c.flight, m < n + 1, c.flight[m] = f
        PROVE  f \in d.seen \/ \E k \in DOMAIN d.flight : k < n /\ d.flight[k] = f
    <3>1. CASE m = 1
      BY <1>3, <2>3, <3>1 DEF e
    <3>2. CASE m # 1
      <4>0. m \in Nat /\ m - 1 \in 1..(Len(c.flight) - 1) /\ m - 1 < n
        BY <1>2, <2>1, <2>3, <3>2
      <4>1. m - 1 \in DOMAIN d.flight /\ m - 1 < n /\ d.flight[m - 1] = f
        BY <1>2, <1>3, <2>1, <2>3, <4>0
      <4> QED
        BY <4>1
    <3> QED
      BY <3>1, <3>2
  <2> QED
    BY <1>3, <2>2, <2>3
<1>10. ReachesTo(d, position)
  BY <1>3, <1>4, <1>5, <1>6 DEF StreamOK, ReachesTo
<1> QED
  BY <1>7, <1>8, <1>9, <1>10 DEF StreamOK

\* The indexer streams what follows on what the page has heard of.
LEMMA Streams ==
  ASSUME NEW c, NEW position \in Nat, NEW next \in Nat, StreamOK(c, position), c.on,
         NEW s \in Seq(Events),
         \A m, n \in DOMAIN s : m < n => s[m] < s[n],
         \A n \in DOMAIN s : position < s[n] /\ s[n] <= next /\ Ledger[s[n]] >= StartLedger,
         \A e \in Activity : position < e /\ e <= next /\ Ledger[e] >= StartLedger
                               => e \in ToSet(s),
         NEW d, d = [on |-> c.on, flight |-> c.flight \o s, first |-> c.first,
                     last |-> c.last, seen |-> c.seen]
  PROVE  StreamOK(d, next)
<1> DEFINE l == Len(c.flight)
           k == Len(s)
<1>0. Activity \subseteq Events /\ Events \subseteq Nat /\ None \notin Events
      /\ StartLedger \in Nat
  BY NoneIsNoEvent, IndexerAssumption
<1>1. /\ d.on = c.on /\ d.flight = c.flight \o s /\ d.first = c.first
      /\ d.last = c.last /\ d.seen = c.seen
      /\ d = [on |-> d.on, flight |-> d.flight, first |-> d.first, last |-> d.last,
              seen |-> d.seen]
  OBVIOUS
<1>2. /\ c.flight \in Seq(Events) /\ c.seen \subseteq Events
      /\ c.first \in c.seen \/ (c.first = None /\ c.seen = {})
      /\ c.last \in c.seen \/ (c.last = None /\ c.seen = {})
      /\ \A f \in Heard(c) : Ledger[f] >= StartLedger
  BY DEF StreamOK, ClientOK
<1>3. /\ l \in Nat /\ k \in Nat /\ DOMAIN c.flight = 1..l /\ DOMAIN s = 1..k
      /\ d.flight \in Seq(Events) /\ DOMAIN d.flight = 1..(l + k)
      /\ \A n \in 1..l : d.flight[n] = c.flight[n]
      /\ \A n \in 1..k : l + n \in DOMAIN d.flight /\ d.flight[l + n] = s[n]
      /\ \A n \in DOMAIN d.flight :
           n \in Nat /\ (n \in 1..l \/ (n > l /\ n - l \in 1..k /\ d.flight[n] = s[n - l]))
  <2>1. d.flight \in Seq(Events)
    BY <1>1, <1>2
  <2>2. l \in Nat /\ k \in Nat /\ DOMAIN c.flight = 1..l /\ DOMAIN s = 1..k
        /\ DOMAIN d.flight = 1..(l + k)
    BY <1>1, <1>2
  <2>3. /\ \A n \in 1..l : d.flight[n] = c.flight[n]
        /\ \A n \in 1..k : d.flight[l + n] = s[n]
    BY <1>1, <1>2
  <2> HIDE DEF l, k
  <2>4. \A n \in 1..k : l + n \in 1..(l + k)
    BY ONLY <2>2
  <2>5. \A n \in 1..(l + k) : n \in Nat /\ (n \in 1..l \/ (n > l /\ n - l \in 1..k /\ l + (n - l) = n))
    BY ONLY <2>2
  <2>6. \A n \in DOMAIN d.flight :
           n \in Nat /\ (n \in 1..l \/ (n > l /\ n - l \in 1..k /\ d.flight[n] = s[n - l]))
    BY ONLY <2>2, <2>3, <2>5
  <2> QED
    BY ONLY <2>1, <2>2, <2>3, <2>4, <2>6
<1> HIDE DEF l, k
<1>4. /\ \A n \in 1..l : c.flight[n] \in ToSet(c.flight) /\ c.flight[n] \in Events
      /\ \A n \in 1..k : s[n] \in ToSet(s) /\ s[n] \in Events
  <2>1. /\ \A n \in DOMAIN c.flight : c.flight[n] \in Events
        /\ \A n \in DOMAIN s : s[n] \in Events
    BY <1>2
  <2>2. DOMAIN c.flight = 1..l /\ DOMAIN s = 1..k
    BY <1>3
  <2> QED
    BY ONLY <2>1, <2>2 DEF ToSet
<1>5. Heard(d) = Heard(c) \cup ToSet(s)
  <2>1. ASSUME NEW f \in ToSet(d.flight) PROVE f \in ToSet(c.flight) \cup ToSet(s)
    <3>1. PICK n \in DOMAIN d.flight : d.flight[n] = f
      BY <2>1 DEF ToSet
    <3> QED
      BY <1>3, <1>4, <3>1
  <2>2. ASSUME NEW f \in ToSet(c.flight) PROVE f \in ToSet(d.flight)
    <3>1. PICK n \in 1..l : c.flight[n] = f
      BY <1>3, <2>2 DEF ToSet
    <3>2. n \in DOMAIN d.flight /\ d.flight[n] = f
      BY <1>3, <3>1
    <3> QED
      BY <3>2 DEF ToSet
  <2>3. ASSUME NEW f \in ToSet(s) PROVE f \in ToSet(d.flight)
    <3>1. PICK n \in 1..k : s[n] = f
      BY <1>3, <2>3 DEF ToSet
    <3>2. l + n \in DOMAIN d.flight /\ d.flight[l + n] = f
      BY <1>3, <3>1
    <3> QED
      BY <3>2 DEF ToSet
  <2> QED
    BY <1>1, <2>1, <2>2, <2>3 DEF Heard
<1>6. \A f \in ToSet(s) : position < f /\ f <= next /\ Ledger[f] >= StartLedger /\ f \in Events
  <2> SUFFICES ASSUME NEW f \in ToSet(s)
               PROVE  position < f /\ f <= next /\ Ledger[f] >= StartLedger /\ f \in Events
    OBVIOUS
  <2>1. PICK n \in DOMAIN s : s[n] = f
    BY DEF ToSet
  <2>2. s[n] \in Events
    OBVIOUS
  <2> QED
    BY <2>1, <2>2
<1>7. Heard(c) \subseteq Events /\ Heard(d) \subseteq Events
  <2>1. ToSet(c.flight) \subseteq Events
    BY <1>3, <1>4 DEF ToSet
  <2> QED
    BY <1>2, <1>5, <1>6, <2>1 DEF Heard
<1>8. ClientOK(d)
  BY <1>1, <1>2, <1>3, <1>5, <1>6 DEF ClientOK
<1>9. Start(d) = None \/ (Start(d) \in Heard(d) /\ Start(d) \in Events)
  <2>1. Start(d) = None \/ Start(d) \in Heard(d)
    <3>1. CASE d.first # None
      BY <1>1, <1>2, <3>1 DEF Start, Heard
    <3>2. CASE d.first = None /\ d.flight # <<>>
      <4>1. 1 \in DOMAIN d.flight
        BY <1>3, <3>2
      <4>2. d.flight[1] \in ToSet(d.flight)
        BY <4>1 DEF ToSet
      <4> QED
        BY <3>2, <4>2 DEF Start, Heard
    <3>3. CASE d.first = None /\ d.flight = <<>>
      BY <3>3 DEF Start
    <3> QED
      BY <3>1, <3>2, <3>3
  <2> QED
    BY <1>7, <2>1
<1>10. Start(c) # None => Start(d) = Start(c)
  <2>1. CASE c.first # None
    BY <1>1, <2>1 DEF Start
  <2>2. CASE c.first = None /\ c.flight # <<>>
    <3>1. 1 \in 1..l /\ d.flight # <<>> /\ d.flight[1] = c.flight[1]
      <4>1. l # 0
        BY <1>2, <2>2 DEF l
      <4>2. 1 \in 1..l
        BY <1>3, <4>1
      <4>3. 1 \in DOMAIN d.flight
        BY <1>3, <4>2
      <4> QED
        BY <1>3, <4>2, <4>3
    <3> QED
      BY <1>1, <2>2, <3>1 DEF Start
  <2>3. CASE c.first = None /\ c.flight = <<>>
    BY <2>3 DEF Start
  <2> QED
    BY <2>1, <2>2, <2>3
<1>11. Start(c) = None /\ Start(d) # None => Start(d) \in ToSet(s)
  <2> SUFFICES ASSUME Start(c) = None, Start(d) # None PROVE Start(d) \in ToSet(s)
    OBVIOUS
  <2>1. c.first = None /\ l = 0
    <3>1. c.first = None
      BY DEF Start
    <3>2. ASSUME l # 0 PROVE FALSE
      <4>1. 1 \in 1..l /\ c.flight # <<>>
        BY <1>3, <3>2 DEF l
      <4> QED
        BY <1>0, <1>4, <3>1, <4>1 DEF Start
    <3> QED
      BY <3>1, <3>2
  <2>2. d.flight # <<>> /\ Start(d) = d.flight[1]
    BY <1>1, <2>1 DEF Start
  <2>3. 1 \in 1..k /\ d.flight[1] = s[1]
    BY <1>3, <2>1, <2>2
  <2> QED
    BY <1>4, <2>2, <2>3
<1>12. ASSUME NEW e \in Activity, Start(d) # None, Start(d) < e, e <= next
       PROVE  e \in Heard(c) \/ e \in ToSet(s)
  <2>1. e \in Nat /\ e \in Events /\ Start(d) \in Nat /\ Start(d) \in Events
        /\ Start(d) \in Heard(d)
    BY <1>0, <1>9, <1>12
  <2>2. CASE e <= position
    <3>1. Start(c) # None
      <4> SUFFICES ASSUME Start(c) = None PROVE FALSE
        OBVIOUS
      <4>1. position < Start(d)
        BY <1>6, <1>11, <1>12
      <4> QED
        BY <1>12, <2>1, <2>2, <4>1
    <3> QED
      BY <1>10, <1>12, <2>2, <3>1 DEF StreamOK, ReachesTo
  <2>3. CASE ~(e <= position)
    <3>1. Ledger[Start(d)] >= StartLedger /\ Ledger[Start(d)] \in Nat /\ Ledger[e] \in Nat
      BY <1>2, <1>5, <1>6, <2>1, LedgerOfEvent
    <3>2. Ledger[Start(d)] <= Ledger[e]
      BY <1>12, <2>1, LedgersInOrder
    <3>3. Ledger[e] >= StartLedger
      BY <1>0, <3>1, <3>2
    <3> QED
      BY <1>12, <2>1, <2>3, <3>3
  <2> QED
    BY <2>2, <2>3
<1>13. ReachesTo(d, next)
  BY <1>5, <1>12 DEF ReachesTo
<1>14. ComesInOrder(d)
  <2> SUFFICES ASSUME NEW n \in DOMAIN d.flight, NEW e \in Activity,
                      Start(d) < e, e < d.flight[n]
               PROVE  e \in d.seen \/ \E m \in DOMAIN d.flight : m < n /\ d.flight[m] = e
    BY DEF ComesInOrder
  <2>1. CASE n \in 1..l
    <3>1. Start(c) # None
      <4>1. c.flight # <<>> /\ c.flight[1] # None
        <5>1. 1 \in 1..l
          BY <1>3, <2>1
        <5> QED
          BY <1>0, <1>3, <1>4, <5>1
      <4> QED
        BY <4>1 DEF Start
    <3>2. n \in DOMAIN c.flight /\ d.flight[n] = c.flight[n] /\ Start(d) = Start(c)
      BY <1>3, <1>10, <2>1, <3>1
    <3>3. e \in c.seen \/ \E m \in DOMAIN c.flight : m < n /\ c.flight[m] = e
      BY <3>2 DEF StreamOK, ComesInOrder
    <3> QED
      BY <1>1, <1>3, <3>3
  <2>2. CASE n \notin 1..l
    <3>1. n - l \in 1..k /\ d.flight[n] = s[n - l] /\ n \in Nat
      BY <1>3, <2>2
    <3>2. s[n - l] \in Nat /\ s[n - l] <= next /\ e \in Nat /\ e <= next
      <4>1. s[n - l] \in Nat /\ s[n - l] <= next /\ e \in Nat
        BY <1>0, <1>4, <1>6, <3>1
      <4> QED
        BY <3>1, <4>1
    <3>3. Start(d) # None
      <4>1. d.flight # <<>> /\ d.flight[1] # None
        <5>1. 1 \in DOMAIN d.flight
          BY <1>3
        <5>2. d.flight[1] \in Events
          <6>1. d.flight \in Seq(Events)
            BY <1>3
          <6> QED
            BY ONLY <5>1, <6>1
        <5> QED
          BY <1>0, <5>1, <5>2
      <4> QED
        BY <4>1 DEF Start
    <3>4. e \in c.seen \/ e \in ToSet(c.flight) \/ e \in ToSet(s)
      BY <1>12, <3>2, <3>3 DEF Heard
    <3>5. ASSUME e \in ToSet(c.flight)
          PROVE  \E m \in DOMAIN d.flight : m < n /\ d.flight[m] = e
      <4>1. PICK m \in 1..l : c.flight[m] = e
        BY <1>3, <3>5 DEF ToSet
      <4>2. m \in DOMAIN d.flight /\ m < n /\ d.flight[m] = e
        BY <1>3, <3>1, <4>1
      <4> QED
        BY <4>2
    <3>6. ASSUME e \in ToSet(s)
          PROVE  \E m \in DOMAIN d.flight : m < n /\ d.flight[m] = e
      <4>1. PICK j \in 1..k : s[j] = e
        BY <1>3, <3>6 DEF ToSet
      <4>2. j < n - l
        <5>0. n - l \in DOMAIN s /\ j \in DOMAIN s
          BY <1>3, <3>1
        <5>1. ~(n - l < j) /\ n - l # j
          BY <3>1, <3>2, <4>1, <5>0
        <5>2. j \in Nat /\ n - l \in Nat
          BY <1>3, <3>1
        <5> QED
          BY <5>1, <5>2
      <4>3. l + j \in DOMAIN d.flight /\ d.flight[l + j] = e
        BY <1>3, <4>1
      <4>4. l + j < n
        BY <1>3, <3>1, <4>1, <4>2
      <4> QED
        BY <4>3, <4>4
    <3> QED
      BY <1>1, <3>4, <3>5, <3>6
  <2> QED
    BY <2>1, <2>2
<1>15. GapFree(d)
  BY <1>1 DEF StreamOK, GapFree
<1> QED
  BY <1>8, <1>13, <1>14, <1>15 DEF StreamOK

\* A page that comes back has received all up to the last event it names.
LEMMA ComesBack ==
  ASSUME NEW c, NEW position, NEW reach \in Nat, StreamOK(c, position), ~c.on,
         c.last # None => reach <= c.last,
         NEW d, d = [on |-> TRUE, flight |-> <<>>, first |-> c.first, last |-> c.last,
                     seen |-> c.seen]
  PROVE  StreamOK(d, reach)
<1>0. Activity \subseteq Events /\ Events \subseteq Nat /\ None \notin Events
  BY NoneIsNoEvent
<1>1. /\ d.on /\ d.flight = <<>> /\ d.first = c.first /\ d.last = c.last /\ d.seen = c.seen
      /\ d = [on |-> d.on, flight |-> d.flight, first |-> d.first, last |-> d.last,
              seen |-> d.seen]
  OBVIOUS
<1>2. /\ c.seen \subseteq Events
      /\ c.first \in c.seen \/ (c.first = None /\ c.seen = {})
      /\ c.last \in c.seen \/ (c.last = None /\ c.seen = {})
      /\ \A f \in Heard(c) : Ledger[f] >= StartLedger
  BY DEF StreamOK, ClientOK
<1>3. DOMAIN d.flight = {} /\ d.flight \in Seq(Events) /\ Heard(d) = c.seen
      /\ Heard(d) \subseteq Heard(c)
  BY <1>1 DEF Heard, ToSet
<1>4. ClientOK(d)
  BY <1>1, <1>2, <1>3 DEF ClientOK
<1>5. GapFree(d) /\ ComesInOrder(d)
  BY <1>1, <1>3 DEF StreamOK, GapFree, ComesInOrder
<1>6. ReachesTo(d, reach)
  <2> SUFFICES ASSUME Start(d) # None, NEW e \in Activity, Start(d) < e, e <= reach
               PROVE  e \in Heard(d)
    BY DEF ReachesTo
  <2>1. c.first # None /\ Start(d) = c.first
    BY <1>1 DEF Start
  <2>2. c.last \in c.seen /\ c.last # None
    BY <1>0, <1>2, <2>1
  <2>3. e \in Nat /\ c.last \in Nat /\ e <= c.last
    <3>1. e \in Nat /\ c.last \in Nat /\ reach <= c.last
      BY <1>0, <1>2, <2>2
    <3> QED
      BY <3>1
  <2>4. CASE e = c.last
    BY <1>3, <2>2, <2>4
  <2>5. CASE e # c.last
    <3>1. e < c.last
      BY <2>3, <2>5
    <3> QED
      BY <1>3, <2>1, <2>2, <3>1 DEF StreamOK, GapFree
  <2> QED
    BY <2>4, <2>5
<1> QED
  BY <1>4, <1>5, <1>6 DEF StreamOK

\* What the server sends a page that comes back: all that follows, in order.
LEMMA SentOnReturn ==
  ASSUME NEW position \in Nat, FeedOK(state.activity, Activity, position),
         NEW last \in ToSet(state.activity.items), Ledger[last] >= StartLedger
  PROVE  LET s == Reverse(Newer(last)) IN
         /\ s \in Seq(Events)
         /\ \A m, n \in DOMAIN s : m < n => s[m] < s[n]
         /\ \A n \in DOMAIN s :
              last < s[n] /\ s[n] <= position /\ Ledger[s[n]] >= StartLedger
         /\ \A e \in Activity : last < e /\ e <= position /\ Ledger[e] >= StartLedger
                                  => e \in ToSet(s)
<1> DEFINE items == state.activity.items
           at    == CHOOSE i \in 1..Len(items) : items[i] = last
           s     == Reverse(Newer(last))
<1>1. /\ items \in Seq(Events) /\ Len(items) \in Nat /\ DOMAIN items = 1..Len(items)
      /\ \A m, n \in DOMAIN items : m < n => items[m] > items[n]
      /\ \A n \in DOMAIN items : items[n] <= position
      /\ \A n \in DOMAIN items : \A e \in Activity :
           items[n] < e /\ e <= position /\ Ledger[e] >= StartLedger => e \in ToSet(items)
  BY DEF FeedOK
<1>2. at \in 1..Len(items) /\ items[at] = last
  <2>1. \E i \in 1..Len(items) : items[i] = last
    BY <1>1 DEF ToSet
  <2> QED
    BY <2>1
<1>3. Newer(last) = SubSeq(items, 1, at - 1)
  <2>1. Newer(last) = SubSeq(items, 1, Least(at - 1, Len(items)))
    BY DEF Newer, First
  <2> HIDE DEF at
  <2>2. Least(at - 1, Len(items)) = at - 1
    BY <1>1, <1>2 DEF Least
  <2> QED
    BY <2>1, <2>2
<1> HIDE DEF at, items
<1>4. Events \subseteq Nat /\ Activity \subseteq Events /\ StartLedger \in Nat
  BY NoneIsNoEvent, IndexerAssumption
<1>5. \A n \in DOMAIN items : items[n] \in Events /\ items[n] \in Nat
  <2>1. \A n \in DOMAIN items : items[n] \in Events
    BY <1>1
  <2> QED
    BY <1>4, <2>1
<1>6. at \in Nat /\ \A n \in 1..(at - 1) : at - n \in DOMAIN items /\ at - n < at
  BY <1>1, <1>2
<1>7. s = [n \in 1..(at - 1) |-> items[at - n]]
  <2> DEFINE t == SubSeq(items, 1, at - 1)
  <2>1. Len(t) = at - 1 /\ \A n \in 1..(at - 1) : t[n] = items[n]
    BY <1>1, <1>2
  <2>2. s = [n \in 1..Len(t) |-> t[(Len(t) - n) + 1]]
    BY <1>3 DEF Reverse
  <2> HIDE DEF t, s
  <2>3. \A n \in 1..(at - 1) : (at - 1) - n + 1 \in 1..(at - 1) /\ (at - 1) - n + 1 = at - n
    BY <1>6
  <2> QED
    BY <2>1, <2>2, <2>3
<1> HIDE DEF s
<1>8. DOMAIN s = 1..(at - 1) /\ \A n \in DOMAIN s : s[n] = items[at - n]
  BY <1>7
<1>9. s \in Seq(Events)
  <2>1. \A n \in 1..(at - 1) : items[at - n] \in Events
    BY <1>5, <1>6
  <2>2. at - 1 \in Nat
    BY <1>2, <1>6
  <2> QED
    BY <1>7, <2>1, <2>2
<1>10. ASSUME NEW m \in DOMAIN s, NEW n \in DOMAIN s, m < n PROVE s[m] < s[n]
  <2>1. at - m \in DOMAIN items /\ at - n \in DOMAIN items /\ at - n < at - m
    BY <1>6, <1>8, <1>10
  <2>2. items[at - n] > items[at - m]
    BY <1>1, <2>1
  <2> QED
    BY <1>5, <1>8, <2>1, <2>2
<1>11. ASSUME NEW n \in DOMAIN s
       PROVE  last < s[n] /\ s[n] <= position /\ Ledger[s[n]] >= StartLedger
  <2>1. at - n \in DOMAIN items /\ at - n < at /\ at \in DOMAIN items
    BY <1>1, <1>2, <1>6, <1>8
  <2>2. s[n] = items[at - n] /\ s[n] > last /\ s[n] <= position
    BY <1>1, <1>2, <1>8, <2>1
  <2>3. last \in Events /\ s[n] \in Events /\ last \in Nat /\ s[n] \in Nat
    BY <1>2, <1>5, <2>1, <2>2
  <2>4. Ledger[last] <= Ledger[s[n]] /\ Ledger[last] \in Nat /\ Ledger[s[n]] \in Nat
    BY <2>2, <2>3, LedgersInOrder
  <2> QED
    BY <1>4, <2>2, <2>3, <2>4
<1>12. ASSUME NEW e \in Activity, last < e, e <= position, Ledger[e] >= StartLedger
       PROVE  e \in ToSet(s)
  <2>1. e \in ToSet(items)
    BY <1>1, <1>2, <1>12
  <2>2. PICK n \in DOMAIN items : items[n] = e
    BY <2>1 DEF ToSet
  <2>3. n < at
    <3>1. ~(at < n) /\ at # n
      <4>1. at \in DOMAIN items /\ items[at] < items[n] /\ items[at] \in Nat /\ items[n] \in Nat
        BY <1>1, <1>2, <1>5, <1>12, <2>2
      <4> QED
        BY <1>1, <4>1
    <3> QED
      BY <1>1, <1>6, <3>1
  <2>4. at - n \in 1..(at - 1) /\ at - (at - n) = n
    BY <1>1, <1>6, <2>3
  <2>5. at - n \in DOMAIN s /\ s[at - n] = e
    BY <1>8, <2>2, <2>4
  <2> QED
    BY <2>5 DEF ToSet
<1> QED
  BY <1>9, <1>10, <1>11, <1>12 DEF s

\* What is streamed of a page: all that follows on the cursor, in order.
LEMMA StreamedOfPage ==
  ASSUME NEW c \in Nat, FeedOK(state.activity, Activity, c),
         NEW first \in Nat \ {0}, NEW last \in Nat,
         \A e \in Events : c < e /\ e < first => ~(Ledger[e] >= StartLedger),
         \A e \in first..last : e <= c => Ledger[e] >= StartLedger /\ c - e < Overlap,
         \A e \in first..last : Ledger[e] >= StartLedger
  PROVE  LET s == Streamed(first, last) IN
         /\ s \in Seq(Events)
         /\ \A m, n \in DOMAIN s : m < n => s[m] < s[n]
         /\ \A n \in DOMAIN s : c < s[n] /\ s[n] <= last /\ Ledger[s[n]] >= StartLedger
         /\ \A e \in Activity : c < e /\ e <= last /\ Ledger[e] >= StartLedger
                                  => e \in ToSet(s)
<1> DEFINE news == {e \in first..last : e \in Activity /\ ~Known(state.activity, e)}
           s    == Streamed(first, last)
<1>0. Activity \subseteq Events /\ Events \subseteq Nat
  BY NoneIsNoEvent
<1>1. s = InOrder(news)
  BY DEF Streamed
<1>2. \A e \in news : e \in first..last /\ e \in Activity /\ ~Known(state.activity, e)
  OBVIOUS
<1>3. ASSUME NEW e \in Activity, c < e, e <= last, Ledger[e] >= StartLedger
      PROVE  e \in news
  <2>1. e \in first..last
    BY <1>0, <1>3
  <2>2. ~Known(state.activity, e)
    <3>1. ASSUME NEW n \in DOMAIN state.activity.ids PROVE state.activity.ids[n] # e
      <4>1. state.activity.ids[n] <= c
        BY DEF FeedOK
      <4> QED
        BY <1>0, <1>3, <4>1
    <3> QED
      BY <3>1 DEF Known, ToSet
  <2> QED
    BY <2>1, <2>2
<1>4. ASSUME NEW e \in news
      PROVE  c < e /\ e <= last /\ Ledger[e] >= StartLedger
  <2>1. e \in first..last /\ e \in Activity /\ ~Known(state.activity, e) /\ e \in Nat
    BY <1>2
  <2>2. ~(e <= c)
    <3> SUFFICES ASSUME e <= c PROVE FALSE
      OBVIOUS
    <3>1. Ledger[e] >= StartLedger /\ c - e < Overlap
      BY <2>1
    <3>2. Activity \in SUBSET Events
      BY <1>0
    <3> QED
      BY <2>1, <3>1, <3>2, SentAgainIsKnown
  <2> QED
    BY <2>1, <2>2
<1>5. news \subseteq 1..last /\ news \subseteq Events
  BY <1>0
<1> HIDE DEF news, s
<1>6. /\ s \in Seq(news) /\ ToSet(s) = news
      /\ \A i, j \in DOMAIN s : i < j => s[i] < s[j]
  BY <1>1, <1>5, InOrderOf
<1>7. \A n \in DOMAIN s : s[n] \in news
  BY <1>6
<1>8. s \in Seq(Events)
  <2>1. Len(s) \in Nat /\ DOMAIN s = 1..Len(s) /\ s = [n \in 1..Len(s) |-> s[n]]
    BY ONLY <1>6
  <2>2. \A n \in 1..Len(s) : s[n] \in Events
    BY ONLY <1>5, <1>7, <2>1
  <2> QED
    BY ONLY <2>1, <2>2
<1> QED
  BY <1>3, <1>4, <1>6, <1>7, <1>8 DEF s

\* A page of events goes to a page that listens.
LEMMA TakePageStream ==
  ASSUME IndexerInv, IndexerInv', FeedsInv, StreamInv, NEW again \in 0..Overlap,
         TakePage(again)
  PROVE  StreamInv'
<1> DEFINE first == PageStart(poll.cursor, poll.latest, again)
           last  == Least(first + PageLimit - 1, Tip)
           c     == Position(state)
           s     == Streamed(first, last)
<1>1. /\ poll.at = "page" /\ process # "down" /\ process' = process
      /\ state'.cursor = last
      /\ client' = IF client.on THEN [client EXCEPT !.flight = @ \o s] ELSE client
  <2>1. IsState(state)
    BY DEF IndexerInv, ReadFromChain
  <2>2. /\ poll.at = "page" /\ process # "down" /\ process' = process
        /\ client' = IF client.on THEN [client EXCEPT !.flight = @ \o s] ELSE client
    BY DEF TakePage
  <2>3. \E a, r : state' = [state EXCEPT !.activity = a, !.raw = r, !.cursor = last]
    BY DEF TakePage, CursorAfter
  <2> HIDE DEF last, s
  <2>4. PICK a, r : state' = [state EXCEPT !.activity = a, !.raw = r, !.cursor = last]
    BY <2>3
  <2>5. state' = [cursor |-> last, activity |-> a, raw |-> r, metrics |-> state.metrics]
    BY <2>1, <2>4 DEF IsState
  <2> QED
    BY <2>2, <2>5
<1>2. /\ poll.cursor = state.cursor /\ poll.latest \in Nat
      /\ state.cursor = None => poll.latest <= StartLedger + Backlog
  BY <1>1 DEF IndexerInv, PollerOK, FeedsInv, FirstPoll
<1>3. /\ first \in Nat \ {0} /\ last \in Nat
      /\ \A e \in Events : c < e /\ e < first => ~(Ledger[e] >= StartLedger)
      /\ \A e \in first..last : e <= c => Ledger[e] >= StartLedger /\ c - e < Overlap
      /\ \A e \in first..last : Ledger[e] >= StartLedger
  <2>1. ReadFromChain
    BY DEF IndexerInv
  <2> QED
    BY <1>2, <2>1, PageOfChain
<1>4. c \in Nat /\ FeedOK(state.activity, Activity, c)
  BY PositionInNat DEF FeedsInv, StoredOK, FeedsOK
<1>5. Position(state') = last
  BY <1>1, <1>3, IndexerAssumption DEF Position
<1> HIDE DEF first, last, c
<1>6. /\ s \in Seq(Events)
      /\ \A m, n \in DOMAIN s : m < n => s[m] < s[n]
      /\ \A n \in DOMAIN s : c < s[n] /\ s[n] <= last /\ Ledger[s[n]] >= StartLedger
      /\ \A e \in Activity : c < e /\ e <= last /\ Ledger[e] >= StartLedger => e \in ToSet(s)
  BY <1>3, <1>4, StreamedOfPage
<1>7. StreamOK(client, c)
  BY DEF StreamInv, c
<1> HIDE DEF s
<1>8. CASE client.on
  <2> PICK d : d = client'
    OBVIOUS
  <2>1. d = [client EXCEPT !.flight = client.flight \o s]
    BY <1>1, <1>8
  <2>2. client = [on |-> client.on, flight |-> client.flight, first |-> client.first,
                  last |-> client.last, seen |-> client.seen]
    BY <1>7 DEF StreamOK, ClientOK
  <2>3. d = [on |-> client.on, flight |-> client.flight \o s, first |-> client.first,
             last |-> client.last, seen |-> client.seen]
    BY ONLY <2>1, <2>2
  <2>4. StreamOK(d, last)
    BY ONLY <1>3, <1>4, <1>6, <1>7, <1>8, <2>3, Streams
  <2> QED
    BY <1>1, <1>5, <2>4 DEF StreamInv
<1>9. CASE ~client.on
  BY <1>1, <1>5, <1>7, <1>9, AwayAnywhere DEF StreamInv
<1> QED
  BY <1>8, <1>9

\* A page that comes back is sent what it has missed, or will hear it from the poller.
LEMMA ConnectStream ==
  ASSUME IndexerInv, FeedsInv, StreamInv, Connect,
         \/ client.last = None
         \/ client.last \in ToSet(state.activity.items)
         \/ Position(state) < client.last
  PROVE  StreamOK(client', Position(state))
<1> DEFINE last == client.last
           c    == Position(state)
           s    == IF last \in ToSet(state.activity.items) THEN Reverse(Newer(last)) ELSE <<>>
<1> PICK d : d = client'
  OBVIOUS
<1>1. ~client.on /\ d = [client EXCEPT !.on = TRUE, !.flight = s]
  BY DEF Connect
<1>2. StreamOK(client, c)
  BY DEF StreamInv
<1>3. c \in Nat /\ FeedOK(state.activity, Activity, c)
  BY PositionInNat DEF FeedsInv, StoredOK, FeedsOK
<1>4. client = [on |-> client.on, flight |-> client.flight, first |-> client.first,
                last |-> client.last, seen |-> client.seen]
  BY <1>2 DEF StreamOK, ClientOK
<1> HIDE DEF c
<1>5. d = [on |-> TRUE, flight |-> s, first |-> client.first, last |-> last,
           seen |-> client.seen]
  <2> HIDE DEF s
  <2> QED
    BY ONLY <1>1, <1>4
<1>6. CASE last \notin ToSet(state.activity.items)
  <2>1. last # None => c <= last
    <3> SUFFICES ASSUME last # None PROVE c <= last
      OBVIOUS
    <3>1. c < last /\ last \in Events
      BY <1>2, <1>6 DEF StreamOK, ClientOK, c
    <3>2. last \in Nat /\ c \in Nat
      BY <1>3, <3>1, NoneIsNoEvent
    <3> HIDE DEF last
    <3> QED
      BY ONLY <3>1, <3>2
  <2>2. d = [on |-> TRUE, flight |-> <<>>, first |-> client.first, last |-> client.last,
             seen |-> client.seen]
    BY <1>5, <1>6
  <2> QED
    BY <1>1, <1>2, <1>3, <2>1, <2>2, ComesBack DEF c
<1>7. CASE last \in ToSet(state.activity.items)
  <2>1. last \in Events /\ last \in Nat /\ last # None
    <3>1. state.activity.items \in Seq(Events)
      BY <1>3 DEF FeedOK
    <3>2. last \in Events
      <4>1. PICK n \in DOMAIN state.activity.items : state.activity.items[n] = last
        BY <1>7 DEF ToSet
      <4> QED
        BY <3>1, <4>1
    <3> QED
      BY <3>2, NoneIsNoEvent
  <2>2. Ledger[last] >= StartLedger
    BY <1>2, <2>1 DEF StreamOK, ClientOK, Heard
  <2> HIDE DEF last
  <2>3. s = Reverse(Newer(last))
    BY <1>7
  <2>4. /\ s \in Seq(Events)
        /\ \A m, n \in DOMAIN s : m < n => s[m] < s[n]
        /\ \A n \in DOMAIN s : last < s[n] /\ s[n] <= c /\ Ledger[s[n]] >= StartLedger
        /\ \A e \in Activity : last < e /\ e <= c /\ Ledger[e] >= StartLedger => e \in ToSet(s)
    BY <1>3, <1>7, <2>2, <2>3, SentOnReturn
  <2> DEFINE back == [on |-> TRUE, flight |-> <<>>, first |-> client.first,
                      last |-> client.last, seen |-> client.seen]
  <2>5. StreamOK(back, last)
    <3>1. client.last # None => last <= client.last
      BY <2>1 DEF last
    <3> QED
      BY ONLY <1>1, <1>2, <2>1, <3>1, ComesBack
  <2> HIDE DEF s
  <2>6. d = [on |-> back.on, flight |-> back.flight \o s, first |-> back.first,
             last |-> back.last, seen |-> back.seen]
    <3>1. <<>> \o s = s
      BY <2>4
    <3> QED
      BY <1>5, <3>1 DEF last
  <2>7. back.on
    OBVIOUS
  <2> HIDE DEF back
  <2>8. StreamOK(d, c)
    BY ONLY <1>3, <2>1, <2>4, <2>5, <2>6, <2>7, Streams
  <2> QED
    BY <2>8 DEF c
<1> QED
  BY <1>6, <1>7

\* Every step keeps the stream, if what a returning page names is still listed.
LEMMA NextStream ==
  ASSUME IndexerInv, IndexerInv', FeedsInv, StreamInv, [IndexerNext]_indexer_vars,
         Connect => \/ client.last = None
                    \/ client.last \in ToSet(state.activity.items)
                    \/ Position(state) < client.last
  PROVE  StreamInv'
<1>0. StreamOK(client, Position(state)) /\ (process = "down" => ~client.on)
  BY DEF StreamInv
<1>1. CASE CloseLedger \/ StartTick \/ FailPage \/ StartCopy \/ FinishCopy \/ Rename \/ FailSave
           \/ UNCHANGED indexer_vars
  <2>1. UNCHANGED <<process, state, client>>
    BY <1>1 DEF CloseLedger, StartTick, FailPage, StartCopy, FinishCopy, Rename, FailSave,
                indexer_vars, store_vars
  <2> QED
    BY <1>0, <2>1 DEF StreamInv
<1>2. ASSUME NEW again \in 0..Overlap, TakePage(again) PROVE StreamInv'
  BY <1>2, TakePageStream
<1>3. CASE Telemetry
  <2>1. UNCHANGED <<process, client>> /\ state' = [state EXCEPT !.metrics = @ + 1]
    BY <1>3 DEF Telemetry
  <2>2. state'.cursor = state.cursor
    BY <2>1 DEF IndexerInv, ReadFromChain, IsState
  <2>3. Position(state') = Position(state)
    BY <2>2 DEF Position
  <2> QED
    BY <1>0, <2>1, <2>3 DEF StreamInv
<1>4. CASE Shutdown
  <2>1. UNCHANGED <<state, client>> /\ process' = "stopping"
    BY <1>4 DEF Shutdown
  <2> QED
    BY <1>0, <2>1 DEF StreamInv
<1>5. CASE Exit \/ Crash \/ Disconnect
  <2> PICK d : d = client'
    OBVIOUS
  <2>1. d = [client EXCEPT !.on = FALSE, !.flight = <<>>]
    BY <1>5 DEF Exit, Crash, Disconnect, Stopped
  <2>2. StreamOK(d, Position(state'))
    BY <1>0, <2>1, Leaves
  <2>3. ~d.on
    BY <1>0, <2>1 DEF StreamOK, ClientOK
  <2> QED
    BY <2>2, <2>3 DEF StreamInv
<1>6. CASE Restart
  <2>1. process = "down" /\ client' = client /\ process' = "up"
    BY <1>6 DEF Restart
  <2>2. StreamOK(client, Position(state'))
    BY <1>0, <2>1, AwayAnywhere
  <2> QED
    BY <2>1, <2>2 DEF StreamInv
<1>7. CASE Connect
  <2>1. UNCHANGED <<process, state>> /\ process # "down"
    BY <1>7, ServingIsUp DEF Connect, store_vars
  <2>2. StreamOK(client', Position(state))
    BY <1>7, ConnectStream
  <2> QED
    BY <2>1, <2>2 DEF StreamInv
<1>8. CASE Receive
  <2> DEFINE e == Head(client.flight)
             f == IF client.first = None THEN e ELSE client.first
  <2> PICK d : d = client'
    OBVIOUS
  <2>1. /\ UNCHANGED <<process, state>> /\ client.on /\ client.flight # <<>>
        /\ d = [client EXCEPT !.flight = Tail(client.flight), !.first = f, !.last = e,
                              !.seen = client.seen \cup {e}]
    BY <1>8 DEF Receive, store_vars
  <2>2. f = Start(client)
    BY <2>1 DEF Start
  <2>3. client = [on |-> client.on, flight |-> client.flight, first |-> client.first,
                  last |-> client.last, seen |-> client.seen]
    BY <1>0 DEF StreamOK, ClientOK
  <2> HIDE DEF e, f
  <2>4. d = [on |-> client.on, flight |-> Tail(client.flight), first |-> f,
             last |-> e, seen |-> client.seen \cup {e}]
    BY ONLY <2>1, <2>3
  <2>5. StreamOK(d, Position(state))
    BY <1>0, <2>1, <2>2, <2>4, Receives DEF e
  <2>6. process # "down"
    BY <1>0, <2>1
  <2> QED
    BY <2>1, <2>5, <2>6 DEF StreamInv
<1> QED
  BY <1>1, <1>2, <1>3, <1>4, <1>5, <1>6, <1>7, <1>8
     DEF IndexerNext, PollStep, SaveStep

\* From the first event it received to the latest, a page has received every one,
\* whatever disconnects it and however old the state is that the indexer restarts
\* from, if it never names an event that has been evicted from the list.
THEOREM StreamHasNoGap ==
  IndexerSpec /\ []PolledInTime /\ ListedOnReturn => []StreamGapFree
<1>1. IndexerInit => StreamInv
  BY NoClientOK DEF IndexerInit, StreamInv, NoClient
<1>2. IndexerInv /\ IndexerInv' /\ FeedsInv /\ StreamInv /\ [IndexerNext]_indexer_vars
        /\ [Connect => \/ client.last = None
                       \/ client.last \in ToSet(state.activity.items)
                       \/ Position(state) < client.last]_indexer_vars
        => StreamInv'
  <2>1. CASE UNCHANGED indexer_vars
    BY <2>1 DEF indexer_vars, store_vars, StreamInv
  <2> QED
    BY <2>1, NextStream
<1>3. StreamInv => StreamGapFree
  BY DEF StreamInv, StreamOK, GapFree, StreamGapFree
<1> QED
  BY <1>1, <1>2, <1>3, FeedsInvariant, PTL DEF IndexerSpec, ListedOnReturn

=============================================================================
