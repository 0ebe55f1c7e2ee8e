----------------------------- MODULE Mutations ------------------------------
(***************************************************************************)
(* A browser tab: the wallet, the runner of actions with its lock for each *)
(* label, the submission of one contract call from its preflight to its    *)
(* confirmation, the drawer that shows the latest transaction, and the     *)
(* onboarding journey that records a confirmed one.                        *)
(*                                                                         *)
(* A step ends at each await, where the user, the wallet, the network and  *)
(* the tab's other actions may go first.                                   *)
(***************************************************************************)
EXTENDS Ledger, Sequences

VARIABLES
  mutation,       \* mutation[m]: where the action m stands
  locks,          \* mutationLocks: the labels under way
  transaction,    \* what the drawer shows: stage, hash, label
  lastHash,       \* lastOnboardingHash
  address,        \* the account connected to the page, or Null
  wallet,         \* the wallet's own account and network
  journey,        \* the onboarding progress: role, step, confirmed
  saved,          \* the progress in localStorage, or Null: storage is disabled
  joining,        \* the journey's wallet step waits for the wallet
  disturbances    \* bound: wallet switches, reloads and the like still to come

calm_vars == <<mutation, locks, transaction, lastHash, address, wallet,
               journey, saved, joining>>
tab_vars == <<calm_vars, disturbances>>

Steps == <<"welcome", "wallet", "testnet", "action", "confirmation", "feedback">>

NewJourney == [role |-> FALSE, step |-> "welcome", confirmed |-> Null]
NoTransaction == [stage |-> "idle", hash |-> Null, label |-> Null]
Unstarted == [at |-> "idle"]

TabInit ==
  /\ mutation = [m \in Mutations |-> Unstarted]
  /\ locks = {}
  /\ transaction = NoTransaction
  /\ lastHash = Null
  /\ address = Null
  /\ wallet = [account |-> Creator, testnet |-> TRUE]
  /\ journey = NewJourney
  /\ saved \in {NewJourney, Null}
  /\ joining = FALSE

-----------------------------------------------------------------------------
(* What every step of the page ends with: the render and its two effects.   *)

Recorded(progress, hash) ==
  IF progress.confirmed = hash THEN progress
  ELSE [progress EXCEPT !.step = "confirmation", !.confirmed = hash]

\* Storage may be disabled.
Stored(progress) == IF saved = Null THEN Null ELSE progress

\* The journey records a confirmation the drawer shows, once for each hash, and
\* every progress is stored.
RenderFrom(tx, progress, last) ==
  LET news == /\ progress.step = "action"
              /\ tx.stage = "confirmed"
              /\ tx.hash # Null /\ tx.hash # last
  IN
  /\ transaction' = tx
  /\ lastHash' = IF news THEN tx.hash ELSE last
  /\ journey' = IF news THEN Recorded(progress, tx.hash) ELSE progress
  /\ saved' = Stored(journey')

Render(tx, progress) == RenderFrom(tx, progress, lastHash)

\* submitVote passes the stages on without their hash.
PassesHashes(m) == mutation[m].call.label # "Cast signal"

\* onUpdate and setTransaction: m is its own hash, known to App once it has been
\* told.
Shows(m, stage) ==
  LET told == \/ stage \in {"confirmed", "timed_out"}
              \/ stage = "pending" /\ PassesHashes(m)
              \/ mutation[m].known
  IN [stage |-> stage, hash |-> IF told THEN m ELSE Null, label |-> mutation[m].call.label]

Goes(m, at) ==
  mutation' = [mutation EXCEPT ![m].at = at,
                               ![m].known = @ \/ (at = "polling" /\ PassesHashes(m))]

\* One step of the action m, which the drawer shows.
Advance(m, from, to, stage) ==
  /\ mutation[m].at = from
  /\ Goes(m, to)
  /\ Render(Shows(m, stage), journey)
  /\ UNCHANGED <<locks, address, wallet, joining, disturbances>>

\* The catch and finally blocks of runMutation.
End(m, from, tx) ==
  /\ mutation[m].at = from
  /\ Goes(m, "failed")
  /\ Render(tx, journey)
  /\ locks' = locks \ {mutation[m].call.label}
  /\ UNCHANGED <<address, wallet, joining, disturbances>>

Fails(m, from) == End(m, from, Shows(m, "failed"))

FailsWithHash(m, from, stage) ==
  End(m, from, [Shows(m, stage) EXCEPT !.hash = m])

-----------------------------------------------------------------------------
(* runMutation.                                                             *)

\* Faulty variant: the lock is looked at before the wallet is
\* connected, and no longer here.
EnterUnchecked(m, call, a) ==
  /\ mutation' = [mutation EXCEPT ![m] =
       [at |-> "validating", call |-> call, address |-> a, known |-> FALSE]]
  /\ Render([stage |-> "validating", hash |-> Null, label |-> call.label], journey)
  /\ locks' = locks \cup {call.label}

\* After the wallet is connected: the lock is looked at only now.
Enter(m, call, a) ==
  LET label == call.label IN
  IF label \in locks
  THEN /\ mutation' = [mutation EXCEPT ![m] =
            [at |-> "refused", call |-> call, address |-> a, known |-> FALSE]]
       /\ Render([stage |-> "failed", hash |-> Null, label |-> label], journey)
       /\ UNCHANGED locks
  ELSE /\ mutation' = [mutation EXCEPT ![m] =
            [at |-> "validating", call |-> call, address |-> a, known |-> FALSE]]
       /\ Render([stage |-> "validating", hash |-> Null, label |-> label], journey)
       /\ locks' = locks \cup {label}

\* Actions are numbered as they are started.
IsNext(m) == mutation[m] = Unstarted /\ \A n \in Mutations : n < m => mutation[n] # Unstarted

RunMutation(m, call) ==
  /\ IsNext(m)
  /\ IF address # Null
     THEN Enter(m, call, address)
     ELSE /\ mutation' = [mutation EXCEPT ![m] =
               [at |-> "connecting", call |-> call, address |-> Null, known |-> FALSE]]
          /\ UNCHANGED <<locks, transaction, lastHash, journey, saved>>
  /\ UNCHANGED <<address, wallet, joining, disturbances>>

ConnectFailed == [stage |-> "failed", hash |-> Null, label |-> "Connect wallet"]

\* handleConnect succeeds: the user picks an account, and the network that the
\* wallet names after that is Testnet.
Connects(a) ==
  /\ wallet.testnet
  /\ address' = a

\* It fails: no account, another network, or a balance that cannot be read,
\* by which time the address is set.
ConnectFails == address' \in {address} \cup (IF wallet.testnet THEN Accounts ELSE {})

ConnectFor(m) ==
  /\ mutation[m].at = "connecting"
  /\ \/ \E a \in Accounts : Connects(a) /\ Enter(m, mutation[m].call, a)
     \/ /\ ConnectFails
        /\ mutation' = [mutation EXCEPT ![m].at = "refused"]
        /\ Render(ConnectFailed, journey)
        /\ UNCHANGED locks
  /\ UNCHANGED <<wallet, joining, disturbances>>

\* The reads after a confirmation have all settled.
Settle(m) ==
  /\ mutation[m].at = "settling"
  /\ Goes(m, "confirmed")
  /\ locks' = locks \ {mutation[m].call.label}
  /\ UNCHANGED <<transaction, lastHash, address, wallet, journey, saved, joining, disturbances>>

-----------------------------------------------------------------------------
(* submitContractCall.                                                      *)

\* The account's balance allows the call, does not, or cannot be read.
Validate(m) ==
  \/ Advance(m, "validating", "simulating", "simulating")
  \/ Fails(m, "validating")

\* The sequence number is read and the call simulated.
Simulate(m) ==
  LET a == mutation[m].address IN
  \/ /\ mutation[m].at = "simulating"
     /\ Accepts(mutation[m].call, a)
     /\ mutation' = [mutation EXCEPT ![m].at = "signing"]
     /\ signed' = [signed EXCEPT ![m] =
          [call |-> mutation[m].call, source |-> a, sequence |-> sequence[a] + 1, by |-> Null]]
     /\ Render(Shows(m, "awaiting_signature"), journey)
     /\ UNCHANGED <<locks, address, wallet, joining, disturbances>>
  \/ Fails(m, "simulating") /\ UNCHANGED signed

\* signTransaction asks the wallet for its network and account.
CheckWallet(m) ==
  \/ /\ Advance(m, "signing", "asking", "awaiting_signature")
     /\ wallet.testnet /\ wallet.account = mutation[m].address
  \/ Fails(m, "signing")

\* The user approves or rejects.  A wallet signs as the account it is asked for,
\* or as the one it has switched to since.
Sign(m) ==
  \/ /\ mutation[m].at = "asking"
     /\ \E a \in {mutation[m].address, wallet.account} :
          signed' = [signed EXCEPT ![m].by = a]
     /\ Goes(m, "sending")
     /\ UNCHANGED <<locks, transaction, lastHash, address, wallet, journey, saved,
                    joining, disturbances>>
  \/ Fails(m, "asking") /\ UNCHANGED signed

\* What the RPC node checks before it queues a transaction.
Valid(m) == signed[m].by = signed[m].source /\ InTurn(m)

\* PENDING queues the transaction, and TRY_AGAIN_LATER does not, although the
\* page takes both for submitted; ERROR, or an answer that is lost.
Send(m) ==
  \/ /\ Advance(m, "sending", "polling", "pending")
     /\ mempool' \in {mempool} \cup (IF Valid(m) THEN {mempool \cup {m}} ELSE {})
  \/ /\ Fails(m, "sending")
     /\ mempool' \in {mempool} \cup (IF Valid(m) THEN {mempool \cup {m}} ELSE {})

\* Faulty variant: any final status counts as success.
PollAnyStatus(m) ==
  \/ landed[m] # "NOT_FOUND" /\ Advance(m, "polling", "settling", "confirmed")
  \/ landed[m] = "NOT_FOUND" /\ FailsWithHash(m, "polling", "timed_out")
  \/ Fails(m, "polling")

\* pollTransaction: an outcome, thirty answers without one, or a read that fails.
Poll(m) ==
  \/ landed[m] = "SUCCESS" /\ Advance(m, "polling", "settling", "confirmed")
  \/ landed[m] = "FAILED" /\ FailsWithHash(m, "polling", "failed")
  \/ landed[m] = "NOT_FOUND" /\ FailsWithHash(m, "polling", "timed_out")
  \/ Fails(m, "polling")

MutationStep(m) ==
  \/ ConnectFor(m) /\ UNCHANGED ledger_vars
  \/ Validate(m) /\ UNCHANGED ledger_vars
  \/ Simulate(m) /\ UNCHANGED <<signals_vars, sequence, mempool, landed, project>>
  \/ CheckWallet(m) /\ UNCHANGED ledger_vars
  \/ Sign(m) /\ UNCHANGED <<signals_vars, sequence, mempool, landed, project>>
  \/ Send(m) /\ UNCHANGED <<signals_vars, sequence, signed, landed, project>>
  \/ Poll(m) /\ UNCHANGED ledger_vars
  \/ Settle(m) /\ UNCHANGED ledger_vars

-----------------------------------------------------------------------------
(* The wallet, the drawer and the journey.                                  *)

Disturb == disturbances > 0 /\ disturbances' = disturbances - 1

Connect ==
  /\ address = Null
  /\ \/ (\E a \in Accounts : Connects(a)) /\ UNCHANGED <<transaction, lastHash, journey, saved>>
     \/ ConnectFails /\ Render(ConnectFailed, journey)
  /\ UNCHANGED <<mutation, locks, wallet, joining, disturbances>>

Disconnect ==
  /\ address # Null
  /\ Disturb
  /\ address' = Null
  /\ UNCHANGED <<mutation, locks, transaction, lastHash, wallet, journey, saved, joining>>

SwitchWallet ==
  /\ Disturb
  /\ wallet' \in [account : Accounts, testnet : BOOLEAN] \ {wallet}
  /\ UNCHANGED <<mutation, locks, transaction, lastHash, address, journey, saved, joining>>

\* The progress is all that a reload keeps.
Reload ==
  /\ Disturb
  /\ mutation' = [m \in Mutations |-> IF mutation[m] = Unstarted THEN Unstarted
                                      ELSE [at |-> "gone"]]
  /\ locks' = {}
  /\ transaction' = NoTransaction
  /\ lastHash' = Null
  /\ address' = Null
  /\ journey' = IF saved = Null THEN NewJourney ELSE saved
  /\ joining' = FALSE
  /\ UNCHANGED <<wallet, saved>>

Dismiss ==
  /\ transaction.stage # "idle"
  /\ Disturb
  /\ Render(NoTransaction, journey)
  /\ UNCHANGED <<mutation, locks, address, wallet, joining>>

\* completeOnboardingStep: the step is set whatever it is now.
Complete(step) == [journey EXCEPT !.step = step]

ChooseRole == journey.step = "welcome" /\ ~journey.role /\ Render(transaction, [journey EXCEPT !.role = TRUE])

ContinueToWallet ==
  journey.step = "welcome" /\ journey.role /\ Render(transaction, Complete("wallet"))

\* There is a balance for the account connected, or one that was read after a
\* confirmation and came when the account was gone.
ChooseAction ==
  /\ journey.step = "testnet"
  /\ address # Null \/ \E m \in Mutations : mutation[m].at = "confirmed"
  /\ Render(transaction, Complete("action"))

ShareFeedback ==
  /\ journey.step = "confirmation" /\ journey.confirmed # Null
  /\ Render(transaction, Complete("feedback"))

GoBack ==
  \E i \in 2..Len(Steps) :
    journey.step = Steps[i] /\ Render(transaction, Complete(Steps[i - 1]))

Restart ==
  /\ journey # NewJourney
  /\ RenderFrom(NoTransaction, NewJourney, Null)

\* The action's page is opened: the drawer is emptied.
LeaveOnboarding == RenderFrom(NoTransaction, journey, Null)

Begin == journey.step = "action" /\ journey.role /\ LeaveOnboarding

Journey ==
  /\ \/ ChooseRole \/ ContinueToWallet \/ ChooseAction \/ ShareFeedback
     \/ GoBack \/ Restart \/ Begin
  /\ UNCHANGED <<mutation, locks, address, wallet, joining, disturbances>>

\* continueWithWallet: the step is completed when the wallet has answered, and
\* the user may have gone back or started again by then.
ContinueWithWallet ==
  /\ journey.step = "wallet" /\ ~joining
  /\ IF address # Null THEN Render(transaction, Complete("testnet")) /\ UNCHANGED joining
     ELSE joining' = TRUE /\ UNCHANGED <<transaction, lastHash, journey, saved>>
  /\ UNCHANGED <<mutation, locks, address, wallet, disturbances>>

Join ==
  /\ joining
  /\ joining' = FALSE
  /\ \/ \E a \in Accounts : Connects(a) /\ Render(transaction, Complete("testnet"))
     \/ ConnectFails /\ Render(ConnectFailed, journey)
  /\ UNCHANGED <<mutation, locks, wallet, disturbances>>
=============================================================================
