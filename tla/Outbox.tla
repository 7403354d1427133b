-------------------------------- MODULE Outbox --------------------------------
(***************************************************************************)
(* The transactional outbox (internal/platform/events, internal/platform/  *)
(* db/tx.go, db/queries/outbox.sql, cmd/worker).                           *)
(*                                                                         *)
(* Services run a unit of work through db.RunInTx and publish its events on*)
(* the bus inside it: the synchronous listeners run there and then, and an *)
(* asynchronous event becomes a row of the outbox table in the same        *)
(* transaction.  Workers drain the table: one relay pass is one            *)
(* transaction that claims a batch of rows (FOR UPDATE SKIP LOCKED), runs  *)
(* the handlers of each row and records how it went.  The handlers' effects*)
(* (mails) happen at once; what the pass records happens at its commit.    *)
(***************************************************************************)
EXTENDS Naturals, FiniteSets

CONSTANTS Event,         \* outbox rows, by the event each one carries
          Tx,            \* units of work of the server's request handlers
          Relay,         \* worker processes
          NoTx, NoRow,   \* no transaction, no row
          NumHandlers,   \* handlers the worker's bus has for an event
          MaxAttempts,   \* relay.maxAttempts
          BatchSize,     \* relay.batchSize
          MaxRollbacks   \* bound: relay passes that roll back or crash

ASSUME ConstantsAssumption ==
    /\ NoTx \notin Tx
    /\ NoRow \notin Event
    /\ NumHandlers \in Nat
    /\ MaxAttempts \in Nat \ {0}
    /\ BatchSize \in Nat \ {0}
    /\ MaxRollbacks \in Nat

Handler == 1..NumHandlers

VARIABLES
    txn,        \* txn[t]: state of the unit of work
    clock,      \* time as now() gives it: units of work begun so far
    began,      \* began[t]: now() inside t, the time it began
    row,        \* row[e]: the outbox row of e, as its own transaction sees it
    owner,      \* owner[e]: the unit of work that inserted the row
    created,    \* created[e]: column created_at
    attempts,   \* attempts[e]: column attempts, as committed
    batch,      \* batch[r]: rows the open pass of r has claimed and locked
    seen,       \* seen[r][e]: attempts as the pass fetched them
    cur,        \* cur[r]: the row being dispatched
    step,       \* step[r]: handlers of that row that have completed
    outcome,    \* outcome[r][e]: what the pass has written for e, uncommitted
    completed,  \* completed[e][h]: completions of handler h (history)
    failed,     \* failed[e]: dispatches of e that returned an error (history)
    rollbacks   \* relay passes rolled back so far (history, bounds the model)

publishVars == <<txn, clock, began, owner, created>>
passVars == <<batch, seen, cur, step, outcome>>
historyVars == <<completed, failed, rollbacks>>
vars == <<publishVars, row, attempts, passVars, historyVars>>

RowState == {"none", "inserted", "ready", "processed", "dead"}
Outcome == {"none", "processed", "retry", "dead"}

Init == /\ txn = [t \in Tx |-> "idle"]
        /\ clock = 0
        /\ began = [t \in Tx |-> 0]
        /\ row = [e \in Event |-> "none"]
        /\ owner = [e \in Event |-> NoTx]
        /\ created = [e \in Event |-> 0]
        /\ attempts = [e \in Event |-> 0]
        /\ batch = [r \in Relay |-> {}]
        /\ seen = [r \in Relay |-> [e \in Event |-> 0]]
        /\ cur = [r \in Relay |-> NoRow]
        /\ step = [r \in Relay |-> 0]
        /\ outcome = [r \in Relay |-> [e \in Event |-> "none"]]
        /\ completed = [e \in Event |-> [h \in Handler |-> 0]]
        /\ failed = [e \in Event |-> 0]
        /\ rollbacks = 0

-------------------------------------------------------------------------------
(* The publishing side: a unit of work run by db.RunInTx.                   *)

Begin(t) == /\ txn[t] = "idle"
            /\ txn' = [txn EXCEPT ![t] = "open"]
            /\ clock' = clock + 1
            /\ began' = [began EXCEPT ![t] = clock + 1]
            /\ UNCHANGED <<row, owner, created, attempts, passVars, historyVars>>

\* Bus.Publish: every synchronous listener has returned nil and the event is
\* inserted into the outbox by the same transaction.
Publish(t, e) == /\ txn[t] = "open"
                 /\ row[e] = "none"
                 /\ row' = [row EXCEPT ![e] = "inserted"]
                 /\ owner' = [owner EXCEPT ![e] = t]
                 /\ created' = [created EXCEPT ![e] = began[t]]
                 /\ UNCHANGED <<txn, clock, began, attempts, passVars, historyVars>>

Inserted(t) == {e \in Event : row[e] = "inserted" /\ owner[e] = t}

Commit(t) == /\ txn[t] = "open"
             /\ txn' = [txn EXCEPT ![t] = "committed"]
             /\ row' = [e \in Event |-> IF e \in Inserted(t) THEN "ready" ELSE row[e]]
             /\ UNCHANGED <<clock, began, owner, created, attempts, passVars, historyVars>>

\* A synchronous listener, the enqueue, another statement or the commit failed,
\* or the process died: the work and its events are undone together.
Rollback(t) ==
    /\ txn[t] = "open"
    /\ txn' = [txn EXCEPT ![t] = "aborted"]
    /\ row' = [e \in Event |-> IF e \in Inserted(t) THEN "none" ELSE row[e]]
    /\ owner' = [e \in Event |-> IF e \in Inserted(t) THEN NoTx ELSE owner[e]]
    /\ created' = [e \in Event |-> IF e \in Inserted(t) THEN 0 ELSE created[e]]
    /\ UNCHANGED <<clock, began, attempts, passVars, historyVars>>

-------------------------------------------------------------------------------
(* The draining side: one pass of Relay.Drain by worker r.                  *)

Locked == UNION {batch[r] : r \in Relay}

\* Mutants: the fetch without SKIP LOCKED, one that sees uncommitted rows, and one
\* that leaves out the rows that failed before.
ClaimableIfLocked == {e \in Event : row[e] = "ready"}
ClaimableIfUncommitted == {e \in Event : row[e] \in {"inserted", "ready"}} \ Locked
ClaimableIfUntried == {e \in Event : row[e] = "ready" /\ attempts[e] = 0} \ Locked

\* FetchUnprocessedOutbox: committed rows neither processed nor dead, that no
\* other pass holds ...
Claimable == {e \in Event : row[e] = "ready"} \ Locked

\* ... the oldest of them, at most BatchSize.
OldestOf(S) == {B \in SUBSET S :
                  /\ Cardinality(B) <= BatchSize
                  /\ B = S \/ Cardinality(B) = BatchSize
                  /\ \A e \in B, f \in S \ B : created[e] <= created[f]}

Claim(r) == /\ batch[r] = {}
            /\ \E B \in OldestOf(Claimable) \ {{}} :
                  /\ batch' = [batch EXCEPT ![r] = B]
                  /\ seen' = [seen EXCEPT ![r] =
                                [e \in Event |-> IF e \in B THEN attempts[e] ELSE 0]]
            /\ UNCHANGED <<publishVars, row, attempts, cur, step, outcome, historyVars>>

Todo(r) == {e \in batch[r] : outcome[r][e] = "none"}

\* The loop of Drain reaches its next row, oldest first.
NextRow(r) == /\ cur[r] = NoRow
              /\ \E e \in Todo(r) :
                    /\ \A f \in Todo(r) : created[e] <= created[f]
                    /\ cur' = [cur EXCEPT ![r] = e]
              /\ UNCHANGED <<publishVars, row, attempts, batch, seen, step, outcome,
                             historyVars>>

\* What the pass writes for the row it is at, before moving on.
Record(r, o) == /\ outcome' = [outcome EXCEPT ![r][cur[r]] = o]
                /\ cur' = [cur EXCEPT ![r] = NoRow]
                /\ step' = [step EXCEPT ![r] = 0]

\* Bus.Dispatch: the next handler of the row returns nil.
HandlerOk(r) ==
    /\ cur[r] # NoRow
    /\ step[r] < NumHandlers
    /\ completed' = [completed EXCEPT ![cur[r]][step[r] + 1] = @ + 1]
    /\ step' = [step EXCEPT ![r] = @ + 1]
    /\ UNCHANGED <<publishVars, row, attempts, batch, seen, cur, outcome, failed,
                   rollbacks>>

\* Mutants: the row is marked after a failed dispatch all the same (a missing
\* continue); the threshold is off by one.
FailureIgnored(r) == "processed"
OneAttemptTooMany(r) == IF seen[r][cur[r]] >= MaxAttempts THEN "dead" ELSE "retry"

\* handleDispatchFailure writes failed_at at the last attempt allowed.
FailureOutcome(r) == IF seen[r][cur[r]] + 1 >= MaxAttempts THEN "dead" ELSE "retry"

\* Bus.Dispatch: the next handler returns an error; the others do not run.
HandlerFails(r) ==
    /\ cur[r] # NoRow
    /\ step[r] < NumHandlers
    /\ failed' = [failed EXCEPT ![cur[r]] = @ + 1]
    /\ Record(r, FailureOutcome(r))
    /\ UNCHANGED <<publishVars, row, attempts, batch, seen, completed, rollbacks>>

MarkProcessed(r) ==
    /\ cur[r] # NoRow
    /\ step[r] = NumHandlers
    /\ Record(r, "processed")
    /\ UNCHANGED <<publishVars, row, attempts, batch, seen, historyVars>>

\* The pass is over: its locks go and the worker keeps nothing of it.
EndPass(r) == /\ batch' = [batch EXCEPT ![r] = {}]
              /\ seen' = [seen EXCEPT ![r] = [e \in Event |-> 0]]
              /\ cur' = [cur EXCEPT ![r] = NoRow]
              /\ step' = [step EXCEPT ![r] = 0]
              /\ outcome' = [outcome EXCEPT ![r] = [e \in Event |-> "none"]]

\* Mutants: whatever the pass recorded becomes the state of the row;
\* MarkOutboxProcessed is lost.
CommitPassVerbatim(r) ==
    /\ batch[r] # {}
    /\ cur[r] = NoRow
    /\ Todo(r) = {}
    /\ row' = [e \in Event |-> IF e \in batch[r] THEN outcome[r][e] ELSE row[e]]
    /\ EndPass(r)
    /\ UNCHANGED <<publishVars, attempts, historyVars>>
CommitPassUnmarked(r) ==
    /\ batch[r] # {}
    /\ cur[r] = NoRow
    /\ Todo(r) = {}
    /\ EndPass(r)
    /\ attempts' = [e \in Event |->
                      IF e \in batch[r] /\ outcome[r][e] \in {"retry", "dead"}
                      THEN attempts[e] + 1 ELSE attempts[e]]
    /\ row' = [e \in Event |-> IF e \in batch[r] /\ outcome[r][e] = "dead"
                               THEN "dead" ELSE row[e]]
    /\ UNCHANGED <<publishVars, historyVars>>

\* Every row of the batch was gone through and the transaction commits:
\* MarkOutboxProcessed, RecordOutboxFailure and DeadLetterOutbox take effect.
CommitPass(r) ==
    /\ batch[r] # {}
    /\ cur[r] = NoRow
    /\ Todo(r) = {}
    /\ row' = [e \in Event |->
                 IF e \in batch[r] /\ outcome[r][e] \in {"processed", "dead"}
                 THEN outcome[r][e] ELSE row[e]]
    /\ attempts' = [e \in Event |->
                      IF e \in batch[r] /\ outcome[r][e] \in {"retry", "dead"}
                      THEN attempts[e] + 1 ELSE attempts[e]]
    /\ EndPass(r)
    /\ UNCHANGED <<publishVars, historyVars>>

\* A statement or the commit fails, a handler panics, the worker is told to stop
\* (its context is cancelled) or dies: nothing the pass wrote remains.
AbortPass(r) == /\ batch[r] # {}
                /\ rollbacks < MaxRollbacks
                /\ rollbacks' = rollbacks + 1
                /\ EndPass(r)
                /\ UNCHANGED <<publishVars, row, attempts, completed, failed>>

-------------------------------------------------------------------------------
Drain(r) == Claim(r) \/ NextRow(r) \/ HandlerOk(r) \/ HandlerFails(r)
            \/ MarkProcessed(r) \/ CommitPass(r)

Next == \/ \E t \in Tx : Begin(t) \/ Commit(t) \/ Rollback(t)
        \/ \E t \in Tx, e \in Event : Publish(t, e)
        \/ \E r \in Relay : Drain(r) \/ AbortPass(r)

Spec == Init /\ [][Next]_vars

\* The worker's ticker calls Drain for ever, and a worker that dies is restarted.
FairSpec == Spec /\ \A r \in Relay : WF_vars(Drain(r))

-------------------------------------------------------------------------------
(* Properties.                                                              *)

TypeOK == /\ txn \in [Tx -> {"idle", "open", "committed", "aborted"}]
          /\ clock \in Nat
          /\ began \in [Tx -> Nat]
          /\ row \in [Event -> RowState]
          /\ owner \in [Event -> Tx \cup {NoTx}]
          /\ created \in [Event -> Nat]
          /\ attempts \in [Event -> Nat]
          /\ batch \in [Relay -> SUBSET Event]
          /\ seen \in [Relay -> [Event -> Nat]]
          /\ cur \in [Relay -> Event \cup {NoRow}]
          /\ step \in [Relay -> 0..NumHandlers]
          /\ outcome \in [Relay -> [Event -> Outcome]]
          /\ completed \in [Event -> [Handler -> Nat]]
          /\ failed \in [Event -> Nat]
          /\ rollbacks \in Nat

Published == {"ready", "processed", "dead"}

\* Publishing is atomic with the unit of work (RunInTx, OutboxRepository.Enqueue):
\* a row exists exactly while some unit of work owns it, only committed units of
\* work have rows others can see, and nothing is dispatched before that.
EventsFollowTheirTransaction ==
    \A e \in Event :
        /\ row[e] = "none" <=> owner[e] = NoTx
        /\ row[e] = "inserted" => txn[owner[e]] = "open"
        /\ row[e] \in Published => txn[owner[e]] = "committed"
        /\ row[e] \notin Published =>
              failed[e] = 0 /\ \A h \in Handler : completed[e][h] = 0

\* SKIP LOCKED gives each row to one pass at a time, and as long as a pass holds
\* a row, the row is unsettled and the attempts fetched with it are current.
ClaimsAreExclusive ==
    /\ \A r, q \in Relay : r # q => batch[r] \cap batch[q] = {}
    /\ \A r \in Relay : \A e \in batch[r] :
          row[e] = "ready" /\ seen[r][e] = attempts[e]

\* The column attempts counts no failure that did not happen, stays below the
\* threshold while the row is retried, and reaches it exactly at the dead letter.
AttemptLedger ==
    \A e \in Event : /\ attempts[e] <= failed[e]
                     /\ attempts[e] <= MaxAttempts
                     /\ (row[e] = "dead") <=> (attempts[e] = MaxAttempts)

\* What a pass holds in its transaction: it writes only rows it claimed, it has
\* written nothing yet for the row it is at, and what it writes is what happened.
PassesAreTruthful ==
    \A r \in Relay :
        /\ cur[r] = NoRow => step[r] = 0
        /\ cur[r] # NoRow => /\ cur[r] \in Todo(r)
                             /\ \A h \in 1..step[r] : completed[cur[r]][h] > 0
        /\ \A e \in Event :
              /\ outcome[r][e] # "none" => e \in batch[r]
              /\ outcome[r][e] = "processed" =>
                    \A h \in Handler : completed[e][h] > 0
              /\ outcome[r][e] \in {"retry", "dead"} => attempts[e] < failed[e]
              /\ outcome[r][e] = "retry" => attempts[e] + 1 < MaxAttempts
              /\ outcome[r][e] = "dead" => attempts[e] + 1 = MaxAttempts

\* The inductive invariant.
Inv == /\ TypeOK
       /\ EventsFollowTheirTransaction
       /\ ClaimsAreExclusive
       /\ AttemptLedger
       /\ PassesAreTruthful

\* A handler runs again only after a failed dispatch of the same event or a pass
\* that did not commit; the last handler of an event only after the latter.
RedeliveryNeedsACause ==
    \A e \in Event, h \in Handler :
        /\ completed[e][h] <= 1 + rollbacks + failed[e]
        /\ h = NumHandlers => completed[e][h] <= 1 + rollbacks

\* The dispatch under way, or the one that settled the row, has run handler h.
HasRun(e, h) == \/ row[e] = "processed"
                \/ \E r \in Relay : \/ outcome[r][e] = "processed"
                                    \/ cur[r] = e /\ h <= step[r]

\* Of the completions of a handler, one belongs to that dispatch; each of the others
\* to a pass that rolled back or, if a handler comes after it, to a failed dispatch.
RunsAccounted ==
    \A e \in Event, h \in Handler : LET last == IF HasRun(e, h) THEN 1 ELSE 0 IN
        /\ completed[e][h] <= last + rollbacks + failed[e]
        /\ h = NumHandlers => completed[e][h] <= last + rollbacks

\* What the outbox implements: at-least-once delivery.
Phase == [e \in Event |-> CASE row[e] = "ready" -> "pending"
                            [] row[e] = "processed" -> "handled"
                            [] row[e] = "dead" -> "abandoned"
                            [] OTHER -> "unpublished"]

Delivery == INSTANCE AtLeastOnce WITH phase <- Phase

\* Every behaviour of the outbox is one of at-least-once delivery: an event is
\* accepted with its unit of work or not at all, leaves the table only handled by
\* every handler or failed MaxAttempts times, and is never touched again.
ImplementsDelivery == Delivery!Spec

\* Every committed event is handled or dead-lettered in the end, whatever the
\* other rows do: no poison event blocks its siblings or loops for ever.
EveryEventSettles ==
    \A e \in Event : row[e] = "ready" ~> row[e] \in {"processed", "dead"}
===============================================================================
