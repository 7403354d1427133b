----------------------------- MODULE OutboxProofs -----------------------------
(***************************************************************************)
(* Theorems about Outbox, for any sets of events, units of work and        *)
(* workers and any thresholds.                                             *)
(***************************************************************************)
EXTENDS Outbox, TLAPS

\* Each step of Next keeps the variables' types.
LEMMA TypeStep == TypeOK /\ [Next]_vars => TypeOK'
<1> USE DEF TypeOK
<1> SUFFICES ASSUME TypeOK, [Next]_vars
             PROVE  TypeOK'
  OBVIOUS
<1>1. ASSUME NEW t \in Tx, Begin(t)
      PROVE  TypeOK'
  BY <1>1 DEF Begin, passVars, historyVars
<1>2. ASSUME NEW t \in Tx, Commit(t)
      PROVE  TypeOK'
  BY <1>2 DEF Commit, Inserted, RowState, passVars, historyVars
<1>3. ASSUME NEW t \in Tx, Rollback(t)
      PROVE  TypeOK'
  BY <1>3 DEF Rollback, Inserted, RowState, passVars, historyVars
<1>4. ASSUME NEW t \in Tx, NEW e \in Event, Publish(t, e)
      PROVE  TypeOK'
  BY <1>4 DEF Publish, RowState, passVars, historyVars
<1>5. ASSUME NEW r \in Relay, Claim(r)
      PROVE  TypeOK'
  BY <1>5 DEF Claim, OldestOf, Claimable, publishVars, historyVars
<1>6. ASSUME NEW r \in Relay, NextRow(r)
      PROVE  TypeOK'
  BY <1>6 DEF NextRow, Todo, publishVars, historyVars
<1>7. ASSUME NEW r \in Relay, HandlerOk(r)
      PROVE  TypeOK'
  <2>1. cur[r] \in Event /\ step[r] + 1 \in Handler /\ step[r] + 1 \in 0..NumHandlers
    BY <1>7, ConstantsAssumption DEF HandlerOk, Handler
  <2>2. completed' \in [Event -> [Handler -> Nat]]
    BY <1>7, <2>1 DEF HandlerOk
  <2>3. step' \in [Relay -> 0..NumHandlers]
    BY <1>7, <2>1 DEF HandlerOk
  <2> QED
    BY <1>7, <2>2, <2>3 DEF HandlerOk, publishVars
<1>8. ASSUME NEW r \in Relay, HandlerFails(r)
      PROVE  TypeOK'
  BY <1>8, ConstantsAssumption
     DEF HandlerFails, Record, FailureOutcome, Outcome, publishVars
<1>9. ASSUME NEW r \in Relay, MarkProcessed(r)
      PROVE  TypeOK'
  BY <1>9, ConstantsAssumption
     DEF MarkProcessed, Record, Outcome, publishVars, historyVars
<1>10. ASSUME NEW r \in Relay, CommitPass(r)
       PROVE  TypeOK'
  BY <1>10, ConstantsAssumption
     DEF CommitPass, EndPass, RowState, Outcome, publishVars, historyVars
<1>11. ASSUME NEW r \in Relay, AbortPass(r)
       PROVE  TypeOK'
  BY <1>11, ConstantsAssumption DEF AbortPass, EndPass, Outcome, publishVars
<1>12. CASE UNCHANGED vars
  BY <1>12 DEF vars, publishVars, passVars, historyVars
<1> QED
  BY <1>1, <1>2, <1>3, <1>4, <1>5, <1>6, <1>7, <1>8, <1>9, <1>10, <1>11, <1>12
     DEF Next, Drain

\* The variables always have the shapes the columns and the pass give them.
THEOREM TypeCorrect == Spec => []TypeOK
<1>1. Init => TypeOK
  BY ConstantsAssumption DEF TypeOK, Init, Handler, RowState, Outcome
<1> QED
  BY <1>1, TypeStep, PTL DEF Spec

-------------------------------------------------------------------------------
\* A step of the publishing side leaves the passes alone: it moves only rows no
\* pass has claimed.
LEMMA PublishingStep ==
  ASSUME Inv, NEW t \in Tx,
         Begin(t) \/ Commit(t) \/ Rollback(t) \/ \E e \in Event : Publish(t, e)
  PROVE  /\ EventsFollowTheirTransaction'
         /\ ClaimsAreExclusive'
         /\ AttemptLedger'
         /\ PassesAreTruthful'
<1> USE DEF Inv, TypeOK
<1>1. UNCHANGED <<attempts, batch, seen, cur, step, outcome, completed, failed>>
  BY DEF Begin, Commit, Rollback, Publish, passVars, historyVars
<1>2. \A e \in Event : row[e] = "dead" <=> row'[e] = "dead"
  BY DEF Begin, Commit, Rollback, Publish, Inserted
<1>3. \A e \in Event : row[e] = "ready" => row'[e] = "ready"
  BY DEF Begin, Commit, Rollback, Publish, Inserted
<1>4. EventsFollowTheirTransaction'
  <2> USE DEF EventsFollowTheirTransaction, Published
  <2>1. CASE Begin(t)
    BY <2>1, <1>1, ConstantsAssumption DEF Begin
  <2>2. CASE Commit(t)
    BY <2>2, <1>1, ConstantsAssumption DEF Commit, Inserted
  <2>3. CASE Rollback(t)
    BY <2>3, <1>1, ConstantsAssumption DEF Rollback, Inserted
  <2>4. ASSUME NEW e \in Event, Publish(t, e)
        PROVE  EventsFollowTheirTransaction'
    BY <2>4, <1>1, ConstantsAssumption DEF Publish
  <2> QED
    BY <2>1, <2>2, <2>3, <2>4
<1>5. ClaimsAreExclusive'
  BY <1>1, <1>3 DEF ClaimsAreExclusive
<1>6. AttemptLedger'
  BY <1>1, <1>2 DEF AttemptLedger
<1>7. PassesAreTruthful'
  BY <1>1 DEF PassesAreTruthful, Todo
<1> QED
  BY <1>4, <1>5, <1>6, <1>7

\* A pass claims only rows that are committed, unsettled and free, with the
\* attempts they have at that moment.
LEMMA ClaimStep ==
  ASSUME Inv, NEW r \in Relay, Claim(r)
  PROVE  /\ EventsFollowTheirTransaction'
         /\ ClaimsAreExclusive'
         /\ AttemptLedger'
         /\ PassesAreTruthful'
<1> USE DEF Inv, TypeOK
<1>1. UNCHANGED <<txn, row, owner, attempts, cur, step, outcome, completed, failed>>
  BY DEF Claim, publishVars, historyVars
<1>2. PICK B \in OldestOf(Claimable) :
        /\ batch' = [batch EXCEPT ![r] = B]
        /\ seen' = [seen EXCEPT ![r] =
                      [e \in Event |-> IF e \in B THEN attempts[e] ELSE 0]]
  BY DEF Claim
<1>3. \A e \in B : e \in Event /\ row[e] = "ready" /\ \A q \in Relay : e \notin batch[q]
  BY DEF OldestOf, Claimable, Locked
<1>4. batch[r] = {}
  BY DEF Claim
<1>5. EventsFollowTheirTransaction'
  BY <1>1 DEF EventsFollowTheirTransaction, Published
<1>6. ClaimsAreExclusive'
  BY <1>1, <1>2, <1>3 DEF ClaimsAreExclusive
<1>7. AttemptLedger'
  BY <1>1 DEF AttemptLedger
<1>8. PassesAreTruthful'
  <2>1. \A q \in Relay : batch[q] \subseteq batch'[q]
    BY <1>2, <1>4
  <2> QED
    BY <1>1, <2>1 DEF PassesAreTruthful, Todo
<1> QED
  BY <1>5, <1>6, <1>7, <1>8

\* The loop of a pass only chooses the row to dispatch next.
LEMMA NextRowStep ==
  ASSUME Inv, NEW r \in Relay, NextRow(r)
  PROVE  /\ EventsFollowTheirTransaction'
         /\ ClaimsAreExclusive'
         /\ AttemptLedger'
         /\ PassesAreTruthful'
<1> USE DEF Inv, TypeOK
<1>1. UNCHANGED <<txn, row, owner, attempts, batch, seen, step, outcome, completed, failed>>
  BY DEF NextRow, publishVars, historyVars
<1>2. PICK e \in Todo(r) : cur' = [cur EXCEPT ![r] = e]
  BY DEF NextRow
<1>3. cur[r] = NoRow /\ step[r] = 0
  BY DEF NextRow, PassesAreTruthful
<1>4. EventsFollowTheirTransaction'
  BY <1>1 DEF EventsFollowTheirTransaction, Published
<1>5. ClaimsAreExclusive'
  BY <1>1 DEF ClaimsAreExclusive
<1>6. AttemptLedger'
  BY <1>1 DEF AttemptLedger
<1>7. PassesAreTruthful'
  BY <1>1, <1>2, <1>3 DEF PassesAreTruthful, Todo
<1> QED
  BY <1>4, <1>5, <1>6, <1>7

\* A handler that completes does so for a row of the pass, which is committed.
LEMMA HandlerOkStep ==
  ASSUME Inv, NEW r \in Relay, HandlerOk(r)
  PROVE  /\ EventsFollowTheirTransaction'
         /\ ClaimsAreExclusive'
         /\ AttemptLedger'
         /\ PassesAreTruthful'
<1> USE DEF Inv, TypeOK
<1> DEFINE c == cur[r]
           k == step[r] + 1
<1>1. UNCHANGED <<txn, row, owner, attempts, batch, seen, cur, outcome, failed>>
  BY DEF HandlerOk, publishVars
<1>2. c \in batch[r] /\ c \in Event /\ k \in Handler /\ row[c] = "ready"
  BY ConstantsAssumption
     DEF HandlerOk, PassesAreTruthful, ClaimsAreExclusive, Todo, Handler
<1>3. completed' = [completed EXCEPT ![c][k] = @ + 1]
  BY DEF HandlerOk
<1>4. \A e \in Event, h \in Handler :
        /\ completed'[e][h] \in Nat
        /\ completed'[e][h] >= completed[e][h]
        /\ e # c => completed'[e][h] = completed[e][h]
  BY <1>2, <1>3
<1>5. completed'[c][k] > 0
  BY <1>2, <1>3
<1>6. EventsFollowTheirTransaction'
  BY <1>1, <1>2, <1>4 DEF EventsFollowTheirTransaction, Published
<1>7. ClaimsAreExclusive'
  BY <1>1 DEF ClaimsAreExclusive
<1>8. AttemptLedger'
  BY <1>1 DEF AttemptLedger
<1>9. PassesAreTruthful'
  <2> SUFFICES ASSUME NEW q \in Relay
               PROVE  /\ cur'[q] = NoRow => step'[q] = 0
                      /\ cur'[q] # NoRow =>
                           /\ cur'[q] \in Todo(q)'
                           /\ \A h \in 1..step'[q] : completed'[cur'[q]][h] > 0
                      /\ \A e \in Event :
                           /\ outcome'[q][e] # "none" => e \in batch'[q]
                           /\ outcome'[q][e] = "processed" =>
                                \A h \in Handler : completed'[e][h] > 0
                           /\ outcome'[q][e] \in {"retry", "dead"} =>
                                attempts'[e] < failed'[e]
                           /\ outcome'[q][e] = "retry" => attempts'[e] + 1 < MaxAttempts
                           /\ outcome'[q][e] = "dead" => attempts'[e] + 1 = MaxAttempts
    BY DEF PassesAreTruthful
  <2>1. \A e \in Event : outcome'[q][e] = "processed" =>
                            \A h \in Handler : completed'[e][h] > 0
    BY <1>1, <1>4 DEF PassesAreTruthful
  <2>2. cur'[q] # NoRow => \A h \in 1..step'[q] : completed'[cur'[q]][h] > 0
    <3> SUFFICES ASSUME cur[q] # NoRow, NEW h \in 1..step'[q]
                 PROVE  completed'[cur[q]][h] > 0
      BY <1>1
    <3>0. step'[q] = IF q = r THEN k ELSE step[q]
      BY DEF HandlerOk
    <3>1. cur[q] \in Event /\ h \in Handler
      <4>1. step'[q] \in 0..NumHandlers
        BY <3>0, <1>2, ConstantsAssumption DEF Handler
      <4> QED
        BY <4>1, ConstantsAssumption DEF Handler
    <3>2. CASE h <= step[q]
      <4>1. h \in 1..step[q]
        BY <3>1, <3>2 DEF Handler
      <4> QED
        BY <4>1, <3>1, <1>4 DEF PassesAreTruthful
    <3>3. CASE h > step[q]
      <4>1. q = r /\ h = k
        BY <3>0, <3>1, <3>3, ConstantsAssumption DEF Handler
      <4> QED
        BY <4>1, <1>1, <1>5
    <3> QED
      BY <3>1, <3>2, <3>3 DEF Handler
  <2>3. cur'[q] = NoRow => step'[q] = 0
    BY <1>1 DEF HandlerOk, PassesAreTruthful
  <2> QED
    BY <1>1, <2>1, <2>2, <2>3 DEF PassesAreTruthful, Todo
<1> QED
  BY <1>6, <1>7, <1>8, <1>9

\* What a pass records for a row whose dispatch failed is a retry below the
\* threshold and the dead letter at it.
LEMMA HandlerFailsStep ==
  ASSUME Inv, NEW r \in Relay, HandlerFails(r)
  PROVE  /\ EventsFollowTheirTransaction'
         /\ ClaimsAreExclusive'
         /\ AttemptLedger'
         /\ PassesAreTruthful'
<1> USE DEF Inv, TypeOK
<1> DEFINE c == cur[r]
           o == FailureOutcome(r)
<1>1. UNCHANGED <<txn, row, owner, attempts, batch, seen, completed>>
  BY DEF HandlerFails, publishVars
<1>2. /\ outcome' = [outcome EXCEPT ![r][c] = o]
      /\ cur' = [cur EXCEPT ![r] = NoRow]
      /\ step' = [step EXCEPT ![r] = 0]
      /\ failed' = [failed EXCEPT ![c] = @ + 1]
  BY DEF HandlerFails, Record
<1>3. c \in batch[r] /\ c \in Event /\ row[c] = "ready" /\ seen[r][c] = attempts[c]
  BY DEF HandlerFails, PassesAreTruthful, ClaimsAreExclusive, Todo
<1>4. attempts[c] + 1 <= MaxAttempts
  <2>1. attempts[c] <= MaxAttempts /\ attempts[c] # MaxAttempts
    BY <1>3 DEF AttemptLedger
  <2>2. attempts[c] \in Nat /\ MaxAttempts \in Nat
    BY <1>3, ConstantsAssumption
  <2>3. \A m, n \in Nat : m <= n /\ m # n => m + 1 <= n
    OBVIOUS
  <2> QED
    BY <2>1, <2>2, <2>3
<1>5. /\ o \in {"retry", "dead"}
      /\ o = "retry" => attempts[c] + 1 < MaxAttempts
      /\ o = "dead" => attempts[c] + 1 = MaxAttempts
  BY <1>3, <1>4, ConstantsAssumption DEF FailureOutcome
<1>6. \A e \in Event : /\ failed'[e] \in Nat
                       /\ failed'[e] >= failed[e]
                       /\ e # c => failed'[e] = failed[e]
  BY <1>2, <1>3
<1>7. attempts[c] < failed'[c]
  BY <1>2, <1>3 DEF AttemptLedger
<1>8. EventsFollowTheirTransaction'
  BY <1>1, <1>3, <1>6 DEF EventsFollowTheirTransaction, Published
<1>9. ClaimsAreExclusive'
  BY <1>1 DEF ClaimsAreExclusive
<1>10. AttemptLedger'
  BY <1>1, <1>6 DEF AttemptLedger
<1>11. PassesAreTruthful'
  <2>1. \A q \in Relay, e \in Event :
          outcome'[q][e] = IF q = r /\ e = c THEN o ELSE outcome[q][e]
    BY <1>2, <1>3
  <2>2. \A q \in Relay : q # r => cur'[q] = cur[q] /\ step'[q] = step[q]
    BY <1>2
  <2>3. cur'[r] = NoRow /\ step'[r] = 0
    BY <1>2
  <2>4. \A q \in Relay, e \in Event :
          /\ outcome'[q][e] # "none" => e \in batch'[q]
          /\ outcome'[q][e] = "processed" => \A h \in Handler : completed'[e][h] > 0
          /\ outcome'[q][e] \in {"retry", "dead"} => attempts'[e] < failed'[e]
          /\ outcome'[q][e] = "retry" => attempts'[e] + 1 < MaxAttempts
          /\ outcome'[q][e] = "dead" => attempts'[e] + 1 = MaxAttempts
    BY <2>1, <1>1, <1>3, <1>5, <1>6, <1>7 DEF PassesAreTruthful
  <2>5. \A q \in Relay : cur'[q] # NoRow =>
          /\ cur'[q] \in Todo(q)'
          /\ \A h \in 1..step'[q] : completed'[cur'[q]][h] > 0
    BY <2>1, <2>2, <2>3, <1>1 DEF PassesAreTruthful, Todo
  <2> QED
    BY <2>2, <2>3, <2>4, <2>5 DEF PassesAreTruthful
<1> QED
  BY <1>8, <1>9, <1>10, <1>11

\* A row is marked processed only when all its handlers have completed.
LEMMA MarkProcessedStep ==
  ASSUME Inv, NEW r \in Relay, MarkProcessed(r)
  PROVE  /\ EventsFollowTheirTransaction'
         /\ ClaimsAreExclusive'
         /\ AttemptLedger'
         /\ PassesAreTruthful'
<1> USE DEF Inv, TypeOK
<1> DEFINE c == cur[r]
<1>1. UNCHANGED <<txn, row, owner, attempts, batch, seen, completed, failed>>
  BY DEF MarkProcessed, publishVars, historyVars
<1>2. /\ outcome' = [outcome EXCEPT ![r][c] = "processed"]
      /\ cur' = [cur EXCEPT ![r] = NoRow]
      /\ step' = [step EXCEPT ![r] = 0]
  BY DEF MarkProcessed, Record
<1>3. c \in batch[r] /\ c \in Event /\ \A h \in Handler : completed[c][h] > 0
  BY DEF MarkProcessed, PassesAreTruthful, Todo, Handler
<1>4. EventsFollowTheirTransaction'
  BY <1>1 DEF EventsFollowTheirTransaction, Published
<1>5. ClaimsAreExclusive'
  BY <1>1 DEF ClaimsAreExclusive
<1>6. AttemptLedger'
  BY <1>1 DEF AttemptLedger
<1>7. PassesAreTruthful'
  <2>1. \A q \in Relay, e \in Event :
          outcome'[q][e] = IF q = r /\ e = c THEN "processed" ELSE outcome[q][e]
    BY <1>2, <1>3
  <2>2. \A q \in Relay : q # r => cur'[q] = cur[q] /\ step'[q] = step[q]
    BY <1>2
  <2>3. cur'[r] = NoRow /\ step'[r] = 0
    BY <1>2
  <2>4. \A q \in Relay, e \in Event :
          /\ outcome'[q][e] # "none" => e \in batch'[q]
          /\ outcome'[q][e] = "processed" => \A h \in Handler : completed'[e][h] > 0
          /\ outcome'[q][e] \in {"retry", "dead"} => attempts'[e] < failed'[e]
          /\ outcome'[q][e] = "retry" => attempts'[e] + 1 < MaxAttempts
          /\ outcome'[q][e] = "dead" => attempts'[e] + 1 = MaxAttempts
    <3> SUFFICES ASSUME NEW q \in Relay, NEW e \in Event
                 PROVE  /\ outcome'[q][e] # "none" => e \in batch[q]
                        /\ outcome'[q][e] = "processed" =>
                             \A h \in Handler : completed[e][h] > 0
                        /\ outcome'[q][e] \in {"retry", "dead"} => attempts[e] < failed[e]
                        /\ outcome'[q][e] = "retry" => attempts[e] + 1 < MaxAttempts
                        /\ outcome'[q][e] = "dead" => attempts[e] + 1 = MaxAttempts
      BY <1>1
    <3>1. CASE q = r /\ e = c
      BY <3>1, <2>1, <1>3
    <3>2. CASE ~(q = r /\ e = c)
      <4>1. outcome'[q][e] = outcome[q][e]
        BY <3>2, <2>1
      <4> QED
        BY <4>1 DEF PassesAreTruthful
    <3> QED
      BY <3>1, <3>2
  <2>5. \A q \in Relay : cur'[q] # NoRow =>
          /\ cur'[q] \in Todo(q)'
          /\ \A h \in 1..step'[q] : completed'[cur'[q]][h] > 0
    BY <2>1, <2>2, <2>3, <1>1 DEF PassesAreTruthful, Todo
  <2> QED
    BY <2>2, <2>3, <2>4, <2>5 DEF PassesAreTruthful
<1> QED
  BY <1>4, <1>5, <1>6, <1>7

\* A pass that ends leaves nothing behind in the worker.
LEMMA EndPassClears ==
  ASSUME TypeOK, NEW r \in Relay, EndPass(r)
  PROVE  \A q \in Relay :
           /\ q # r => UNCHANGED <<batch[q], seen[q], cur[q], step[q], outcome[q]>>
           /\ q = r => /\ batch'[q] = {} /\ cur'[q] = NoRow /\ step'[q] = 0
                       /\ \A e \in Event : outcome'[q][e] = "none"
BY DEF TypeOK, EndPass

\* What a pass commits concerns only rows it held, and says what happened to them.
LEMMA CommitPassStep ==
  ASSUME Inv, NEW r \in Relay, CommitPass(r)
  PROVE  /\ EventsFollowTheirTransaction'
         /\ ClaimsAreExclusive'
         /\ AttemptLedger'
         /\ PassesAreTruthful'
<1> USE DEF Inv, TypeOK
<1>1. UNCHANGED <<txn, owner, completed, failed>>
  BY DEF CommitPass, publishVars, historyVars
<1>2. EndPass(r)
  BY DEF CommitPass
<1>3. \A e \in Event : e \in batch[r] => outcome[r][e] # "none" /\ row[e] = "ready"
  BY DEF CommitPass, Todo, ClaimsAreExclusive
<1>4. \A e \in Event :
        /\ row'[e] = IF e \in batch[r] /\ outcome[r][e] \in {"processed", "dead"}
                     THEN outcome[r][e] ELSE row[e]
        /\ attempts'[e] = IF e \in batch[r] /\ outcome[r][e] \in {"retry", "dead"}
                          THEN attempts[e] + 1 ELSE attempts[e]
  BY DEF CommitPass
<1>5. \A q \in Relay : q # r => batch[q] \cap batch[r] = {}
  BY DEF ClaimsAreExclusive
<1>6. \A q \in Relay : q # r => \A e \in batch[q] :
        e \in Event /\ row'[e] = row[e] /\ attempts'[e] = attempts[e]
  BY <1>4, <1>5
<1>7. EventsFollowTheirTransaction'
  <2>1. ASSUME NEW e \in Event
        PROVE  row'[e] = row[e] \/ (row[e] = "ready" /\ row'[e] \in Published)
    <3>1. CASE e \in batch[r] /\ outcome[r][e] \in {"processed", "dead"}
      BY <3>1, <1>3, <1>4 DEF Published
    <3>2. CASE ~(e \in batch[r] /\ outcome[r][e] \in {"processed", "dead"})
      BY <3>2, <1>4
    <3> QED
      BY <3>1, <3>2
  <2> QED
    BY <2>1, <1>1 DEF EventsFollowTheirTransaction, Published
<1>8. ClaimsAreExclusive'
  <2>1. \A q \in Relay : batch'[q] # {} =>
          q # r /\ batch'[q] = batch[q] /\ seen'[q] = seen[q]
    BY <1>2, EndPassClears
  <2>2. \A p, q \in Relay : p # q => batch'[p] \cap batch'[q] = {}
    BY <2>1 DEF ClaimsAreExclusive
  <2>3. \A q \in Relay : \A e \in batch'[q] : row'[e] = "ready" /\ seen'[q][e] = attempts'[e]
    <3> SUFFICES ASSUME NEW q \in Relay, NEW e \in batch'[q]
                 PROVE  row'[e] = "ready" /\ seen'[q][e] = attempts'[e]
      OBVIOUS
    <3>1. q # r /\ e \in batch[q] /\ seen'[q] = seen[q]
      BY <2>1
    <3> QED
      BY <3>1, <1>6 DEF ClaimsAreExclusive
  <2> QED
    BY <2>2, <2>3 DEF ClaimsAreExclusive
<1>9. AttemptLedger'
  <2> SUFFICES ASSUME NEW e \in Event
               PROVE  /\ attempts'[e] <= failed'[e]
                      /\ attempts'[e] <= MaxAttempts
                      /\ (row'[e] = "dead") <=> (attempts'[e] = MaxAttempts)
    BY DEF AttemptLedger
  <2>1. CASE e \notin batch[r]
    BY <2>1, <1>1, <1>4 DEF AttemptLedger
  <2>2. CASE e \in batch[r]
    <3>1. outcome[r][e] \in {"processed", "retry", "dead"}
      BY <2>2, <1>3 DEF Outcome
    <3> QED
      BY <3>1, <2>2, <1>1, <1>3, <1>4, ConstantsAssumption
         DEF AttemptLedger, PassesAreTruthful
  <2> QED
    BY <2>1, <2>2
<1>10. PassesAreTruthful'
  <2>1. \A q \in Relay : q # r => \A e \in Event :
          outcome[q][e] # "none" => attempts'[e] = attempts[e]
    BY <1>6 DEF PassesAreTruthful
  <2> QED
    BY <2>1, <1>1, <1>2, EndPassClears DEF PassesAreTruthful, Todo
<1> QED
  BY <1>7, <1>8, <1>9, <1>10

\* A pass that rolls back leaves the table as it was.
LEMMA AbortPassStep ==
  ASSUME Inv, NEW r \in Relay, AbortPass(r)
  PROVE  /\ EventsFollowTheirTransaction'
         /\ ClaimsAreExclusive'
         /\ AttemptLedger'
         /\ PassesAreTruthful'
<1> USE DEF Inv
<1>1. UNCHANGED <<txn, row, owner, attempts, completed, failed>> /\ EndPass(r)
  BY DEF AbortPass, publishVars
<1>2. EventsFollowTheirTransaction'
  BY <1>1 DEF EventsFollowTheirTransaction, Published
<1>3. ClaimsAreExclusive'
  BY <1>1, EndPassClears DEF ClaimsAreExclusive
<1>4. AttemptLedger'
  BY <1>1 DEF AttemptLedger
<1>5. PassesAreTruthful'
  BY <1>1, EndPassClears DEF PassesAreTruthful, Todo
<1> QED
  BY <1>2, <1>3, <1>4, <1>5

\* Inv is inductive.
LEMMA InvStep == Inv /\ [Next]_vars => Inv'
<1> SUFFICES ASSUME Inv, [Next]_vars
             PROVE  Inv'
  OBVIOUS
<1>1. TypeOK'
  BY TypeStep DEF Inv
<1>2. CASE UNCHANGED vars
  BY <1>1, <1>2 DEF Inv, EventsFollowTheirTransaction, Published, ClaimsAreExclusive,
     AttemptLedger, PassesAreTruthful, Todo, vars, publishVars, passVars, historyVars
<1>3. CASE Next
  BY <1>1, <1>3, PublishingStep, ClaimStep, NextRowStep, HandlerOkStep, HandlerFailsStep,
     MarkProcessedStep, CommitPassStep, AbortPassStep DEF Inv, Next, Drain
<1> QED
  BY <1>2, <1>3

\* The inductive invariant holds in every reachable state.
THEOREM InvAlways == Spec => []Inv
<1>1. Init => Inv
  <2>1. Init => TypeOK
    BY ConstantsAssumption DEF TypeOK, Init, Handler, RowState, Outcome
  <2> QED
    BY <2>1, ConstantsAssumption
       DEF Init, Inv, EventsFollowTheirTransaction, Published, ClaimsAreExclusive,
           AttemptLedger, PassesAreTruthful, Todo
<1> QED
  BY <1>1, InvStep, PTL DEF Spec

\* Events are published atomically with their unit of work, and no handler runs
\* for an event whose unit of work has not committed.
THEOREM PublishingIsAtomic == Spec => []EventsFollowTheirTransaction
BY InvAlways, PTL DEF Inv

\* No two relay passes ever dispatch the same row at the same time.
THEOREM ClaimsExclusive == Spec => []ClaimsAreExclusive
BY InvAlways, PTL DEF Inv

\* A row is dead-lettered exactly when its recorded attempts reach the threshold.
THEOREM DeadLetterAtThreshold == Spec => []AttemptLedger
BY InvAlways, PTL DEF Inv

-------------------------------------------------------------------------------
(* Redeliveries: RunsAccounted on top of Inv.                               *)

\* A step that completes and fails nothing, and forgets no run of a handler.
LEMMA AccountKept ==
  ASSUME TypeOK, TypeOK', RunsAccounted, UNCHANGED <<completed, failed>>,
         rollbacks' >= rollbacks,
         \A e \in Event, h \in Handler : HasRun(e, h) => HasRun(e, h)'
  PROVE  RunsAccounted'
<1> SUFFICES ASSUME NEW e \in Event, NEW h \in Handler
             PROVE  LET last == IF HasRun(e, h)' THEN 1 ELSE 0 IN
                    /\ completed'[e][h] <= last + rollbacks' + failed'[e]
                    /\ h = NumHandlers => completed'[e][h] <= last + rollbacks'
  BY DEF RunsAccounted
<1>1. /\ completed[e][h] \in Nat /\ failed[e] \in Nat
      /\ rollbacks \in Nat /\ rollbacks' \in Nat
  BY DEF TypeOK
<1>2. LET last == IF HasRun(e, h) THEN 1 ELSE 0 IN
      /\ completed[e][h] <= last + rollbacks + failed[e]
      /\ h = NumHandlers => completed[e][h] <= last + rollbacks
  BY DEF RunsAccounted
<1>3. HasRun(e, h) => HasRun(e, h)'
  OBVIOUS
<1> QED
  BY <1>1, <1>2, <1>3

\* What a pass is dispatching has run no handler but those of this dispatch.
LEMMA DispatchIsFresh ==
  ASSUME Inv, NEW r \in Relay, cur[r] # NoRow
  PROVE  /\ cur[r] \in Event
         /\ \A h \in Handler : HasRun(cur[r], h) => h <= step[r]
<1> USE DEF Inv
<1>1. cur[r] \in batch[r] /\ cur[r] \in Event /\ outcome[r][cur[r]] = "none"
  BY DEF PassesAreTruthful, Todo, TypeOK
<1>2. row[cur[r]] = "ready"
  BY <1>1 DEF ClaimsAreExclusive
<1>3. ASSUME NEW q \in Relay, q # r
      PROVE  outcome[q][cur[r]] # "processed" /\ cur[q] # cur[r]
  <2>1. cur[r] \notin batch[q]
    BY <1>1, <1>3 DEF ClaimsAreExclusive
  <2> QED
    BY <2>1, <1>1 DEF PassesAreTruthful, Todo
<1> QED
  BY <1>1, <1>2, <1>3 DEF HasRun

LEMMA AccountHandlerOk ==
  ASSUME Inv, TypeOK', RunsAccounted, NEW r \in Relay, HandlerOk(r)
  PROVE  RunsAccounted'
<1>1. PICK c \in Event, k \in Handler : c = cur[r] /\ k = step[r] + 1 /\ step[r] \in Nat
  BY DispatchIsFresh, ConstantsAssumption DEF HandlerOk, Handler, Inv, TypeOK
<1>2. ~HasRun(c, k)
  BY <1>1, DispatchIsFresh DEF HandlerOk
<1>3. /\ completed' = [completed EXCEPT ![c][k] = @ + 1]
      /\ step' = [step EXCEPT ![r] = k]
      /\ UNCHANGED <<row, cur, outcome, failed, rollbacks>>
  BY <1>1 DEF HandlerOk
<1>4. HasRun(c, k)'
  <2>1. step'[r] = k /\ cur'[r] = c /\ k <= k
    BY <1>1, <1>3, ConstantsAssumption DEF Inv, TypeOK, Handler
  <2> QED
    BY <2>1, <1>1 DEF HasRun
<1>5. \A e \in Event, h \in Handler : HasRun(e, h) => HasRun(e, h)'
  <2>1. \A q \in Relay, h \in Handler : h <= step[q] => h <= step'[q]
    BY <1>1, <1>3 DEF Inv, TypeOK, Handler
  <2> QED
    BY <2>1, <1>3 DEF HasRun
<1> SUFFICES ASSUME NEW e \in Event, NEW h \in Handler
             PROVE  LET last == IF HasRun(e, h)' THEN 1 ELSE 0 IN
                    /\ completed'[e][h] <= last + rollbacks' + failed'[e]
                    /\ h = NumHandlers => completed'[e][h] <= last + rollbacks'
  BY DEF RunsAccounted
<1>6. completed[e][h] \in Nat /\ failed[e] \in Nat /\ rollbacks \in Nat
  BY DEF Inv, TypeOK
<1>7. LET last == IF HasRun(e, h) THEN 1 ELSE 0 IN
      /\ completed[e][h] <= last + rollbacks + failed[e]
      /\ h = NumHandlers => completed[e][h] <= last + rollbacks
  BY DEF RunsAccounted
<1>8. CASE e = c /\ h = k
  <2>1. completed'[e][h] = completed[e][h] + 1
    BY <1>1, <1>3, <1>8 DEF Inv, TypeOK
  <2>2. ~HasRun(e, h) /\ HasRun(e, h)'
    BY <1>2, <1>4, <1>8, <1>3
  <2> QED
    BY <2>1, <2>2, <1>3, <1>6, <1>7
<1>9. CASE ~(e = c /\ h = k)
  <2>1. completed'[e][h] = completed[e][h]
    BY <1>1, <1>3, <1>9 DEF Inv, TypeOK
  <2>2. HasRun(e, h) => HasRun(e, h)'
    BY <1>5
  <2> QED
    BY <2>1, <2>2, <1>3, <1>6, <1>7
<1> QED
  BY <1>8, <1>9

\* The last handler has not run in a dispatch that fails, and what the others did is
\* put down to the failure.
LEMMA AccountHandlerFails ==
  ASSUME Inv, TypeOK', RunsAccounted, NEW r \in Relay, HandlerFails(r)
  PROVE  RunsAccounted'
<1> DEFINE c == cur[r]
<1>1. NumHandlers \in Handler => ~HasRun(c, NumHandlers)
  <2>1. step[r] \in Nat /\ step[r] < NumHandlers /\ cur[r] # NoRow
    BY ConstantsAssumption DEF HandlerFails, Inv, TypeOK
  <2>2. ~(NumHandlers <= step[r])
    BY <2>1, ConstantsAssumption
  <2> QED
    BY <2>1, <2>2, DispatchIsFresh
<1>2. c \in Event
  BY DispatchIsFresh DEF HandlerFails
<1>3. /\ failed' = [failed EXCEPT ![c] = @ + 1]
      /\ outcome' = [outcome EXCEPT ![r][c] = FailureOutcome(r)]
      /\ cur' = [cur EXCEPT ![r] = NoRow]
      /\ step' = [step EXCEPT ![r] = 0]
      /\ UNCHANGED <<row, completed, rollbacks>>
  BY DEF HandlerFails, Record
<1>4. \A e \in Event, h \in Handler : (e # c /\ HasRun(e, h)) => HasRun(e, h)'
  <2>1. \A q \in Relay, e \in Event : e # c => outcome'[q][e] = outcome[q][e]
    BY <1>3 DEF Inv, TypeOK
  <2>2. \A q \in Relay : q # r => cur'[q] = cur[q] /\ step'[q] = step[q]
    BY <1>3
  <2> QED
    BY <2>1, <2>2, <1>3 DEF HasRun
<1> SUFFICES ASSUME NEW e \in Event, NEW h \in Handler
             PROVE  LET last == IF HasRun(e, h)' THEN 1 ELSE 0 IN
                    /\ completed'[e][h] <= last + rollbacks' + failed'[e]
                    /\ h = NumHandlers => completed'[e][h] <= last + rollbacks'
  BY DEF RunsAccounted
<1>5. completed[e][h] \in Nat /\ failed[e] \in Nat /\ rollbacks \in Nat
  BY DEF Inv, TypeOK
<1>6. LET last == IF HasRun(e, h) THEN 1 ELSE 0 IN
      /\ completed[e][h] <= last + rollbacks + failed[e]
      /\ h = NumHandlers => completed[e][h] <= last + rollbacks
  BY DEF RunsAccounted
<1>7. CASE e = c
  <2>1. failed'[e] = failed[e] + 1
    BY <1>2, <1>3, <1>7 DEF Inv, TypeOK
  <2>2. h = NumHandlers => ~HasRun(e, h)
    BY <1>1, <1>7
  <2> QED
    BY <2>1, <2>2, <1>3, <1>5, <1>6
<1>8. CASE e # c
  <2>1. failed'[e] = failed[e]
    BY <1>3, <1>8
  <2>2. HasRun(e, h) => HasRun(e, h)'
    BY <1>4, <1>8
  <2> QED
    BY <2>1, <2>2, <1>3, <1>5, <1>6
<1> QED
  BY <1>7, <1>8

\* What ran in the pass is put down to its rollback.
LEMMA AccountAbortPass ==
  ASSUME Inv, TypeOK', RunsAccounted, NEW r \in Relay, AbortPass(r)
  PROVE  RunsAccounted'
<1> SUFFICES ASSUME NEW e \in Event, NEW h \in Handler
             PROVE  LET last == IF HasRun(e, h)' THEN 1 ELSE 0 IN
                    /\ completed'[e][h] <= last + rollbacks' + failed'[e]
                    /\ h = NumHandlers => completed'[e][h] <= last + rollbacks'
  BY DEF RunsAccounted
<1>1. completed[e][h] \in Nat /\ failed[e] \in Nat /\ rollbacks \in Nat
  BY DEF Inv, TypeOK
<1>2. LET last == IF HasRun(e, h) THEN 1 ELSE 0 IN
      /\ completed[e][h] <= last + rollbacks + failed[e]
      /\ h = NumHandlers => completed[e][h] <= last + rollbacks
  BY DEF RunsAccounted
<1>3. rollbacks' = rollbacks + 1 /\ UNCHANGED <<completed, failed>>
  BY DEF AbortPass
<1> QED
  BY <1>1, <1>2, <1>3

\* What a pass commits as processed stays known as run.
LEMMA AccountCommitPass ==
  ASSUME Inv, TypeOK', RunsAccounted, NEW r \in Relay, CommitPass(r)
  PROVE  RunsAccounted'
<1> USE DEF Inv, TypeOK
<1>1. EndPass(r) /\ cur[r] = NoRow /\ UNCHANGED <<completed, failed, rollbacks>>
  BY DEF CommitPass, historyVars
<1>2. \A e \in Event :
        row'[e] = IF e \in batch[r] /\ outcome[r][e] \in {"processed", "dead"}
                  THEN outcome[r][e] ELSE row[e]
  BY DEF CommitPass
<1>3. ASSUME NEW e \in Event, NEW h \in Handler, HasRun(e, h)
      PROVE  HasRun(e, h)'
  <2>1. CASE row[e] = "processed"
    <3>1. e \notin batch[r]
      BY <2>1 DEF ClaimsAreExclusive
    <3> QED
      BY <2>1, <3>1, <1>2 DEF HasRun
  <2>2. ASSUME NEW q \in Relay,
               outcome[q][e] = "processed" \/ (cur[q] = e /\ h <= step[q])
        PROVE  HasRun(e, h)'
    <3>1. CASE q = r
      <4>1. outcome[r][e] = "processed" /\ e \in batch[r]
        BY <2>2, <3>1, <1>1, ConstantsAssumption DEF PassesAreTruthful
      <4> QED
        BY <4>1, <1>2 DEF HasRun
    <3>2. CASE q # r
      BY <2>2, <3>2, <1>1, EndPassClears DEF HasRun
    <3> QED
      BY <3>1, <3>2
  <2>3. \/ row[e] = "processed"
        \/ \E q \in Relay : outcome[q][e] = "processed" \/ (cur[q] = e /\ h <= step[q])
    BY <1>3 DEF HasRun
  <2> HIDE DEF HasRun
  <2> QED
    BY <2>1, <2>2, <2>3
<1> QED
  BY <1>1, <1>3, AccountKept

LEMMA AccountStep == Inv /\ TypeOK' /\ RunsAccounted /\ [Next]_vars => RunsAccounted'
<1> SUFFICES ASSUME Inv, TypeOK', RunsAccounted, [Next]_vars
             PROVE  RunsAccounted'
  OBVIOUS
<1>0. TypeOK /\ rollbacks \in Nat
  BY DEF Inv, TypeOK
<1>1. ASSUME NEW t \in Tx,
             Begin(t) \/ Commit(t) \/ Rollback(t) \/ \E e \in Event : Publish(t, e)
      PROVE  RunsAccounted'
  <2>1. UNCHANGED <<cur, step, outcome, completed, failed, rollbacks>>
    BY <1>1 DEF Begin, Commit, Rollback, Publish, passVars, historyVars
  <2>2. \A e \in Event : row[e] = "processed" => row'[e] = "processed"
    BY <1>1, <1>0 DEF Begin, Commit, Rollback, Publish, Inserted, TypeOK
  <2>3. \A e \in Event, h \in Handler : HasRun(e, h) => HasRun(e, h)'
    BY <2>1, <2>2 DEF HasRun
  <2> QED
    BY <2>1, <2>3, <1>0, AccountKept
<1>2. ASSUME NEW r \in Relay, Claim(r)
      PROVE  RunsAccounted'
  <2>1. UNCHANGED <<row, cur, step, outcome, completed, failed, rollbacks>>
    BY <1>2 DEF Claim, historyVars
  <2> QED
    BY <2>1, <1>0, AccountKept DEF HasRun
<1>3. ASSUME NEW r \in Relay, NextRow(r)
      PROVE  RunsAccounted'
  <2>1. cur[r] = NoRow /\ UNCHANGED <<row, step, outcome, completed, failed, rollbacks>>
    BY <1>3 DEF NextRow, historyVars
  <2>2. \A q \in Relay : q # r => cur'[q] = cur[q]
    BY <1>3, <1>0 DEF NextRow, TypeOK
  <2>3. \A e \in Event, h \in Handler : HasRun(e, h) => HasRun(e, h)'
    BY <2>1, <2>2, ConstantsAssumption DEF HasRun
  <2> QED
    BY <2>1, <2>3, <1>0, AccountKept
<1>4. ASSUME NEW r \in Relay, MarkProcessed(r)
      PROVE  RunsAccounted'
  <2>1. /\ outcome' = [outcome EXCEPT ![r][cur[r]] = "processed"]
        /\ cur' = [cur EXCEPT ![r] = NoRow]
        /\ step' = [step EXCEPT ![r] = 0]
        /\ UNCHANGED <<row, completed, failed, rollbacks>>
    BY <1>4 DEF MarkProcessed, Record, historyVars
  <2>2. cur[r] \in Event
    BY <1>4, DispatchIsFresh DEF MarkProcessed
  <2>3. \A q \in Relay, e \in Event : outcome[q][e] = "processed" => outcome'[q][e] = "processed"
    BY <2>1, <2>2, <1>0 DEF TypeOK
  <2>4. outcome'[r][cur[r]] = "processed"
    BY <2>1, <2>2, <1>0 DEF TypeOK
  <2>5. \A q \in Relay : q # r => cur'[q] = cur[q] /\ step'[q] = step[q]
    BY <2>1
  <2>6. \A e \in Event, h \in Handler : HasRun(e, h) => HasRun(e, h)'
    BY <2>1, <2>3, <2>4, <2>5 DEF HasRun
  <2> QED
    BY <2>1, <2>6, <1>0, AccountKept
<1>5. CASE UNCHANGED vars
  <2>1. UNCHANGED <<row, cur, step, outcome, completed, failed, rollbacks>>
    BY <1>5 DEF vars, passVars, historyVars
  <2> QED
    BY <2>1, <1>0, AccountKept DEF HasRun
<1> QED
  BY <1>1, <1>2, <1>3, <1>4, <1>5, AccountHandlerOk, AccountHandlerFails, AccountCommitPass,
     AccountAbortPass DEF Next, Drain

\* A handler runs again only after a dispatch of the event failed or a pass rolled
\* back, and the last handler of an event only after a pass rolled back.
THEOREM RedeliveryHasACause == Spec => []RedeliveryNeedsACause
<1>1. Init => RunsAccounted
  BY DEF Init, RunsAccounted, Handler
<1>2. Inv /\ Inv' /\ RunsAccounted /\ [Next]_vars => RunsAccounted'
  BY AccountStep DEF Inv
<1>3. Inv /\ RunsAccounted => RedeliveryNeedsACause
  <2> SUFFICES ASSUME Inv, RunsAccounted, NEW e \in Event, NEW h \in Handler
               PROVE  /\ completed[e][h] <= 1 + rollbacks + failed[e]
                      /\ h = NumHandlers => completed[e][h] <= 1 + rollbacks
    BY DEF RedeliveryNeedsACause
  <2>1. completed[e][h] \in Nat /\ failed[e] \in Nat /\ rollbacks \in Nat
    BY DEF Inv, TypeOK
  <2>2. LET last == IF HasRun(e, h) THEN 1 ELSE 0 IN
        /\ completed[e][h] <= last + rollbacks + failed[e]
        /\ h = NumHandlers => completed[e][h] <= last + rollbacks
    BY DEF RunsAccounted
  <2> QED
    BY <2>1, <2>2
<1> QED
  BY <1>1, <1>2, <1>3, InvAlways, PTL DEF Spec

-------------------------------------------------------------------------------
\* A step that changes no row, but one not yet published, is invisible.
LEMMA InvisibleStep ==
  ASSUME UNCHANGED <<completed, failed>>,
         \A e \in Event : \/ row'[e] = row[e]
                          \/ {row[e], row'[e]} \subseteq {"none", "inserted"}
  PROVE  UNCHANGED Delivery!vars
<1>1. Phase' = Phase
  BY DEF Phase
<1> QED
  BY <1>1 DEF Delivery!vars

\* Each step of the outbox is a step of at-least-once delivery or invisible.
LEMMA StepSimulation == Inv /\ [Next]_vars => [Delivery!Next]_(Delivery!vars)
<1> SUFFICES ASSUME Inv, [Next]_vars
             PROVE  Delivery!Next \/ UNCHANGED Delivery!vars
  OBVIOUS
<1> USE DEF Inv
<1>1. ASSUME NEW t \in Tx, Begin(t)
      PROVE  UNCHANGED Delivery!vars
  BY <1>1, InvisibleStep DEF Begin, historyVars
<1>2. ASSUME NEW t \in Tx, Commit(t)
      PROVE  Delivery!Next
  <2>1. Delivery!Accept(Inserted(t))
    <3>1. \A e \in Inserted(t) : Phase[e] = "unpublished"
      BY DEF Phase, Inserted
    <3>2. Phase' = [e \in Event |-> IF e \in Inserted(t) THEN "pending" ELSE Phase[e]]
      BY <1>2 DEF Commit, Phase
    <3>3. UNCHANGED <<completed, failed>>
      BY <1>2 DEF Commit, historyVars
    <3> QED
      BY <3>1, <3>2, <3>3 DEF Delivery!Accept
  <2> QED
    BY <2>1 DEF Delivery!Next, Inserted
<1>3. ASSUME NEW t \in Tx, Rollback(t)
      PROVE  UNCHANGED Delivery!vars
  BY <1>3, InvisibleStep DEF Rollback, Inserted, historyVars, TypeOK
<1>4. ASSUME NEW t \in Tx, NEW e \in Event, Publish(t, e)
      PROVE  UNCHANGED Delivery!vars
  BY <1>4, InvisibleStep DEF Publish, historyVars, TypeOK
<1>5. ASSUME NEW r \in Relay, Claim(r) \/ NextRow(r) \/ MarkProcessed(r) \/ AbortPass(r)
      PROVE  UNCHANGED Delivery!vars
  BY <1>5, InvisibleStep DEF Claim, NextRow, MarkProcessed, AbortPass, historyVars
<1>6. ASSUME NEW r \in Relay, HandlerOk(r)
      PROVE  Delivery!Next
  <2>1. cur[r] \in Event /\ row[cur[r]] = "ready"
    BY <1>6 DEF HandlerOk, TypeOK, PassesAreTruthful, ClaimsAreExclusive, Todo
  <2>2. step[r] + 1 \in Handler
    BY <1>6, ConstantsAssumption DEF HandlerOk, TypeOK, Handler
  <2>3. Phase[cur[r]] = "pending" /\ Phase' = Phase
    BY <1>6, <2>1 DEF HandlerOk, Phase
  <2>4. Delivery!Complete(cur[r], step[r] + 1)
    BY <1>6, <2>3 DEF HandlerOk, Delivery!Complete
  <2> QED
    BY <2>1, <2>2, <2>4 DEF Delivery!Next
<1>7. ASSUME NEW r \in Relay, HandlerFails(r)
      PROVE  Delivery!Next
  <2>1. cur[r] \in Event /\ row[cur[r]] = "ready"
    BY <1>7 DEF HandlerFails, TypeOK, PassesAreTruthful, ClaimsAreExclusive, Todo
  <2>2. Phase[cur[r]] = "pending" /\ Phase' = Phase
    BY <1>7, <2>1 DEF HandlerFails, Phase
  <2>3. Delivery!Fail(cur[r])
    BY <1>7, <2>2 DEF HandlerFails, Delivery!Fail
  <2> QED
    BY <2>1, <2>3 DEF Delivery!Next
<1>8. ASSUME NEW r \in Relay, CommitPass(r)
      PROVE  Delivery!Next
  <2> DEFINE H == {e \in batch[r] : outcome[r][e] = "processed"}
             G == {e \in batch[r] : outcome[r][e] = "dead"}
  <2>1. H \in SUBSET Event /\ G \in SUBSET Event
    BY DEF TypeOK
  <2>2. \A e \in H \cup G : e \in Event /\ row[e] = "ready"
    BY <2>1 DEF ClaimsAreExclusive
  <2>3. \A e \in H \cup G : Phase[e] = "pending"
    BY <2>2 DEF Phase
  <2>4. \A e \in H, h \in Handler : completed[e][h] > 0
    BY <2>1 DEF PassesAreTruthful
  <2>5. \A e \in G : failed[e] >= MaxAttempts
    <3> SUFFICES ASSUME NEW e \in G
                 PROVE  failed[e] >= MaxAttempts
      OBVIOUS
    <3>1. attempts[e] < failed[e] /\ attempts[e] + 1 = MaxAttempts
      BY <2>1 DEF PassesAreTruthful
    <3>2. attempts[e] \in Nat /\ failed[e] \in Nat
      BY <2>1 DEF TypeOK
    <3>3. \A a, f, m \in Nat : a < f /\ a + 1 = m => f >= m
      OBVIOUS
    <3> QED
      BY <3>1, <3>2, <3>3, ConstantsAssumption
  <2>6. Phase' = [e \in Event |-> IF e \in H THEN "handled"
                                  ELSE IF e \in G THEN "abandoned" ELSE Phase[e]]
    <3>1. \A e \in Event : row'[e] = IF e \in H THEN "processed"
                                     ELSE IF e \in G THEN "dead" ELSE row[e]
      BY <1>8 DEF CommitPass
    <3> QED
      BY <3>1 DEF Phase
  <2>7. UNCHANGED <<completed, failed>>
    BY <1>8 DEF CommitPass, historyVars
  <2>8. Delivery!Settle(H, G)
    BY <2>3, <2>4, <2>5, <2>6, <2>7 DEF Delivery!Settle
  <2> QED
    BY <2>1, <2>8 DEF Delivery!Next
<1>9. CASE UNCHANGED vars
  BY <1>9, InvisibleStep DEF vars, historyVars
<1> QED
  BY <1>1, <1>2, <1>3, <1>4, <1>5, <1>6, <1>7, <1>8, <1>9 DEF Next, Drain

\* The outbox implements at-least-once delivery: an event is accepted with its
\* unit of work, and settles only handled by every handler or failed MaxAttempts
\* times, after which no handler runs for it.
THEOREM OutboxImplementsDelivery == Spec => ImplementsDelivery
<1>1. Init => Delivery!Init
  BY DEF Init, Delivery!Init, Phase
<1> QED
  BY <1>1, InvAlways, StepSimulation, PTL DEF Spec, ImplementsDelivery, Delivery!Spec
===============================================================================
