----------------------------- MODULE TaxonomyProofs -----------------------------
(***************************************************************************)
(* For any posts, categories, tags, requests and connections: no post keeps*)
(* a category or tag that is gone, and a save replaces the whole selection.*)
(* The invariant follows a save through its lookups: what it has attached  *)
(* still exists, because a foreign key keeps it from being deleted and a   *)
(* deletion under way keeps it from being attached; what it has passed by  *)
(* was gone, and never returns.                                            *)
(*                                                                         *)
(* From it follow that only the pool stops everything, as a circle of      *)
(* locks is broken, and that Taxonomy implements Assignments.              *)
(***************************************************************************)
EXTENDS Taxonomy, FiniteSetTheorems, TLAPS

Saving == [op : {"update", "assign"}, post : Post, chosen : SUBSET Term, axis : 0 .. 2,
           detached : SUBSET Term, attached : SUBSET Term, todo : SUBSET Term,
           found : SUBSET Term]
Deleting == [op : {"check", "delete", "cascade", "cascaded"}, term : Term]

TypeInv == /\ terms \subseteq Term
           /\ assigned \in [Post -> SUBSET Term]
           /\ req \in [Request -> {Idle} \cup Saving \cup Deleting]

\* The axes a save has begun to assign.
Begun(q) == (IF q.axis >= 1 THEN Category ELSE {}) \cup (IF q.axis = 2 THEN Tag ELSE {})

\* Of these it has detached everything, and of what was chosen there each term is
\* attached, or still to look up or to attach, or gone.
Tracked(q) ==
    /\ q.detached = Begun(q)
    /\ q.op = "update" => q.attached = {}
    /\ \A t, u \in q.found : t = u
    /\ q.attached \cup q.todo \cup q.found \subseteq q.chosen
    /\ q.attached \subseteq terms
    /\ q.chosen \cap Begun(q) \cap terms \subseteq q.attached \cup q.todo \cup q.found

SavesTracked == \A r \in Request : req[r] \in Saving => Tracked(req[r])

\* A term that is being deleted is kept by no save.
DeletionsAlone ==
    \A r, s \in Request : Deletes(r) => ~Keeps(s, req[r].term)

Inv == TypeInv /\ SavesTracked /\ DeletionsAlone /\ NothingDangles

\* The states of a request are told apart by their op.
LEMMA Distinct ==
    /\ \A q \in Saving : q.op \in {"update", "assign"} /\ q # Idle /\ q \notin Deleting
    /\ \A q \in Deleting : q.op \in {"check", "delete", "cascade", "cascaded"} /\ q # Idle /\ q \notin Saving
    /\ Idle.op = "idle" /\ Idle \notin Saving /\ Idle \notin Deleting
BY DEF Saving, Deleting, Idle

LEMMA InitInv == Init => Inv
<1> SUFFICES ASSUME Init PROVE Inv
  OBVIOUS
<1>1. TypeInv /\ NothingDangles
  BY DEF Init, TypeInv, NothingDangles
<1>2. \A r \in Request : req[r] = Idle
  BY DEF Init
<1> QED BY <1>1, <1>2, Distinct DEF Inv, SavesTracked, DeletionsAlone, Deletes, At

\* A step of one request that changes nothing but its own state.
LEMMA RequestStep ==
  ASSUME Inv, NEW r \in Request, NEW q \in {Idle} \cup Saving \cup Deleting,
         q \in Saving => Tracked(q),
         q.op \in {"cascade", "cascaded"} => \A s \in Request : s # r => ~Keeps(s, q.term),
         q.op = "assign" => \A t \in q.attached, s \in Request : HasDeleted(s, t) => s = r,
         Goes(r, q), UNCHANGED <<terms, assigned>>
  PROVE  Inv'
<1>1. /\ req'[r] = q
      /\ \A s \in Request : s # r => req'[s] = req[s]
  BY DEF Goes, Inv, TypeInv
<1>2. TypeInv'
  BY DEF Goes, Inv, TypeInv
<1>3. SavesTracked'
  BY <1>1 DEF Inv, SavesTracked, Tracked, Begun
<1>4. DeletionsAlone'
  <2> SUFFICES ASSUME NEW a \in Request, NEW b \in Request, req'[a].op \in {"cascade", "cascaded"},
                      req'[b].op = "assign", req'[a].term \in req'[b].attached
               PROVE  FALSE
    BY DEF DeletionsAlone, Deletes, At, Keeps
  <2>1. CASE a # r /\ b # r
    BY <2>1, <1>1 DEF Inv, DeletionsAlone, Deletes, At, Keeps
  <2>2. CASE a = r /\ b # r
    BY <2>2, <1>1 DEF Keeps, At
  <2>3. CASE a # r /\ b = r
    BY <2>3, <1>1 DEF HasDeleted, Deletes, At
  <2>4. CASE a = r /\ b = r
    BY <2>4
  <2> QED BY <2>1, <2>2, <2>3, <2>4
<1>5. NothingDangles'
  BY DEF Inv, NothingDangles
<1> QED BY <1>2, <1>3, <1>4, <1>5 DEF Inv

LEMMA AbortStep ==
  ASSUME Inv, NEW r \in Request, Goes(r, Idle), UNCHANGED <<terms, assigned>>
  PROVE  Inv'
BY RequestStep, Distinct

LEMMA BeginSaveStep ==
  ASSUME Inv, NEW r \in Request, NEW p \in Post, NEW chosen \in SUBSET Term,
         BeginSave(r, p, chosen)
  PROVE  Inv'
<1> DEFINE q == Save(p, chosen)
<1>1. q \in Saving /\ q.op = "update"
  BY DEF Saving, Save
<1>2. Tracked(q)
  BY DEF Tracked, Begun, Save
<1>3. Goes(r, q) /\ UNCHANGED <<terms, assigned>>
  BY DEF BeginSave
<1> HIDE DEF q
<1> QED BY <1>1, <1>2, <1>3, RequestStep

LEMMA UpdatePostStep ==
  ASSUME Inv, NEW r \in Request, UpdatePost(r)
  PROVE  Inv'
<1> DEFINE q == [req[r] EXCEPT !.op = "assign"]
<1>1. req[r] \in Saving /\ Tracked(req[r])
  BY Distinct DEF UpdatePost, At, Inv, TypeInv, SavesTracked
<1>2. /\ q \in Saving /\ q.op = "assign" /\ q.axis = req[r].axis
      /\ q.attached = req[r].attached /\ q.detached = req[r].detached
      /\ q.todo = req[r].todo /\ q.found = req[r].found /\ q.chosen = req[r].chosen
  BY <1>1 DEF Saving
<1>3. Goes(r, q) /\ UNCHANGED <<terms, assigned>> /\ req[r].op = "update"
  BY DEF UpdatePost, At
<1> HIDE DEF q
<1>4. Tracked(q) /\ q.attached = {}
  BY <1>1, <1>2, <1>3 DEF Tracked, Begun
<1> QED BY <1>2, <1>3, <1>4, RequestStep

\* What holds of a save that is assigning.
LEMMA Assigning ==
  ASSUME Inv, NEW r \in Request, At(r, "assign")
  PROVE  /\ req[r] \in Saving /\ Tracked(req[r])
         /\ \A t \in req[r].attached, s \in Request : ~HasDeleted(s, t)
<1>1. req[r] \in Saving /\ Tracked(req[r])
  BY Distinct DEF At, Inv, TypeInv, SavesTracked
<1>2. \A t \in req[r].attached, s \in Request : ~HasDeleted(s, t)
  BY DEF Inv, DeletionsAlone, Keeps, HasDeleted
<1> QED BY <1>1, <1>2

LEMMA DetachAllStep ==
  ASSUME Inv, NEW r \in Request, DetachAll(r)
  PROVE  Inv'
<1> DEFINE axis == Axes[req[r].axis + 1]
           q == [req[r] EXCEPT !.axis = @ + 1, !.todo = req[r].chosen \cap axis,
                               !.detached = @ \cup Detached(axis, req[r].chosen)]
<1>1. /\ req[r] \in Saving /\ Tracked(req[r])
      /\ \A t \in req[r].attached, s \in Request : ~HasDeleted(s, t)
  BY Assigning DEF DetachAll, AxisDone, At
<1>2. /\ req[r].axis \in {0, 1}
      /\ axis = IF req[r].axis = 0 THEN Category ELSE Tag
      /\ req[r].todo = {} /\ req[r].found = {} /\ req[r].op = "assign"
  BY <1>1 DEF DetachAll, AxisDone, At, Axes, Saving
<1>3. /\ q \in Saving /\ q.op = "assign" /\ q.axis = req[r].axis + 1
      /\ q.attached = req[r].attached /\ q.detached = req[r].detached \cup axis
      /\ q.todo = req[r].chosen \cap axis /\ q.found = {} /\ q.chosen = req[r].chosen
  <2>1. axis \subseteq Term
    BY <1>2 DEF Term
  <2>2. Detached(axis, req[r].chosen) = axis
    BY DEF Detached
  <2>3. req[r].axis + 1 \in 0 .. 2 /\ req[r].chosen \cap axis \subseteq Term
    BY <1>1, <1>2, <2>1
  <2> HIDE DEF axis
  <2>4. q = [req[r] EXCEPT !.axis = req[r].axis + 1, !.todo = req[r].chosen \cap axis,
                           !.detached = req[r].detached \cup axis]
    BY <2>2
  <2> HIDE DEF q
  <2> QED BY <1>1, <1>2, <2>1, <2>3, <2>4 DEF Saving
<1>4. Goes(r, q) /\ UNCHANGED <<terms, assigned>>
  BY DEF DetachAll
<1> HIDE DEF q, axis
<1>5. Begun(q) = Begun(req[r]) \cup axis
  BY <1>2, <1>3 DEF Begun
<1>6. Tracked(q)
  BY <1>1, <1>2, <1>3, <1>5 DEF Tracked
<1> QED BY <1>1, <1>3, <1>4, <1>6, RequestStep

LEMMA LookUpStep ==
  ASSUME Inv, NEW r \in Request, LookUp(r)
  PROVE  Inv'
<1>1. /\ req[r] \in Saving /\ Tracked(req[r])
      /\ \A t \in req[r].attached, s \in Request : ~HasDeleted(s, t)
  BY Assigning DEF LookUp
<1>2. PICK t \in req[r].todo :
         Goes(r, [req[r] EXCEPT !.todo = @ \ {t}, !.found = {t} \cap terms])
  BY DEF LookUp
<1> DEFINE q == [req[r] EXCEPT !.todo = @ \ {t}, !.found = {t} \cap terms]
<1>3. /\ q \in Saving /\ q.op = "assign" /\ q.axis = req[r].axis
      /\ q.attached = req[r].attached /\ q.detached = req[r].detached
      /\ q.todo = req[r].todo \ {t} /\ q.found = {t} \cap terms /\ q.chosen = req[r].chosen
  BY <1>1 DEF Saving, LookUp, At
<1>4. Goes(r, q) /\ UNCHANGED <<terms, assigned>> /\ req[r].found = {}
  BY <1>2 DEF LookUp
<1> HIDE DEF q
<1>5. Begun(q) = Begun(req[r])
  BY <1>3 DEF Begun
<1>6. Tracked(q)
  BY <1>1, <1>3, <1>4, <1>5 DEF Tracked
<1> QED BY <1>1, <1>3, <1>4, <1>6, RequestStep

LEMMA AttachStep ==
  ASSUME Inv, NEW r \in Request, Attach(r)
  PROVE  Inv'
<1>1. /\ req[r] \in Saving /\ Tracked(req[r])
      /\ \A t \in req[r].attached, s \in Request : ~HasDeleted(s, t)
  BY Assigning DEF Attach
<1>2. PICK t \in req[r].found :
         \/ /\ t \in terms
            /\ \A s \in Request : ~HasDeleted(s, t)
            /\ Goes(r, [req[r] EXCEPT !.found = {}, !.attached = @ \cup {t}])
            /\ UNCHANGED <<terms, assigned, taken, begun>>
         \/ t \notin terms /\ Abort(r)
  BY DEF Attach, Blocked, WaitsFor
<1>3. CASE t \notin terms /\ Abort(r)
  BY <1>3, AbortStep DEF Abort
<1>4. CASE /\ t \in terms
           /\ \A s \in Request : ~HasDeleted(s, t)
           /\ Goes(r, [req[r] EXCEPT !.found = {}, !.attached = @ \cup {t}])
           /\ UNCHANGED <<terms, assigned, taken, begun>>
  <2> DEFINE q == [req[r] EXCEPT !.found = {}, !.attached = @ \cup {t}]
  <2>1. /\ q \in Saving /\ q.op = "assign" /\ q.axis = req[r].axis
        /\ q.attached = req[r].attached \cup {t} /\ q.detached = req[r].detached
        /\ q.todo = req[r].todo /\ q.found = {} /\ q.chosen = req[r].chosen
    BY <1>1 DEF Saving, Attach, At
  <2>2. Goes(r, q) /\ UNCHANGED <<terms, assigned>>
    BY <1>4
  <2>3. req[r].found = {t}
    BY <1>1, <1>2 DEF Tracked
  <2> HIDE DEF q
  <2>4. Begun(q) = Begun(req[r])
    BY <2>1 DEF Begun
  <2>5. Tracked(q)
    BY <1>1, <1>4, <2>1, <2>3, <2>4 DEF Tracked
  <2> QED BY <1>1, <1>4, <2>1, <2>2, <2>5, RequestStep
<1> QED BY <1>2, <1>3, <1>4

\* What a save that is through leaves its post with: what was chosen and still exists.
LEMMA Through ==
  ASSUME Inv, NEW r \in Request, Commit(r)
  PROVE  /\ req[r].post \in Post
         /\ assigned' = [assigned EXCEPT ![req[r].post] = req[r].chosen \cap terms]
<1>1. req[r] \in Saving /\ Tracked(req[r])
  BY Assigning DEF Commit, AxisDone
<1>2. req[r].axis = 2 /\ req[r].todo = {} /\ req[r].found = {}
  BY DEF Commit, AxisDone, Axes
<1>3. Begun(req[r]) = Term
  BY <1>2 DEF Begun, Term
<1>4. /\ req[r].post \in Post /\ req[r].chosen \subseteq Term
      /\ assigned[req[r].post] \subseteq Term
  BY <1>1 DEF Saving, Inv, TypeInv
<1>5. (assigned[req[r].post] \ req[r].detached) \cup req[r].attached = req[r].chosen \cap terms
  BY <1>1, <1>2, <1>3, <1>4 DEF Tracked
<1> QED BY <1>4, <1>5 DEF Commit

LEMMA CommitStep ==
  ASSUME Inv, NEW r \in Request, Commit(r)
  PROVE  Inv'
<1>1. /\ req[r].post \in Post
      /\ assigned' = [assigned EXCEPT ![req[r].post] = req[r].chosen \cap terms]
      /\ Goes(r, Idle) /\ terms' = terms
  BY Through DEF Commit
<1>2. TypeInv'
  BY <1>1 DEF Inv, TypeInv, Goes
<1>3. NothingDangles'
  BY <1>1 DEF Inv, TypeInv, NothingDangles
<1>4. /\ req'[r] = Idle
      /\ \A s \in Request : s # r => req'[s] = req[s]
  BY <1>1 DEF Goes, Inv, TypeInv
<1>5. SavesTracked'
  BY <1>1, <1>4, Distinct DEF Inv, SavesTracked, Tracked, Begun
<1>6. DeletionsAlone'
  BY <1>4, Distinct DEF Inv, DeletionsAlone, Deletes, At, Keeps
<1> QED BY <1>2, <1>3, <1>5, <1>6 DEF Inv

LEMMA CheckTermStep ==
  ASSUME Inv, NEW r \in Request, NEW t \in Term, CheckTerm(r, t)
  PROVE  Inv'
<1> DEFINE q == Deletion(t)
<1>1. q \in Deleting /\ q.op = "check"
  BY DEF Deletion, Deleting
<1> HIDE DEF q
<1> QED BY <1>1, RequestStep, Distinct DEF CheckTerm, q

LEMMA BeginDeleteStep ==
  ASSUME Inv, NEW r \in Request, BeginDelete(r)
  PROVE  Inv'
<1> DEFINE q == [req[r] EXCEPT !.op = "delete"]
<1>1. req[r] \in Deleting
  BY Distinct DEF BeginDelete, At, Inv, TypeInv
<1>2. q \in Deleting /\ q.op = "delete"
  BY <1>1 DEF Deleting
<1>3. Goes(r, q) /\ UNCHANGED <<terms, assigned>>
  BY DEF BeginDelete
<1> HIDE DEF q
<1> QED BY <1>2, <1>3, RequestStep, Distinct

LEMMA DeleteTermStep ==
  ASSUME Inv, NEW r \in Request, DeleteTerm(r)
  PROVE  Inv'
<1>1. CASE Abort(r)
  BY <1>1, AbortStep DEF Abort
<1>2. CASE /\ \A s \in Request : ~HasDeleted(s, req[r].term) /\ ~Keeps(s, req[r].term)
           /\ Goes(r, [req[r] EXCEPT !.op = "cascade"])
           /\ UNCHANGED <<terms, assigned, taken, begun>>
  <2> DEFINE q == [req[r] EXCEPT !.op = "cascade"]
  <2>1. req[r] \in Deleting
    BY Distinct DEF DeleteTerm, At, Inv, TypeInv
  <2>2. q \in Deleting /\ q.op = "cascade" /\ q.term = req[r].term
    BY <2>1 DEF Deleting
  <2>3. Goes(r, q) /\ UNCHANGED <<terms, assigned>>
    BY <1>2
  <2> HIDE DEF q
  <2> QED BY <1>2, <2>2, <2>3, RequestStep, Distinct
<1> QED BY <1>1, <1>2 DEF DeleteTerm, Blocked, WaitsFor

LEMMA CascadeStep ==
  ASSUME Inv, NEW r \in Request, Cascade(r)
  PROVE  Inv'
<1> DEFINE q == [req[r] EXCEPT !.op = "cascaded"]
<1>1. req[r] \in Deleting
  BY Distinct DEF Cascade, At, Inv, TypeInv
<1>2. q \in Deleting /\ q.op = "cascaded" /\ q.term = req[r].term
  BY <1>1 DEF Deleting
<1>3. Goes(r, q) /\ UNCHANGED <<terms, assigned>>
  BY DEF Cascade
<1>4. \A s \in Request : ~Keeps(s, req[r].term)
  BY DEF Cascade, Inv, DeletionsAlone, Deletes
<1> HIDE DEF q
<1> QED BY <1>2, <1>3, <1>4, RequestStep, Distinct

LEMMA CommitDeleteStep ==
  ASSUME Inv, NEW r \in Request, CommitDelete(r)
  PROVE  Inv'
<1> DEFINE t == req[r].term
<1>1. /\ terms' = terms \ {t} /\ assigned' = [p \in Post |-> assigned[p] \ {t}]
      /\ Goes(r, Idle)
  BY DEF CommitDelete
<1>2. \A s \in Request : req[s] \in Saving => t \notin req[s].attached
  <2> SUFFICES ASSUME NEW s \in Request, req[s] \in Saving PROVE t \notin req[s].attached
    OBVIOUS
  <2>1. CASE req[s].op = "update"
    BY <2>1 DEF Inv, SavesTracked, Tracked
  <2>2. CASE req[s].op = "assign"
    BY <2>2 DEF Inv, DeletionsAlone, CommitDelete, Deletes, At, Keeps
  <2> QED BY <2>1, <2>2, Distinct
<1> HIDE DEF t
<1>3. TypeInv'
  BY <1>1 DEF Inv, TypeInv, Goes
<1>4. NothingDangles'
  BY <1>1 DEF Inv, NothingDangles
<1>5. /\ req'[r] = Idle
      /\ \A s \in Request : s # r => req'[s] = req[s]
  BY <1>1 DEF Goes, Inv, TypeInv
<1>6. SavesTracked'
  BY <1>1, <1>2, <1>5, Distinct DEF Inv, SavesTracked, Tracked, Begun
<1>7. DeletionsAlone'
  BY <1>5, Distinct DEF Inv, DeletionsAlone, Deletes, At, Keeps
<1> QED BY <1>3, <1>4, <1>6, <1>7 DEF Inv

LEMMA BreakDeadlockStep ==
  ASSUME Inv, NEW r \in Request, BreakDeadlock(r)
  PROVE  Inv'
BY AbortStep DEF BreakDeadlock, Abort

LEMMA CancelStep ==
  ASSUME Inv, NEW r \in Request, Cancel(r)
  PROVE  Inv'
BY AbortStep DEF Cancel, Abort

LEMMA NextStep == Inv /\ [Next]_vars => Inv'
<1> SUFFICES ASSUME Inv, [Next]_vars PROVE Inv'
  OBVIOUS
<1>1. CASE UNCHANGED vars
  BY <1>1 DEF vars, Inv, TypeInv, SavesTracked, Tracked, Begun, DeletionsAlone, Deletes, At, Keeps,
     NothingDangles
<1>2. CASE Next
  <2> SUFFICES ASSUME NEW r \in Request,
                      \/ \E p \in Post, chosen \in SUBSET Term : BeginSave(r, p, chosen)
                      \/ \E t \in Term : CheckTerm(r, t)
                      \/ Proceed(r)
                      \/ Cancel(r)
               PROVE  Inv'
    BY <1>2 DEF Next
  <2> QED BY BeginSaveStep, CheckTermStep, CancelStep, UpdatePostStep, DetachAllStep,
             LookUpStep, AttachStep, CommitStep, BeginDeleteStep, DeleteTermStep, CascadeStep,
             CommitDeleteStep, BreakDeadlockStep DEF Proceed
<1> QED BY <1>1, <1>2

-------------------------------------------------------------------------------
\* The invariant holds of every reachable state.
THEOREM InvAlways == Spec => []Inv
BY InitInv, NextStep, PTL DEF Spec

\* No post keeps a category or tag that is gone.
THEOREM NothingEverDangles == Spec => []NothingDangles
<1>1. Inv => NothingDangles
  BY DEF Inv
<1> QED BY <1>1, InvAlways, PTL

\* What a step that commits no save does to a post: at most a deletion takes a term away.
LEMMA OthersKeepSelections ==
  ASSUME Inv, [Next]_vars, NEW p \in Post,
         \A r \in Request : Commit(r) => req[r].post # p
  PROVE  assigned'[p] = assigned[p] \cap terms'
<1>1. assigned[p] \subseteq terms
  BY DEF Inv, NothingDangles
<1>2. CASE assigned' = assigned /\ terms' = terms
  BY <1>1, <1>2
<1>3. CASE \E r \in Request : Commit(r)
  <2>1. PICK r \in Request : Commit(r)
    BY <1>3
  <2>2. assigned'[p] = assigned[p] /\ terms' = terms
    BY <2>1, Through DEF Commit, Inv, TypeInv
  <2> QED BY <1>1, <2>2
<1>4. CASE \E r \in Request : CommitDelete(r)
  BY <1>1, <1>4 DEF CommitDelete
<1>5. \/ assigned' = assigned /\ terms' = terms
      \/ \E r \in Request : Commit(r) \/ CommitDelete(r)
  <2>1. CASE UNCHANGED vars
    BY <2>1 DEF vars
  <2>2. CASE Next
    BY <2>2 DEF Next, Proceed, BeginSave, CheckTerm, Cancel, UpdatePost, DetachAll, LookUp,
       Attach, BeginDelete, DeleteTerm, Cascade, BreakDeadlock, Abort
  <2> QED BY <2>1, <2>2
<1> QED BY <1>2, <1>3, <1>4, <1>5

\* A save replaces the whole selection: what the post has after it is what was chosen
\* and still exists, on both axes, although every id was looked up outside the
\* transaction at a time of its own.  Nothing else changes a post, but the deletion
\* of a term.
SelectionReplaced ==
    [][\A p \in Post :
          LET savers == {r \in Request : Commit(r) /\ req[r].post = p} IN
          /\ \A r \in savers : assigned'[p] = req[r].chosen \cap terms
          /\ savers = {} => assigned'[p] = assigned[p] \cap terms']_vars

\* A save replaces the whole selection of its post, and nothing else changes it but the
\* deletion of a term.
THEOREM SelectionsAreReplaced == Spec => SelectionReplaced
<1> DEFINE Step ==
      \A p \in Post :
          LET savers == {r \in Request : Commit(r) /\ req[r].post = p} IN
          /\ \A r \in savers : assigned'[p] = req[r].chosen \cap terms
          /\ savers = {} => assigned'[p] = assigned[p] \cap terms'
<1>1. Inv /\ [Next]_vars => [Step]_vars
  <2> SUFFICES ASSUME Inv, [Next]_vars, NEW p \in Post
               PROVE  /\ \A r \in Request : Commit(r) /\ req[r].post = p =>
                            assigned'[p] = req[r].chosen \cap terms
                      /\ (\A r \in Request : Commit(r) => req[r].post # p) =>
                            assigned'[p] = assigned[p] \cap terms'
    OBVIOUS
  <2>1. ASSUME NEW r \in Request, Commit(r), req[r].post = p
        PROVE  assigned'[p] = req[r].chosen \cap terms
    BY <2>1, Through DEF Inv, TypeInv
  <2> QED BY <2>1, OthersKeepSelections
<1> QED BY <1>1, InvAlways, PTL DEF Spec, SelectionReplaced
-------------------------------------------------------------------------------
(* The connections that transactions hold are counted right.                *)

Transactions == {r \in Request : InTransaction(r)}

Counted == /\ IsFiniteSet(Transactions)
           /\ taken = Cardinality(Transactions)
           /\ taken \in 0 .. MaxConns
           /\ begun \in 0 .. MaxRequests

\* Locks are waited for, and held, by transactions.
LEMMA LocksAreOfTransactions ==
  ASSUME NEW r \in Request, NEW s \in Request, WaitsFor(r, s)
  PROVE  r \in Transactions /\ s \in Transactions
BY DEF WaitsFor, HasPost, HasJoinRow, HasDeleted, HasCascaded, Deletes, AxisDone, Keeps,
   Transactions, InTransaction, At

\* What a request waits for, at once or in the end.
LEMMA AwaitedAreTransactions ==
  ASSUME NEW r \in Request
  PROVE  AwaitedBy(r) \subseteq Transactions
<1>1. Transactions \in SUBSET Request
  BY DEF Transactions
<1> QED BY <1>1, LocksAreOfTransactions DEF AwaitedBy

LEMMA AwaitedNext ==
  ASSUME NEW r \in Request, NEW s \in Request, WaitsFor(r, s)
  PROVE  s \in AwaitedBy(r) /\ AwaitedBy(s) \subseteq AwaitedBy(r)
<1>1. s \in AwaitedBy(r)
  BY DEF AwaitedBy
<1>2. ASSUME NEW x \in AwaitedBy(s), NEW D \in SUBSET Request,
             \A y \in Request : WaitsFor(r, y) => y \in D,
             \A y \in D, z \in Request : WaitsFor(y, z) => z \in D
      PROVE  x \in D
  <2>1. \A z \in Request : WaitsFor(s, z) => z \in D
    BY <1>2
  <2> QED BY <1>2, <2>1 DEF AwaitedBy
<1>3. \A x \in AwaitedBy(s) : x \in Request
  BY DEF AwaitedBy
<1> QED BY <1>1, <1>2, <1>3 DEF AwaitedBy

\* Transactions are finitely many: if each of them waits for a lock, some of them wait in
\* a circle.  Those of whom the fewest are awaited wait for one of whom fewer are.
LEMMA SomeCircle ==
  ASSUME IsFiniteSet(Transactions), Transactions # {}, \A r \in Transactions : Blocked(r)
  PROVE  \E r \in Transactions : Deadlocked(r)
<1> SUFFICES ASSUME \A r \in Transactions : r \notin AwaitedBy(r)
             PROVE  FALSE
  BY DEF Deadlocked
<1> DEFINE Sets == {AwaitedBy(r) : r \in Transactions}
<1>1. \A r \in Transactions : r \in Request /\ AwaitedBy(r) \in SUBSET Transactions
  BY AwaitedAreTransactions DEF Transactions
<1>2. IsWellFoundedOn(StrictSubsetOrdering(Transactions), SUBSET Transactions)
  BY FS_StrictSubsetOrderingWellFounded, FS_FiniteSubsetsOfFinite
<1>3. Sets \subseteq SUBSET Transactions /\ Sets # {}
  BY <1>1
<1>4. \E X \in Sets : \A Y \in Sets : <<Y, X>> \notin StrictSubsetOrdering(Transactions)
  <2> HIDE DEF Sets
  <2> QED BY <1>2, <1>3, WFMin
<1>5. PICK r \in Transactions : \A s \in Transactions :
         <<AwaitedBy(s), AwaitedBy(r)>> \notin StrictSubsetOrdering(Transactions)
  BY <1>4
<1>6. PICK s \in Request : WaitsFor(r, s)
  BY DEF Blocked
<1>7. s \in Transactions
  BY <1>1, <1>6, LocksAreOfTransactions
<1>8. s \in AwaitedBy(r) /\ AwaitedBy(s) \subseteq AwaitedBy(r) /\ s \notin AwaitedBy(s)
  BY <1>1, <1>6, <1>7, AwaitedNext
<1>9. <<AwaitedBy(s), AwaitedBy(r)>> \in StrictSubsetOrdering(Transactions)
  BY <1>1, <1>7, <1>8 DEF StrictSubsetOrdering
<1> QED BY <1>5, <1>7, <1>9

\* What a step of r does to the transactions.
Opens(r) == /\ Free /\ taken' = taken + 1 /\ r \notin Transactions
            /\ Transactions' = Transactions \cup {r}
Closes(r) == /\ taken' = taken - 1 /\ r \in Transactions
             /\ Transactions' = Transactions \ {r}
Stays == taken' = taken /\ Transactions' = Transactions

LEMMA CountedStep ==
  ASSUME Counted, NEW r \in Request, Opens(r) \/ Closes(r) \/ Stays,
         begun' = begun \/ Begins
  PROVE  Counted'
<1>1. begun' \in 0 .. MaxRequests
  BY TaxonomyAssumption DEF Begins, Counted
<1>2. CASE Opens(r)
  <2>1. IsFiniteSet(Transactions') /\ Cardinality(Transactions') = Cardinality(Transactions) + 1
    BY <1>2, FS_AddElement DEF Opens, Counted
  <2> QED BY <1>1, <1>2, <2>1, TaxonomyAssumption DEF Opens, Counted, Free
<1>3. CASE Closes(r)
  <2>1. IsFiniteSet(Transactions') /\ Cardinality(Transactions') = Cardinality(Transactions) - 1
    BY <1>3, FS_RemoveElement DEF Closes, Counted
  <2>2. Cardinality(Transactions') \in Nat
    BY <2>1, FS_CardinalityType
  <2> QED BY <1>1, <1>3, <2>1, <2>2, TaxonomyAssumption DEF Closes, Counted
<1>4. CASE Stays
  BY <1>1, <1>4 DEF Stays, Counted
<1> QED BY <1>2, <1>3, <1>4

\* A request that goes from one state to another.
LEMMA GoesStep ==
  ASSUME Inv, NEW r \in Request, NEW q, Goes(r, q)
  PROVE  Transactions' = IF q.op \in {"idle", "check"} THEN Transactions \ {r}
                         ELSE Transactions \cup {r}
BY DEF Goes, Inv, TypeInv, Transactions, InTransaction, At

LEMMA TransactionsCounted ==
  ASSUME Inv, Counted, NEW r \in Request,
         \/ \E p \in Post, chosen \in SUBSET Term : BeginSave(r, p, chosen)
         \/ \E t \in Term : CheckTerm(r, t)
         \/ Proceed(r)
         \/ Cancel(r)
  PROVE  Counted'
<1>1. ASSUME Abort(r), InTransaction(r)
      PROVE  Closes(r) /\ begun' = begun
  BY <1>1, GoesStep, Distinct DEF Abort, Closes, Released, Transactions
<1>2. ASSUME NEW q, Goes(r, q), taken' = taken, InTransaction(r), q.op \notin {"idle", "check"}
      PROVE  Stays
  BY <1>2, GoesStep DEF Stays, Transactions
<1>3. req[r] \in {Idle} \cup Saving \cup Deleting
  BY DEF Inv, TypeInv
<1>4. CASE \E p \in Post, chosen \in SUBSET Term : BeginSave(r, p, chosen)
  <2>1. PICK p \in Post, chosen \in SUBSET Term : BeginSave(r, p, chosen)
    BY <1>4
  <2>2. Save(p, chosen).op = "update"
    BY DEF Save
  <2>3. Opens(r) /\ Begins
    BY <2>1, <2>2, GoesStep DEF BeginSave, Opens, Transactions, InTransaction
  <2> QED BY <2>3, CountedStep
<1>5. CASE \E t \in Term : CheckTerm(r, t)
  <2>1. PICK t \in Term : CheckTerm(r, t)
    BY <1>5
  <2>2. Deletion(t).op = "check"
    BY DEF Deletion
  <2>3. Stays /\ Begins
    BY <2>1, <2>2, GoesStep DEF CheckTerm, Stays, Transactions, InTransaction
  <2> QED BY <2>3, CountedStep
<1>6. CASE BeginDelete(r)
  <2>1. [req[r] EXCEPT !.op = "delete"].op = "delete"
    BY <1>3, <1>6, Distinct DEF BeginDelete, At, Deleting
  <2>2. Opens(r) /\ begun' = begun
    BY <1>6, <2>1, GoesStep DEF BeginDelete, Opens, Transactions, InTransaction
  <2> QED BY <2>2, CountedStep
<1>7. CASE Commit(r) \/ CommitDelete(r)
  <2>1. Goes(r, Idle) /\ taken' = taken - 1 /\ InTransaction(r) /\ begun' = begun
    BY <1>7 DEF Commit, CommitDelete, AxisDone, Released, InTransaction, At
  <2>2. Closes(r)
    BY <2>1, GoesStep, Distinct DEF Closes, Transactions
  <2> QED BY <2>1, <2>2, CountedStep
<1>8. CASE UpdatePost(r)
  <2>1. [req[r] EXCEPT !.op = "assign"].op = "assign"
    BY <1>3, <1>8, Distinct DEF UpdatePost, At, Saving
  <2>2. InTransaction(r)
    BY <1>8 DEF UpdatePost, InTransaction, At
  <2>3. Stays
    BY <1>2, <1>8, <2>1, <2>2 DEF UpdatePost
  <2> QED BY <1>8, <2>3, CountedStep DEF UpdatePost
<1>9. CASE DetachAll(r) \/ LookUp(r)
  <2>1. req[r] \in Saving /\ req[r].op = "assign" /\ InTransaction(r)
    BY <1>3, <1>9, Distinct DEF DetachAll, AxisDone, LookUp, At, InTransaction
  <2>2. PICK q : Goes(r, q) /\ q.op = req[r].op
    <3>1. CASE DetachAll(r)
      <4> DEFINE axis == Axes[req[r].axis + 1]
                 q == [req[r] EXCEPT !.axis = @ + 1, !.todo = req[r].chosen \cap axis,
                                     !.detached = @ \cup Detached(axis, req[r].chosen)]
      <4>1. Goes(r, q)
        BY <3>1 DEF DetachAll
      <4>2. q.op = req[r].op
        BY <2>1 DEF Saving
      <4> QED BY <4>1, <4>2
    <3>2. CASE LookUp(r)
      <4>1. PICK t \in req[r].todo :
               Goes(r, [req[r] EXCEPT !.todo = @ \ {t}, !.found = {t} \cap terms])
        BY <3>2 DEF LookUp
      <4>2. [req[r] EXCEPT !.todo = @ \ {t}, !.found = {t} \cap terms].op = req[r].op
        BY <2>1 DEF Saving
      <4> QED BY <4>1, <4>2
    <3> QED BY <1>9, <3>1, <3>2
  <2>3. Stays
    BY <1>2, <1>9, <2>1, <2>2 DEF DetachAll, LookUp
  <2> QED BY <1>9, <2>3, CountedStep DEF DetachAll, LookUp
<1>10. CASE Attach(r)
  <2>1. req[r] \in Saving /\ req[r].op = "assign" /\ InTransaction(r)
    BY <1>3, <1>10, Distinct DEF Attach, At, InTransaction
  <2>2. CASE Abort(r)
    BY <1>1, <2>1, <2>2, CountedStep
  <2>3. CASE ~Abort(r)
    <3>1. PICK t \in req[r].found :
             /\ Goes(r, [req[r] EXCEPT !.found = {}, !.attached = @ \cup {t}])
             /\ UNCHANGED <<taken, begun>>
      BY <1>10, <2>3 DEF Attach
    <3>2. [req[r] EXCEPT !.found = {}, !.attached = @ \cup {t}].op = "assign"
      BY <2>1 DEF Saving
    <3>3. Stays
      BY <1>2, <2>1, <3>1, <3>2
    <3> QED BY <3>1, <3>3, CountedStep
  <2> QED BY <2>2, <2>3
<1>11. CASE DeleteTerm(r)
  <2>1. req[r] \in Deleting /\ InTransaction(r)
    BY <1>3, <1>11, Distinct DEF DeleteTerm, At, InTransaction
  <2>2. CASE Abort(r)
    BY <1>1, <2>1, <2>2, CountedStep
  <2>3. CASE ~Abort(r)
    <3>1. Goes(r, [req[r] EXCEPT !.op = "cascade"]) /\ UNCHANGED <<taken, begun>>
      BY <1>11, <2>3 DEF DeleteTerm
    <3>2. [req[r] EXCEPT !.op = "cascade"].op = "cascade"
      BY <2>1 DEF Deleting
    <3>3. Stays
      BY <1>2, <2>1, <3>1, <3>2
    <3> QED BY <3>1, <3>3, CountedStep
  <2> QED BY <2>2, <2>3
<1>12. CASE BreakDeadlock(r)
  <2>1. InTransaction(r)
    BY <1>12, AwaitedAreTransactions DEF BreakDeadlock, Deadlocked, Transactions
  <2> QED BY <1>1, <1>12, <2>1, CountedStep DEF BreakDeadlock
<1>13. CASE Cancel(r)
  <2>1. CASE At(r, "check") /\ Goes(r, Idle) /\ UNCHANGED <<terms, assigned, taken, begun>>
    <3>1. Stays
      BY <2>1, GoesStep, Distinct DEF Stays, Transactions, InTransaction
    <3> QED BY <2>1, <3>1, CountedStep
  <2> QED BY <1>1, <1>13, <2>1, CountedStep DEF Cancel
<1>14. CASE Cascade(r)
  <2>1. req[r] \in Deleting /\ InTransaction(r)
    BY <1>3, <1>14, Distinct DEF Cascade, At, InTransaction
  <2>2. [req[r] EXCEPT !.op = "cascaded"].op = "cascaded"
    BY <2>1 DEF Deleting
  <2>3. Stays
    BY <1>2, <1>14, <2>1, <2>2 DEF Cascade
  <2> QED BY <1>14, <2>3, CountedStep DEF Cascade
<1> QED BY <1>4, <1>5, <1>6, <1>7, <1>8, <1>9, <1>10, <1>11, <1>12, <1>13, <1>14 DEF Proceed

LEMMA CountedAlways == Spec => [](Inv /\ Counted)
<1>1. Init => Counted
  <2> SUFFICES ASSUME Init PROVE Counted
    OBVIOUS
  <2>1. Transactions = {}
    BY Distinct DEF Init, Transactions, InTransaction, At
  <2> QED BY <2>1, FS_EmptySet, TaxonomyAssumption DEF Init, Counted
<1>2. Inv /\ Counted /\ [Next]_vars => Counted'
  <2> SUFFICES ASSUME Inv, Counted, [Next]_vars PROVE Counted'
    OBVIOUS
  <2>1. CASE UNCHANGED vars
    BY <2>1 DEF vars, Counted, Transactions, InTransaction, At
  <2>2. CASE Next
    BY <2>2, TransactionsCounted DEF Next
  <2> QED BY <2>1, <2>2
<1> QED BY <1>1, <1>2, InitInv, NextStep, PTL DEF Spec

\* The variables keep their types; in particular transactions never hold more connections
\* than the pool has, and none is given back twice.
THEOREM TypeCorrect == Spec => []TypeOK
<1>1. Inv /\ Counted => TypeOK
  BY Distinct DEF Inv, TypeInv, Counted, TypeOK
<1> QED BY <1>1, CountedAlways, PTL

\* While the pool has a connection left, some request in progress can go on, or the
\* database has a deadlock to break: for any numbers of requests and connections, and
\* however saves and deletions wait for each other.
THEOREM OnlyThePoolStops == Spec => []OnlyThePoolStopsAll
<1>1. Inv /\ Counted => OnlyThePoolStopsAll
  <2> SUFFICES ASSUME Inv, Counted, AllWait
               PROVE  /\ taken = MaxConns
                      /\ \E r \in Request : At(r, "assign") /\ req[r].todo # {} /\ req[r].found = {}
    BY DEF Counted, Transactions, OnlyThePoolStopsAll
  <2>1. \A r \in Request : Blocked(r) => r \in Transactions
    BY LocksAreOfTransactions DEF Blocked
  <2>2. \A r \in Transactions : r \in Request /\ Waits(r) /\ ~At(r, "check")
    BY DEF Transactions, InTransaction, AllWait
  <2>3. ASSUME Transactions # {}
        PROVE  \E r \in Transactions : WaitsForConnection(r)
    <3> SUFFICES ASSUME \A r \in Transactions : ~WaitsForConnection(r)
                 PROVE  FALSE
      OBVIOUS
    <3>1. \A r \in Transactions : Blocked(r) /\ ~Deadlocked(r)
      BY <2>2 DEF Waits
    <3> QED BY <2>3, <3>1, SomeCircle DEF Counted
  <2>4. ~Free
    <3>1. PICK r \in Request : Waits(r)
      BY DEF AllWait
    <3>2. CASE Blocked(r)
      BY <2>1, <2>3, <3>2 DEF WaitsForConnection
    <3> QED BY <3>1, <3>2 DEF Waits, WaitsForConnection
  <2>5. taken = MaxConns /\ taken # 0
    BY <2>4, TaxonomyAssumption DEF Counted, Free
  <2>6. Transactions # {}
    BY <2>5, FS_EmptySet DEF Counted
  <2> QED BY <2>2, <2>3, <2>5, <2>6 DEF WaitsForConnection
<1> QED BY <1>1, CountedAlways, PTL

-------------------------------------------------------------------------------
(* The refinement: what a request is about changes when it begins and when   *)
(* it ends, and its end takes effect as Assignments says.                    *)

\* A deletion under way has a term that exists, which no other deletion has.
DeletionsReal ==
    \A r \in Request : Deletes(r) =>
        /\ req[r].term \in terms
        /\ \A s \in Request : HasDeleted(s, req[r].term) => s = r

\* A request goes on, with the terms as they are; it is not a deletion that gets its term.
LEMMA DeletionsStay ==
  ASSUME Inv, DeletionsReal, NEW r \in Request, NEW q, Goes(r, q),
         q.op \notin {"cascade", "cascaded"},
         terms' = terms
  PROVE  DeletionsReal'
<1>1. \A s \in Request : req'[s] = IF s = r THEN q ELSE req[s]
  BY DEF Goes, Inv, TypeInv
<1> QED BY <1>1 DEF DeletionsReal, HasDeleted, Deletes, At

\* What a step of r does to what it is about.
LEMMA AskedGoes ==
  ASSUME Inv, NEW r \in Request, NEW q, Goes(r, q)
  PROVE  Asked' = [Asked EXCEPT ![r] = About(q)]
<1>1. \A s \in Request : req'[s] = IF s = r THEN q ELSE req[s]
  BY DEF Goes, Inv, TypeInv
<1> QED BY <1>1 DEF Asked

\* The three kinds of state, and what a request in them is about.
LEMMA AboutKinds ==
    /\ About(Idle) = Promised!Nothing
    /\ \A q \in Saving : About(q) = Promised!SaveOf(q.post, q.chosen)
    /\ \A q \in Deleting : About(q) = Promised!DeletionOf(q.term)
    /\ \A p, chosen : Promised!SaveOf(p, chosen) # Promised!Nothing
    /\ \A t : Promised!DeletionOf(t) # Promised!Nothing
BY Distinct DEF About, Saving, Deleting, Idle, Promised!Nothing, Promised!SaveOf,
   Promised!DeletionOf

\* What r does shows in neither.
Hidden(r) == \E q : /\ Goes(r, q) /\ About(q) = About(req[r])
                   /\ q.op \notin {"cascade", "cascaded"}
                   /\ UNCHANGED <<terms, assigned>>

\* The step of an idle request.
LEMMA BeginSimulation ==
  ASSUME Inv, DeletionsReal, NEW r \in Request,
         \/ \E p \in Post, chosen \in SUBSET Term : BeginSave(r, p, chosen)
         \/ \E t \in Term : CheckTerm(r, t)
  PROVE  Promised!Next /\ DeletionsReal'
<1>1. Asked[r] = Promised!Nothing
  BY AboutKinds, Distinct DEF BeginSave, CheckTerm, At, Asked, Inv, TypeInv
<1>2. ASSUME NEW p \in Post, NEW chosen \in SUBSET Term, BeginSave(r, p, chosen)
      PROVE  Promised!Next /\ DeletionsReal'
  <2>1. Save(p, chosen) \in Saving /\ Save(p, chosen).op = "update"
    BY DEF Save, Saving
  <2>2. Save(p, chosen).post = p /\ Save(p, chosen).chosen = chosen
    BY DEF Save
  <2>3. Asked' = [Asked EXCEPT ![r] = Promised!SaveOf(p, chosen)]
    BY <1>2, <2>1, <2>2, AskedGoes, AboutKinds DEF BeginSave
  <2>4. Promised!Ask(r, Promised!SaveOf(p, chosen))
    BY <1>1, <1>2, <2>3 DEF Promised!Ask, BeginSave
  <2>5. DeletionsReal'
    BY <1>2, <2>1, DeletionsStay DEF BeginSave
  <2> QED BY <2>4, <2>5 DEF Promised!Next
<1>3. ASSUME NEW t \in Term, CheckTerm(r, t)
      PROVE  Promised!Next /\ DeletionsReal'
  <2>1. Deletion(t) \in Deleting /\ Deletion(t).op = "check" /\ Deletion(t).term = t
    BY DEF Deletion, Deleting
  <2>2. Asked' = [Asked EXCEPT ![r] = Promised!DeletionOf(t)]
    BY <1>3, <2>1, AskedGoes, AboutKinds DEF CheckTerm
  <2>3. Promised!Ask(r, Promised!DeletionOf(t)) /\ t \in terms
    BY <1>1, <1>3, <2>2 DEF Promised!Ask, CheckTerm
  <2>4. DeletionsReal'
    BY <1>3, <2>1, DeletionsStay DEF CheckTerm
  <2> QED BY <2>3, <2>4 DEF Promised!Next
<1> QED BY <1>2, <1>3

\* A request that ends without effect.
LEMMA FailSimulation ==
  ASSUME Inv, DeletionsReal, NEW r \in Request, Goes(r, Idle), ~At(r, "idle"),
         UNCHANGED <<terms, assigned>>
  PROVE  Promised!Next /\ DeletionsReal'
<1>1. req[r] \in Saving \cup Deleting
  BY DEF Inv, TypeInv, At, Idle
<1>2. Asked[r] # Promised!Nothing
  BY <1>1, AboutKinds DEF Asked
<1>3. Asked' = [Asked EXCEPT ![r] = Promised!Nothing]
  BY AskedGoes, AboutKinds
<1>4. Promised!Fail(r)
  BY <1>2, <1>3 DEF Promised!Fail, Promised!Done
<1>5. DeletionsReal'
  BY DeletionsStay, Distinct
<1> QED BY <1>4, <1>5 DEF Promised!Next

LEMMA HiddenSimulation ==
  ASSUME Inv, DeletionsReal, NEW r \in Request, Hidden(r)
  PROVE  UNCHANGED Promised!vars /\ DeletionsReal'
<1>1. PICK q : /\ Goes(r, q) /\ About(q) = About(req[r])
               /\ q.op \notin {"cascade", "cascaded"}
               /\ UNCHANGED <<terms, assigned>>
  BY DEF Hidden
<1>2. Asked' = Asked
  BY <1>1, AskedGoes DEF Asked
<1> QED BY <1>1, <1>2, DeletionsStay DEF Promised!vars

\* The steps of a save between its beginning and its end.
LEMMA SaveHidden ==
  ASSUME Inv, NEW r \in Request,
         UpdatePost(r) \/ DetachAll(r) \/ LookUp(r) \/ (Attach(r) /\ ~Abort(r))
  PROVE  Hidden(r)
<1>1. req[r] \in Saving
  BY Distinct DEF UpdatePost, DetachAll, AxisDone, LookUp, Attach, At, Inv, TypeInv
<1>2. ASSUME NEW q \in Saving, Goes(r, q), UNCHANGED <<terms, assigned>>,
             q.post = req[r].post, q.chosen = req[r].chosen
      PROVE  Hidden(r)
  BY <1>1, <1>2, AboutKinds, Distinct DEF Hidden
<1>3. CASE UpdatePost(r)
  <2> DEFINE q == [req[r] EXCEPT !.op = "assign"]
  <2>1. q \in Saving /\ q.post = req[r].post /\ q.chosen = req[r].chosen
    BY <1>1 DEF Saving
  <2> QED BY <1>2, <1>3, <2>1 DEF UpdatePost
<1>4. CASE DetachAll(r)
  <2> DEFINE axis == Axes[req[r].axis + 1]
             q == [req[r] EXCEPT !.axis = @ + 1, !.todo = req[r].chosen \cap axis,
                                 !.detached = @ \cup Detached(axis, req[r].chosen)]
  <2>1. req[r].axis \in {0, 1}
    BY <1>1, <1>4 DEF DetachAll, Saving, Axes
  <2>2. axis \subseteq Term
    BY <2>1 DEF Axes, Term
  <2>3. req[r].axis + 1 \in 0 .. 2 /\ req[r].chosen \cap axis \subseteq Term
    BY <2>1, <2>2
  <2>4. Goes(r, q) /\ UNCHANGED <<terms, assigned>>
    BY <1>4 DEF DetachAll
  <2>5. q = [req[r] EXCEPT !.axis = req[r].axis + 1, !.todo = req[r].chosen \cap axis,
                           !.detached = req[r].detached \cup axis]
    BY DEF Detached
  <2> HIDE DEF axis, q
  <2>6. q \in Saving /\ q.post = req[r].post /\ q.chosen = req[r].chosen
    BY <1>1, <2>2, <2>3, <2>5 DEF Saving
  <2> QED BY <1>2, <2>4, <2>6
<1>5. CASE LookUp(r)
  <2>1. PICK t \in req[r].todo :
           Goes(r, [req[r] EXCEPT !.todo = @ \ {t}, !.found = {t} \cap terms])
    BY <1>5 DEF LookUp
  <2> DEFINE q == [req[r] EXCEPT !.todo = @ \ {t}, !.found = {t} \cap terms]
  <2>2. q \in Saving /\ q.post = req[r].post /\ q.chosen = req[r].chosen
    BY <1>1 DEF Saving
  <2> QED BY <1>2, <1>5, <2>1, <2>2 DEF LookUp
<1>6. CASE Attach(r) /\ ~Abort(r)
  <2>1. PICK t \in req[r].found :
           /\ Goes(r, [req[r] EXCEPT !.found = {}, !.attached = @ \cup {t}])
           /\ UNCHANGED <<terms, assigned>>
    BY <1>6 DEF Attach
  <2> DEFINE q == [req[r] EXCEPT !.found = {}, !.attached = @ \cup {t}]
  <2>2. q \in Saving /\ q.post = req[r].post /\ q.chosen = req[r].chosen
    BY <1>1 DEF Saving
  <2> QED BY <1>2, <2>1, <2>2
<1> QED BY <1>3, <1>4, <1>5, <1>6

LEMMA CommitSimulation ==
  ASSUME Inv, DeletionsReal, NEW r \in Request, Commit(r)
  PROVE  Promised!Next /\ DeletionsReal'
<1>1. req[r] \in Saving
  BY Assigning DEF Commit, AxisDone
<1>2. Asked[r] = Promised!SaveOf(req[r].post, req[r].chosen)
  BY <1>1, AboutKinds DEF Asked
<1>3. /\ Asked[r].op = "save" /\ Asked[r].post = req[r].post
      /\ Asked[r].chosen = req[r].chosen
  BY <1>2 DEF Promised!SaveOf
<1>4. Asked' = [Asked EXCEPT ![r] = Promised!Nothing]
  BY AskedGoes, AboutKinds DEF Commit
<1>5. assigned' = [assigned EXCEPT ![Asked[r].post] = Asked[r].chosen \cap terms]
  BY <1>3, Through
<1>6. Promised!Replace(r)
  BY <1>3, <1>4, <1>5 DEF Promised!Replace, Promised!Done, Commit
<1>7. DeletionsReal'
  BY DeletionsStay, Distinct DEF Commit
<1> QED BY <1>6, <1>7 DEF Promised!Next

LEMMA CommitDeleteSimulation ==
  ASSUME Inv, DeletionsReal, NEW r \in Request, CommitDelete(r)
  PROVE  Promised!Next /\ DeletionsReal'
<1>1. req[r] \in Deleting /\ req[r].term \in terms
  BY Distinct DEF CommitDelete, Deletes, At, Inv, TypeInv, DeletionsReal
<1>2. Asked[r] = Promised!DeletionOf(req[r].term)
  BY <1>1, AboutKinds DEF Asked
<1>3. Asked[r].op = "delete" /\ Asked[r].term = req[r].term
  BY <1>2 DEF Promised!DeletionOf
<1>4. Asked' = [Asked EXCEPT ![r] = Promised!Nothing]
  BY AskedGoes, AboutKinds DEF CommitDelete
<1>5. Promised!Delete(r)
  BY <1>1, <1>3, <1>4 DEF Promised!Delete, Promised!Done, CommitDelete
<1>6. DeletionsReal'
  <2>1. \A s \in Request : req'[s] = IF s = r THEN Idle ELSE req[s]
    BY DEF CommitDelete, Goes, Inv, TypeInv
  <2>2. terms' = terms \ {req[r].term}
    BY DEF CommitDelete
  <2> QED BY <2>1, <2>2, Distinct DEF DeletionsReal, HasDeleted, Deletes, At, CommitDelete
<1> QED BY <1>5, <1>6 DEF Promised!Next

LEMMA DeleteSimulation ==
  ASSUME Inv, DeletionsReal, NEW r \in Request,
         BeginDelete(r) \/ (DeleteTerm(r) /\ ~Abort(r)) \/ Cascade(r)
  PROVE  UNCHANGED Promised!vars /\ DeletionsReal'
<1>1. req[r] \in Deleting
  BY Distinct DEF BeginDelete, DeleteTerm, Cascade, At, Inv, TypeInv
<1>2. CASE BeginDelete(r)
  <2> DEFINE q == [req[r] EXCEPT !.op = "delete"]
  <2>1. q \in Deleting /\ q.op = "delete" /\ q.term = req[r].term
    BY <1>1 DEF Deleting
  <2>2. About(q) = About(req[r])
    BY <1>1, <2>1, AboutKinds
  <2>3. Hidden(r)
    BY <1>2, <2>1, <2>2 DEF BeginDelete, Hidden
  <2> QED BY <2>3, HiddenSimulation
<1>3. CASE (DeleteTerm(r) /\ ~Abort(r)) \/ Cascade(r)
  <2>1. PICK op \in {"cascade", "cascaded"} :
           /\ Goes(r, [req[r] EXCEPT !.op = op]) /\ UNCHANGED <<terms, assigned>>
           /\ req[r].term \in terms
           /\ \A s \in Request : HasDeleted(s, req[r].term) => s = r
    <3>1. CASE DeleteTerm(r) /\ ~Abort(r)
      BY <3>1 DEF DeleteTerm, Blocked, WaitsFor
    <3>2. CASE Cascade(r)
      BY <3>2 DEF Cascade, DeletionsReal, Deletes
    <3> QED BY <1>3, <3>1, <3>2
  <2> DEFINE q == [req[r] EXCEPT !.op = op]
  <2>2. q \in Deleting /\ q.op = op /\ q.term = req[r].term
    BY <1>1 DEF Deleting
  <2>3. /\ Goes(r, q) /\ UNCHANGED <<terms, assigned>>
        /\ q.term \in terms /\ \A s \in Request : HasDeleted(s, q.term) => s = r
    BY <2>1, <2>2
  <2> HIDE DEF q
  <2>4. About(q) = About(req[r])
    BY <1>1, <2>2, AboutKinds
  <2>5. Asked' = Asked
    BY <2>3, <2>4, AskedGoes DEF Asked
  <2>6. DeletionsReal'
    <3>1. \A s \in Request : req'[s] = IF s = r THEN q ELSE req[s]
      BY <2>3 DEF Goes, Inv, TypeInv
    <3> QED BY <2>2, <2>3, <3>1 DEF DeletionsReal, HasDeleted, Deletes, At
  <2> QED BY <2>3, <2>5, <2>6 DEF Promised!vars
<1> QED BY <1>2, <1>3

LEMMA StepSimulation ==
  Inv /\ DeletionsReal /\ [Next]_vars => [Promised!Next]_(Promised!vars) /\ DeletionsReal'
<1> SUFFICES ASSUME Inv, DeletionsReal, [Next]_vars
             PROVE  (Promised!Next \/ UNCHANGED Promised!vars) /\ DeletionsReal'
  OBVIOUS
<1>1. CASE UNCHANGED vars
  BY <1>1 DEF vars, Promised!vars, Asked, DeletionsReal, HasDeleted, Deletes, At
<1>2. ASSUME NEW r \in Request, Abort(r), ~At(r, "idle")
      PROVE  Promised!Next /\ DeletionsReal'
  BY <1>2, FailSimulation DEF Abort
<1>3. ASSUME NEW r \in Request, Proceed(r)
      PROVE  (Promised!Next \/ UNCHANGED Promised!vars) /\ DeletionsReal'
  <2>1. CASE BreakDeadlock(r)
    <3>1. ~At(r, "idle")
      BY <2>1, AwaitedAreTransactions
         DEF BreakDeadlock, Deadlocked, Transactions, InTransaction
    <3> QED BY <1>2, <2>1, <3>1 DEF BreakDeadlock
  <2>2. CASE (Attach(r) \/ DeleteTerm(r)) /\ Abort(r)
    <3>1. ~At(r, "idle")
      BY <2>2 DEF Attach, DeleteTerm, At
    <3> QED BY <1>2, <2>2, <3>1
  <2> QED BY <1>3, <2>1, <2>2, SaveHidden, HiddenSimulation, CommitSimulation,
             CommitDeleteSimulation, DeleteSimulation DEF Proceed
<1>4. ASSUME NEW r \in Request, Cancel(r)
      PROVE  Promised!Next /\ DeletionsReal'
  BY <1>4, <1>2, FailSimulation DEF Cancel, InTransaction, At
<1> QED BY <1>1, <1>3, <1>4, BeginSimulation DEF Next

\* Saves and deletions are atomic: each takes effect at one instant, whole, by the terms
\* that exist then, or not at all.
THEOREM TaxonomyImplementsAssignments == Spec => ImplementsAssignments
<1>1. Init => Promised!Init /\ DeletionsReal
  <2> SUFFICES ASSUME Init PROVE Promised!Init /\ DeletionsReal
    OBVIOUS
  <2>1. Asked = [r \in Request |-> Promised!Nothing]
    BY AboutKinds DEF Init, Asked
  <2> QED BY <2>1, Distinct DEF Init, Promised!Init, DeletionsReal, Deletes, At
<1> QED
  BY <1>1, InvAlways, StepSimulation, PTL DEF Spec, ImplementsAssignments, Promised!Spec
===============================================================================
