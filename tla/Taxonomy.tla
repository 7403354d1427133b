------------------------------- MODULE Taxonomy -------------------------------
(***************************************************************************)
(* The categories and tags of posts (AssignTx of internal/content/         *)
(* categories and tags, called by the transaction that saves a post), the  *)
(* deletion of categories and tags, the row locks the two meet on, and the *)
(* connection pool they share.                                             *)
(*                                                                         *)
(* A save replaces both sets: it detaches everything, then looks each      *)
(* chosen id up and attaches it.  The lookup is not part of the            *)
(* transaction: it takes a second connection from the pool while the       *)
(* transaction holds its own.                                              *)
(***************************************************************************)
EXTENDS Naturals, FiniteSets, Sequences

CONSTANTS Post,
          Category, Tag,
          Request,      \* goroutines serving an editor's request
          MaxConns,     \* connections of the pool
          MaxRequests   \* bound of the model: requests ever begun

ASSUME TaxonomyAssumption ==
    Category \cap Tag = {} /\ MaxConns \in Nat \ {0} /\ MaxRequests \in Nat

Term == Category \cup Tag
Axes == <<Category, Tag>>   \* assigned in this order

VARIABLES
    terms,     \* the rows of categories and tags
    assigned,  \* assigned[p]: the rows of post_categories and post_tags of post p
    req,       \* req[r]: where a request is, and what its transaction has written
    taken,     \* connections held by transactions
    begun      \* requests begun (bounds the model)

vars == <<terms, assigned, req, taken, begun>>

Idle == [op |-> "idle"]
Save(p, chosen) == [op |-> "update", post |-> p, chosen |-> chosen,
                    axis |-> 0,          \* axes detached so far
                    detached |-> {}, attached |-> {},
                    todo |-> {},         \* ids of the axis still to look up
                    found |-> {}]        \* the one looked up and not attached yet
Deletion(t) == [op |-> "check", term |-> t]

Init == /\ terms = Term
        /\ assigned \in [Post -> SUBSET Term]
        /\ req = [r \in Request |-> Idle]
        /\ taken = 0
        /\ begun = 0

At(r, op) == req[r].op = op
Free == taken < MaxConns
InTransaction(r) == ~(At(r, "idle") \/ At(r, "check"))
Goes(r, to) == req' = [req EXCEPT ![r] = to]
Begins == begun < MaxRequests /\ begun' = begun + 1

\* Mutants: a transaction's connection is lost; or given back twice.
ReleasedNever == taken
ReleasedTwice == taken - 2

\* The connection a transaction gives back at its end.
Released == taken - 1

\* The transaction of r ends without effect.
Abort(r) == /\ Goes(r, Idle)
            /\ taken' = Released
            /\ UNCHANGED <<terms, assigned, begun>>

-------------------------------------------------------------------------------
(* Row locks: held until the transaction ends.                              *)

HasPost(r, p) == At(r, "assign") /\ req[r].post = p
HasJoinRow(r, t) == At(r, "assign") /\ t \in assigned[req[r].post] \cap req[r].detached
Deletes(r) == At(r, "cascade") \/ At(r, "cascaded")
HasDeleted(r, t) == Deletes(r) /\ req[r].term = t
HasCascaded(r, t) == At(r, "cascaded") /\ req[r].term = t

\* Mutant: join rows without foreign keys.
KeepsNothing(r, t) == FALSE

\* The foreign key of a new join row keeps its term.
Keeps(r, t) == At(r, "assign") /\ t \in req[r].attached

\* AssignTx has come to its next axis, or to its end.
AxisDone(r) == At(r, "assign") /\ req[r].todo \cup req[r].found = {}

\* The statement that r has come to waits for a lock of s: an update of a post for its
\* row, a detachment for the join rows that a cascade has deleted, an attachment for the
\* deletion of the term, a deletion for another one and for new join rows, its cascade
\* for the join rows that a save has deleted.
WaitsFor(r, s) ==
    \/ At(r, "update") /\ HasPost(s, req[r].post)
    \/ /\ AxisDone(r) /\ req[r].axis < Len(Axes)
       /\ \E t \in assigned[req[r].post] \cap Axes[req[r].axis + 1] : HasCascaded(s, t)
    \/ At(r, "assign") /\ \E t \in req[r].found : HasDeleted(s, t)
    \/ At(r, "delete") /\ (HasDeleted(s, req[r].term) \/ Keeps(s, req[r].term))
    \/ At(r, "cascade") /\ HasJoinRow(s, req[r].term)

Blocked(r) == \E s \in Request : WaitsFor(r, s)

\* The requests that r waits for, at once or in the end.
AwaitedBy(r) ==
    {s \in Request : \A D \in SUBSET Request :
        /\ \A x \in Request : WaitsFor(r, x) => x \in D
        /\ \A x \in D, y \in Request : WaitsFor(x, y) => y \in D
        => s \in D}
Deadlocked(r) == r \in AwaitedBy(r)

-------------------------------------------------------------------------------
(* Saving a post.                                                           *)

\* The transaction of a save begins.
BeginSave(r, p, chosen) ==
    /\ At(r, "idle") /\ Begins
    /\ Free
    /\ taken' = taken + 1
    /\ Goes(r, Save(p, chosen))
    /\ UNCHANGED <<terms, assigned>>

\* UpdateTx locks the row of the post.
UpdatePost(r) ==
    /\ At(r, "update")
    /\ ~Blocked(r)
    /\ Goes(r, [req[r] EXCEPT !.op = "assign"])
    /\ UNCHANGED <<terms, assigned, taken, begun>>

\* Mutant: an empty selection leaves the axis as it is.
DetachedIfChosen(axis, chosen) == IF chosen \cap axis = {} THEN {} ELSE axis

\* What DetachAllTx removes from the post.
Detached(axis, chosen) == axis

\* AssignTx on the next axis.
DetachAll(r) ==
    LET q == req[r] IN
    /\ AxisDone(r) /\ q.axis < Len(Axes)
    /\ ~Blocked(r)
    /\ LET axis == Axes[q.axis + 1] IN
       Goes(r, [q EXCEPT !.axis = @ + 1, !.todo = q.chosen \cap axis,
                         !.detached = @ \cup Detached(axis, q.chosen)])
    /\ UNCHANGED <<terms, assigned, taken, begun>>

\* GetByID, on another connection of the pool; an unknown id is skipped.
LookUp(r) ==
    /\ At(r, "assign") /\ req[r].found = {}
    /\ Free
    /\ \E t \in req[r].todo :
          Goes(r, [req[r] EXCEPT !.todo = @ \ {t}, !.found = {t} \cap terms])
    /\ UNCHANGED <<terms, assigned, taken, begun>>

\* AttachTx waits for a deletion of the term; if the term is gone, the foreign key
\* fails the save.
Attach(r) ==
    /\ At(r, "assign")
    /\ \E t \in req[r].found :
          \/ /\ t \in terms
             /\ ~Blocked(r)
             /\ Goes(r, [req[r] EXCEPT !.found = {}, !.attached = @ \cup {t}])
             /\ UNCHANGED <<terms, assigned, taken, begun>>
          \/ t \notin terms /\ Abort(r)

Commit(r) ==
    LET q == req[r] IN
    /\ AxisDone(r) /\ q.axis = Len(Axes)
    /\ assigned' = [assigned EXCEPT ![q.post] = (@ \ q.detached) \cup q.attached]
    /\ Goes(r, Idle)
    /\ taken' = Released
    /\ UNCHANGED <<terms, begun>>

-------------------------------------------------------------------------------
(* Deleting a category or a tag.                                            *)

\* Delete looks the term up first.
CheckTerm(r, t) ==
    /\ At(r, "idle") /\ Begins
    /\ Free
    /\ t \in terms
    /\ Goes(r, Deletion(t))
    /\ UNCHANGED <<terms, assigned, taken>>

BeginDelete(r) ==
    /\ At(r, "check")
    /\ Free
    /\ taken' = taken + 1
    /\ Goes(r, [req[r] EXCEPT !.op = "delete"])
    /\ UNCHANGED <<terms, assigned, begun>>

\* The row goes as soon as no new join row needs it and no other deletion has it; when
\* it is gone already, the statement deletes nothing.
DeleteTerm(r) ==
    LET t == req[r].term IN
    /\ At(r, "delete")
    /\ \/ /\ t \in terms
          /\ ~Blocked(r)
          /\ Goes(r, [req[r] EXCEPT !.op = "cascade"])
          /\ UNCHANGED <<terms, assigned, taken, begun>>
       \/ t \notin terms /\ Abort(r)

\* The cascade waits for the join rows that saves have deleted.
Cascade(r) ==
    /\ At(r, "cascade")
    /\ ~Blocked(r)
    /\ Goes(r, [req[r] EXCEPT !.op = "cascaded"])
    /\ UNCHANGED <<terms, assigned, taken, begun>>

CommitDelete(r) ==
    LET t == req[r].term IN
    /\ At(r, "cascaded")
    /\ terms' = terms \ {t}
    /\ assigned' = [p \in Post |-> assigned[p] \ {t}]
    /\ Goes(r, Idle)
    /\ taken' = Released
    /\ UNCHANGED begun

-------------------------------------------------------------------------------
(* Ends from outside.                                                       *)

\* PostgreSQL finds that transactions wait for each other in a circle, as saves and
\* deletions may, and aborts one of them.
BreakDeadlock(r) == Blocked(r) /\ Deadlocked(r) /\ Abort(r)

\* The client goes away, which cancels the context of the request.
Cancel(r) == \/ InTransaction(r) /\ Abort(r)
             \/ /\ At(r, "check")
                /\ Goes(r, Idle)
                /\ UNCHANGED <<terms, assigned, taken, begun>>

\* A step of the server towards the end of a request.
Proceed(r) == \/ UpdatePost(r) \/ DetachAll(r) \/ LookUp(r) \/ Attach(r) \/ Commit(r)
              \/ BeginDelete(r) \/ DeleteTerm(r) \/ Cascade(r) \/ CommitDelete(r)
              \/ BreakDeadlock(r)

Next == \E r \in Request :
          \/ \E p \in Post, chosen \in SUBSET Term : BeginSave(r, p, chosen)
          \/ \E t \in Term : CheckTerm(r, t)
          \/ Proceed(r)
          \/ Cancel(r)

Spec == Init /\ [][Next]_vars

-------------------------------------------------------------------------------
(* Properties.                                                              *)

TypeOK ==
    /\ terms \subseteq Term
    /\ assigned \in [Post -> SUBSET Term]
    /\ \A r \in Request : req[r].op \in {"idle", "update", "assign",
                                        "check", "delete", "cascade", "cascaded"}
    /\ taken \in 0 .. MaxConns
    /\ begun \in 0 .. MaxRequests

\* Whatever is deleted while posts are saved, no post keeps a category or tag that is
\* gone.
NothingDangles == \A p \in Post : assigned[p] \subseteq terms

\* What a request is about, as the editor sees it.
About(q) == CASE q.op = "idle" -> [op |-> "nothing"]
              [] q.op \in {"update", "assign"} ->
                    [op |-> "save", post |-> q.post, chosen |-> q.chosen]
              [] OTHER -> [op |-> "delete", term |-> q.term]
Asked == [r \in Request |-> About(req[r])]

Promised == INSTANCE Assignments WITH asked <- Asked

\* Every behaviour is one of Assignments: though a save is many statements over two axes
\* and looks ids up outside its transaction while terms are deleted, it takes effect
\* at one instant, whole, by what exists then; and a term is deleted once.
ImplementsAssignments == Promised!Spec

\* r waits: for a connection, or for a lock that the database does not have to wrest
\* from a circle.
WaitsForConnection(r) ==
    /\ ~Free
    /\ \/ At(r, "check")
       \/ At(r, "assign") /\ req[r].todo # {} /\ req[r].found = {}
Waits(r) == WaitsForConnection(r) \/ (Blocked(r) /\ ~Deadlocked(r))
AllWait == /\ \E r \in Request : ~At(r, "idle")
           /\ \A r \in Request : ~At(r, "idle") => Waits(r)

\* Saves and deletions never all wait for each other while the pool has a connection
\* left: if every request in progress waits, transactions hold every connection, and one
\* of them needs a second one.
OnlyThePoolStopsAll ==
    AllWait => /\ taken = MaxConns /\ taken = Cardinality({r \in Request : InTransaction(r)})
               /\ \E r \in Request : At(r, "assign") /\ req[r].todo # {} /\ req[r].found = {}
===============================================================================
