------------------------------ MODULE Assignments ------------------------------
(***************************************************************************)
(* What the assignment of categories and tags promises to the editors of   *)
(* posts: a save replaces the whole selection of its post at one instant,  *)
(* by what was chosen and exists at that instant, and a deletion takes a   *)
(* term from every post at one instant; or nothing happens.  There are no  *)
(* statements, transactions, locks or connections here.                    *)
(***************************************************************************)
CONSTANTS Post, Term,
          Request    \* goroutines serving an editor's request

VARIABLES terms,     \* the categories and tags there are
          assigned,  \* assigned[p]: those of post p
          asked      \* asked[r]: what the request is about and has not done yet

vars == <<terms, assigned, asked>>

Nothing == [op |-> "nothing"]
SaveOf(p, chosen) == [op |-> "save", post |-> p, chosen |-> chosen]
DeletionOf(t) == [op |-> "delete", term |-> t]

Init == /\ terms = Term
        /\ assigned \in [Post -> SUBSET Term]
        /\ asked = [r \in Request |-> Nothing]

Ask(r, what) == /\ asked[r] = Nothing
                /\ asked' = [asked EXCEPT ![r] = what]
                /\ UNCHANGED <<terms, assigned>>

Done(r) == asked' = [asked EXCEPT ![r] = Nothing]

Replace(r) ==
    LET what == asked[r] IN
    /\ what.op = "save"
    /\ assigned' = [assigned EXCEPT ![what.post] = what.chosen \cap terms]
    /\ Done(r)
    /\ UNCHANGED terms

Delete(r) ==
    LET what == asked[r] IN
    /\ what.op = "delete" /\ what.term \in terms
    /\ terms' = terms \ {what.term}
    /\ assigned' = [p \in Post |-> assigned[p] \ {what.term}]
    /\ Done(r)

\* The request fails, or there is nothing left to delete.
Fail(r) == /\ asked[r] # Nothing
           /\ Done(r)
           /\ UNCHANGED <<terms, assigned>>

Next == \E r \in Request :
          \/ \E p \in Post, chosen \in SUBSET Term : Ask(r, SaveOf(p, chosen))
          \/ \E t \in terms : Ask(r, DeletionOf(t))
          \/ Replace(r) \/ Delete(r) \/ Fail(r)

Spec == Init /\ [][Next]_vars
===============================================================================
