------------------------------ MODULE AtLeastOnce ------------------------------
(***************************************************************************)
(* What the transactional outbox promises to a publisher of asynchronous   *)
(* events, without transactions, rows, locks or relays.                    *)
(*                                                                         *)
(* A unit of work makes all its events pending at once, or none.  While an *)
(* event is pending its handlers may run any number of times and a dispatch*)
(* of it may fail.  The event leaves the pool for good either as handled,  *)
(* when every handler has completed at least once, or as given up, when at *)
(* least MaxAttempts dispatches failed.                                    *)
(***************************************************************************)
EXTENDS Naturals

CONSTANTS Event,        \* the events that may be published
          Handler,      \* the asynchronous handlers of an event
          MaxAttempts   \* failed dispatches before an event is given up

VARIABLES phase,        \* phase[e]: where the event is in its life
          completed,    \* completed[e][h]: how often handler h completed for e
          failed        \* failed[e]: how often a dispatch of e failed

vars == <<phase, completed, failed>>

Phase == {"unpublished", "pending", "handled", "abandoned"}

Init == /\ phase = [e \in Event |-> "unpublished"]
        /\ completed = [e \in Event |-> [h \in Handler |-> 0]]
        /\ failed = [e \in Event |-> 0]

\* The unit of work that published the events of S takes effect.
Accept(S) == /\ \A e \in S : phase[e] = "unpublished"
             /\ phase' = [e \in Event |-> IF e \in S THEN "pending" ELSE phase[e]]
             /\ UNCHANGED <<completed, failed>>

\* A handler completes for a pending event: its effect has happened.
Complete(e, h) == /\ phase[e] = "pending"
                  /\ completed' = [completed EXCEPT ![e][h] = @ + 1]
                  /\ UNCHANGED <<phase, failed>>

\* A dispatch of a pending event fails.
Fail(e) == /\ phase[e] = "pending"
           /\ failed' = [failed EXCEPT ![e] = @ + 1]
           /\ UNCHANGED <<phase, completed>>

\* One relay pass takes the events of H out of the pool as handled and those of
\* G as given up.
Settle(H, G) ==
    /\ \A e \in H \cup G : phase[e] = "pending"
    /\ \A e \in H, h \in Handler : completed[e][h] > 0
    /\ \A e \in G : failed[e] >= MaxAttempts
    /\ phase' = [e \in Event |-> IF e \in H THEN "handled"
                                 ELSE IF e \in G THEN "abandoned" ELSE phase[e]]
    /\ UNCHANGED <<completed, failed>>

Next == \/ \E S \in SUBSET Event : Accept(S)
        \/ \E e \in Event : Fail(e) \/ \E h \in Handler : Complete(e, h)
        \/ \E H, G \in SUBSET Event : Settle(H, G)

Spec == Init /\ [][Next]_vars
===============================================================================
