------------------------------- MODULE MCOutbox -------------------------------
(***************************************************************************)
(* Instances of Outbox for TLC.                                            *)
(***************************************************************************)
EXTENDS Outbox, TLC

CONSTANTS e1, e2, t1, t2, w1, w2

MCEvent == {e1, e2}
MCTx == {t1, t2}
MCRelays == {w1, w2}
MCRelay == {w1}

\* Workers are interchangeable, and so are events and units of work.
Symmetry == Permutations(MCEvent) \cup Permutations(MCTx) \cup Permutations(MCRelays)
===============================================================================
