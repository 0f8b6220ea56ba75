------------------------- MODULE MCCoherenceRecovery ------------------------
(***************************************************************************)
(* A small instance of CoherenceRecovery for TLC: the agent patches p1 and *)
(* may have read p2 as well.                                               *)
(***************************************************************************)
EXTENDS CoherenceRecovery
=============================================================================
