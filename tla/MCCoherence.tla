---------------------------- MODULE MCCoherence -----------------------------
(***************************************************************************)
(* Small instances of Coherence for TLC.                                   *)
(***************************************************************************)
EXTENDS Coherence, TLC

\* Tasks, blocks of the read queue and contents are interchangeable: nothing
\* orders them, and Oldest chooses by token number.
Symmetry ==
    Permutations(Task) \cup Permutations(Reader) \cup Permutations(Content)
=============================================================================
