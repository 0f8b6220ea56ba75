-------------------------- MODULE MCMutationGates ---------------------------
(***************************************************************************)
(* Small instances of MutationGates for TLC.                               *)
(***************************************************************************)
EXTENDS MutationGates, TLC

\* Read blocks and files are interchangeable; so are contents, which
\* are only compared for equality.
Symmetry ==
    Permutations(Reader)
        \cup Permutations(Path) \cup Permutations(Content)

\* What the files, their anchors and the requests hold.
ContentsInUse ==
    ({disk[w] : w \in Watched} \cup {tracked[w] : w \in Watched}
        \cup {block[r].hash : r \in Reader}
        \cup {request.head, request.anchor, request.hash}) \ {NoHash}

\* It takes three contents for a file to be edited and anchored anew and to be
\* drifted all the time; approvals and overrides do not add to that, and for
\* them two contents do.
Supervised == \E a \in Approval : approval[a].status # "none"
Small == Cardinality(ContentsInUse) <= 2 \/ (~Supervised /\ given = 0)

SmallInit == Init /\ Small

SmallSpec == SmallInit /\ [][Next /\ Small']_vars
=============================================================================
