--------------------------- MODULE MCNestedCalls ----------------------------
(***************************************************************************)
(* Small instances of NestedCalls for TLC.                                 *)
(***************************************************************************)
EXTENDS NestedCalls

CONSTANTS p1, c1

Ask(method, plan) == [method |-> method, approved |-> FALSE, plan |-> plan]
Approve(method, plan) == [method |-> method, approved |-> TRUE, plan |-> plan]
Do(chip) == [chip |-> chip, path |-> p1]

\* Requests that leave the main queue free to serve its later blocks; an
\* approved patch goes the way of one that needs no approval.
ServedCalls ==
    {Ask("patch", <<Do("patch")>>),
     Ask("combo", <<Do("read"), Do("patch")>>),
     Ask("combo", <<Do("verify"), Do("write")>>),
     Ask("combo", <<Do("verify")>>),
     Approve("combo", <<Do("read"), Do("verify")>>),
     Ask("cancel", <<>>),
     Ask("rollback", <<>>)}

\* A combo that patches, and the approval of one.
PatchCombo == {Ask("combo", <<Do("patch")>>)}
ApprovedCombo == {Approve("combo", <<Do("patch")>>)}

\* Requests and contents are interchangeable, and temporal properties rule out
\* SYMMETRY: so requests, which are numbers here, are sent in their order, and
\* every file holds the same at first.  Two of the requests may be combos.
InitInTurn ==
    /\ disk = [p \in Path |-> c1]
    /\ Init
    /\ \A r \in Request : r > 2 => call[r].method # "combo"

InTurn ==
    \A r \in Request : \A q \in 1..(r - 1) : stage[r] # "unsent" => stage[q] # "unsent"

SpecInTurn == InitInTurn /\ [][Next /\ InTurn']_vars /\ Fairness
=============================================================================
