--------------------------- MODULE MCCheckReplay ---------------------------
(* Instances of CheckReplay for TLC. *)
EXTENDS CheckReplay, TLC

Ev(kind, c) == [kind |-> kind, check |-> c]

CONSTANTS d1, d2

SlotSymmetry == Permutations(Slots)

\* A party pays and the next one is seated; or dishes are sent to the kitchen, lines
\* are voided, then all.
Parties == {<<Ev("create", d1), Ev("sale", d1), Ev("create", d2)>>,
            <<Ev("create", d1), Ev("kot", d1), Ev("update", d1), Ev("cancel", d1)>>}
=============================================================================
