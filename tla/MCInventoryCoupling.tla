------------------------- MODULE MCInventoryCoupling -------------------------
(* Instances of InventoryCoupling for TLC. *)
EXTENDS InventoryCoupling

CONSTANTS s1, s2, r1, r2, w1, v1, t1, t2, t3

Documents == {s1, s2, r1, r2, w1, v1}
KindOfEach == [d \in Documents |-> CASE d \in {s1, s2} -> "sale"
                                     [] d \in {r1, r2} -> "receipt"
                                     [] d = w1 -> "writeoff"
                                     [] d = v1 -> "return"]
\* s1 and r1 cancel out; r2 is bonus goods; the void v1 restores a dearer lot than
\* the sale was booked with.
WorthOfEach == [d \in Documents |-> CASE d = r2 -> 0 [] d \in {s2, v1} -> 2 [] OTHER -> 1]
CreditOfEach == [d \in Documents |-> IF d = v1 THEN 1 ELSE 0]
=============================================================================
