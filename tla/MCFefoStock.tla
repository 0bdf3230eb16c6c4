---------------------------- MODULE MCFefoStock ----------------------------
(* Instances of FefoStock for TLC. *)
EXTENDS FefoStock

CONSTANTS A, B, t1, t2, t3

Active(q) == [qty |-> q, status |-> "ACTIVE"]
Depleted == [qty |-> 0, status |-> "DEPLETED"]
Held(q) == [qty |-> q, status |-> "QUARANTINED"]
Unborn == [qty |-> 0, status |-> "none"]
Line(b, q) == [lot |-> b, qty |-> q, refunded |-> 0]
Done(lines) == [status |-> "COMPLETED", lines |-> lines]
Future == [status |-> "none", lines |-> <<>>]

\* Product A has a lot that is sold out, one with stock, one in quarantine and one
\* yet to come; product B has one lot.
TwoProducts == {A, B}
FiveLots == 1..5
FirstFourOfA == [b \in FiveLots |-> IF b = 5 THEN B ELSE A]
Shelf == <<Depleted, Active(2), Held(2), Unborn, Active(1)>>

\* Sale 1 is made, of both products; sale 2 takes them in the opposite order, sale 3
\* takes one of them, and there may not be enough of A for both.
ThreeSales == 1..3
OneSold == <<Done(<<Line(5, 1), Line(1, 1), Line(2, 1)>>), Future, Future>>
Of(p, q) == [product |-> p, qty |-> q]
Carts == <<<<>>, <<Of(A, 2), Of(B, 1)>>, <<Of(A, 1)>>>>

Sell(s) == [op |-> "sale", sale |-> s]
Void(s) == [op |-> "void", sale |-> s]
Refund(s, i, q) == [op |-> "refund", sale |-> s, line |-> i, qty |-> q]
Deliver(b, q) == [op |-> "receive", lot |-> b, qty |-> q]
Scrap(b, q) == [op |-> "dispose", lot |-> b, qty |-> q]
Hold(b) == [op |-> "quarantine", lot |-> b]

Everything == {Sell(2), Sell(3), Void(1)} \cup {Refund(1, i, 1) : i \in 1..3}
                \cup {Deliver(4, 1), Scrap(3, 1), Hold(2)}
=============================================================================
