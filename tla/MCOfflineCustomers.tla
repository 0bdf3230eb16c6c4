------------------------- MODULE MCOfflineCustomers -------------------------
(* Two customers written down offline: one whose name others contain, one   *)
(* whose email the server already has.  A sale for each.                    *)
EXTENDS OfflineCustomers

CONSTANTS ann, bob, regular, s1, s2

MCCustomers == {ann, bob}
MCHouse == {regular}
MCEvents == {s1, s2}
MCClash == [c \in MCCustomers |-> IF c = bob THEN {regular} ELSE {}]
MCAlike == [c \in MCCustomers |-> IF c = ann THEN {regular} ELSE {}]
MCFor == [e \in MCEvents |-> IF e = s1 THEN ann ELSE bob]
=============================================================================
