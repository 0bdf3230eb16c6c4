-------------------------- MODULE MCPeriodBalance --------------------------
(* Instances of PeriodBalance for TLC. *)
EXTENDS PeriodBalance, TLC

CONSTANTS j1, j2, s1, s2

OneTuple == {1}
TwoTuples == {1, 2}
OnePeriod == {"p"}
PeriodOfOne == [t \in OneTuple |-> "p"]
PeriodOfTwo == [t \in TwoTuples |-> "p"]

BothTouchOne == [j \in {j1, j2} |-> OneTuple]
BothTouchBoth == [j \in {j1, j2} |-> TwoTuples]

Everything == AllWays
Own == {"own"}
OwnAndInline == {"own", "inline"}

\* Sessions and journals are each alike: no definition names one of them.
Alike == Permutations({s1, s2}) \cup Permutations({j1, j2})
=============================================================================
