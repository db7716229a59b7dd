------------------------------ MODULE MCServices ------------------------------
(* An instance of Services for TLC. *)
EXTENDS Services, TLC

CONSTANTS c1, c2, c3, p1, p2, g, s1, s2   \* model values

\* Three interactive calls for one slot, and a budget for two.
ThreeCalls == {c1, c2, c3}
TwoProcesses == {p1, p2}
OneLane == [c \in Calls |-> "interactive"]
OfOne == [c \in Calls |-> 1]
OneSlot == [l \in Lanes |-> 1]
ThreeAdmitted == [l \in Lanes |-> 3]

\* Two scans that look for the same BIOS files, and one for games of which its
\* source holds a copy.
ThreeScans == {g, s1, s2}
Kinds == [s \in Scans |-> IF s = g THEN "game" ELSE "bios"]
Contents == [s \in Scans |-> IF s = g THEN <<"x", "x">> ELSE <<"x", "y">>]

\* Three operations, the first and the last for the same game.
Targets == [o1 |-> "g1", o2 |-> "g2", o3 |-> "g1"]

Symmetry == Permutations(Calls) \cup Permutations(Processes) \cup Permutations({s1, s2})

ASSUME Assumptions ==
  /\ Worker!RuntimeAssumption /\ Worker!RuntimeNames
  /\ ScanAssumption /\ Executor!ReplacementAssumption
===============================================================================
