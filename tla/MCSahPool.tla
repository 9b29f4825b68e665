------------------------------ MODULE MCSahPool ------------------------------
EXTENDS SahPool, TLC
CONSTANTS db, jrn, tmp
MCSidecars == [n \in Names |-> IF n = db THEN {jrn} \cap Names ELSE {}]
Symmetric == Permutations(Slots) \cup Permutations(Handles)
==============================================================================
