--------------------------- MODULE MCProtectedText ---------------------------
(* Instances of ProtectedText for TLC *)
EXTENDS ProtectedText, TLC

CONSTANTS own, ann, o1, a1, a2

MCUserOf == [d \in Devices |-> IF d = o1 THEN own ELSE ann]
Interchangeable == Permutations(Requests) \cup Permutations({a1, a2})
=============================================================================
