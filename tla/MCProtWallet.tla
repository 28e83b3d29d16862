---------------------------- MODULE MCProtWallet ----------------------------
(* Instances of ProtWallet for TLC *)
EXTENDS ProtWallet, TLC

MCProt == [o \in Orders |-> 2]
MCAdjust == [n \in Nonces |-> 1]
Interchangeable == Permutations(Workers)
=============================================================================
