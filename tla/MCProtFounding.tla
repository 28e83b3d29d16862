--------------------------- MODULE MCProtFounding ---------------------------
(* Instances of ProtFounding for TLC *)
EXTENDS ProtFounding, TLC

MCTierProt == <<1, 2>>
=============================================================================
