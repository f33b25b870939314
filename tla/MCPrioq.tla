------------------------------- MODULE MCPrioq -------------------------------
(* Instance of PrioqUser for TLC.  Six elements make a heap of three levels *)
(* in which a removal may have to sift the moved entry up.                  *)
EXTENDS PrioqUser, TLC

DataSymmetry == Permutations(Data)
=============================================================================
