--------------------------- MODULE MCProcessHandle ---------------------------
(* Bounded instance of ProcessHandle for TLC.                              *)
EXTENDS ProcessHandle, TLC

CallerSymmetry == Permutations(Caller)

==============================================================================
