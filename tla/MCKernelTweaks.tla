--------------------------- MODULE MCKernelTweaks ---------------------------
(* A bounded instance of KernelTweaks for TLC: four parameters, the second *)
(* of which reads as a menu.                                               *)
EXTENDS KernelTweaks

MCPath == <<11, 12, 13, 14>>
MCMenu == {12}

=============================================================================
