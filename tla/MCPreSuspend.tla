----------------------------- MODULE MCPreSuspend -----------------------------
(* A bounded instance of PreSuspend for TLC: four threads, pages of four     *)
(* bytes, totals that are a multiple of the shares and totals that are not.  *)
EXTENDS PreSuspend

MCReleases == {<<6, 13, 7>>, <<6, 14>>, <<6, 14, 0>>, <<7, 0>>}

===============================================================================
