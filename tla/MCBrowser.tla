------------------------------ MODULE MCBrowser ------------------------------
(* Instances of Browser for TLC.  The goroutines are alike. *)
EXTENDS Browser, TLC

Symmetry == Permutations(Goroutines)
=============================================================================
