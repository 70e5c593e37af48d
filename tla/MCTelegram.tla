------------------------------ MODULE MCTelegram ------------------------------
(* Instances of Telegram for TLC. *)
EXTENDS Telegram, TLC

Symmetry == Permutations(Loops) \cup Permutations(Restarters) \cup Permutations(Settings)
=============================================================================
