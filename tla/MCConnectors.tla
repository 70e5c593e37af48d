---------------------------- MODULE MCConnectors ----------------------------
(* Instances of Connectors for TLC: a user selects one of the calendars. *)
EXTENDS Connectors, TLC
CONSTANT c1
MCSelections == {{c1}}
Symmetry == Permutations(Handlers)
=============================================================================
