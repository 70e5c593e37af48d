------------------------------ MODULE MCDelivery ------------------------------
(* Instances of Delivery for TLC. *)
EXTENDS Delivery, TLC

\* A task of a user that notifies the users, and one that notifies everybody.
Tasks == [owner : Users, to : {Users}, all : {FALSE}] \cup [owner : Users, to : {{}}, all : {TRUE}]

Symmetry == Permutations(Users) \cup Permutations(Numbers)
=============================================================================
