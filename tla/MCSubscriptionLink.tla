------------------------- MODULE MCSubscriptionLink -------------------------
(* Instances of SubscriptionLink for TLC. *)
EXTENDS SubscriptionLink, TLC

Symmetry == Permutations(Clients) \cup Permutations(Sockets)
=============================================================================
