----------------------------- MODULE MCServices -----------------------------
(* Services for TLC: requests, orders, intent ids and results are             *)
(* interchangeable.                                                            *)
EXTENDS Services, TLC

Symmetry ==
    Permutations(Request) \cup Permutations(Key) \cup Permutations(Intent)
        \cup Permutations(Ticket) \cup Permutations(Detail)
=============================================================================
