----------------------------- MODULE MCStorefront ---------------------------
(* Storefront for TLC: one checkout that may be submitted twice, and that one  *)
(* followed by another.                                                        *)
EXTENDS Storefront, TLC

OneCheckout  == {1}
TwoCheckouts == {1, 2}
RetryCall    == {<<1, 1>>, <<1, 2>>}
LeaveCall    == {<<1, 1>>, <<1, 2>>, <<2, 1>>}
RetryPosts   == {<<c[1], r, c[2]>> : c \in RetryCall, r \in Restaurant}
LeavePosts   == {<<c[1], r, c[2]>> : c \in LeaveCall, r \in Restaurant}
MCKey        == Checkout \X Restaurant
Symmetry     == Permutations(Restaurant)
=============================================================================
