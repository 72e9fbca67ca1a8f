------------------------------- MODULE MCShop -------------------------------
(***************************************************************************)
(* Two tabs; four dishes of a price list around the free-delivery threshold,   *)
(* and one that is no longer on it; two bundles; a package of two sections.    *)
(***************************************************************************)
EXTENDS Shop

CONSTANTS t1, t2, feast, side, bowl, cups, delisted, b1, b2, r1, r2, r3, s1, s2, w1, d1, d2

TwoTabs == {t1, t2}
Dishes == {feast, side, bowl, cups, delisted}
Menu == Dishes \ {delisted}
Kitchens == [d \in Menu |-> CASE d = feast -> r1 [] d = cups -> r3 [] OTHER -> r2]
Prices == [d \in Menu |-> CASE d = feast -> 120 [] d = side -> 34 [] d = bowl -> 58 [] OTHER -> 120]
Servings == [d \in Menu |-> IF d = feast THEN 3 ELSE 4]
Ranks == [d \in Menu |-> CASE d = feast -> 1 [] d = side -> 3 [] d = bowl -> 2 [] OTHER -> 4]
Favourites == {feast, bowl}
Demo == [items |-> [d \in Dishes |-> IF d = feast THEN 1 ELSE 0], headcount |-> 2]
TwoBundles == {b1, b2}
Contents == [b \in TwoBundles |-> IF b = b1 THEN {feast, side} ELSE {feast}]
BundleFor == [b \in TwoBundles |-> IF b = b1 THEN 2 ELSE 1]
Lost == {360, 680, 1320, 1400}
Trays == [d \in Dishes |-> CASE d = feast -> 2 [] d = bowl -> 0 [] OTHER -> 1]
Sections == {s1, s2}
Options == [s \in Sections |-> IF s = s1 THEN {feast, side, bowl} ELSE {cups}]
Picks == [s \in Sections |-> IF s = s1 THEN 2 ELSE 1]
Places == {r1, r2, r3}
Kinds == [r \in Places |-> IF r = r1 THEN "italian" ELSE "asian"]
Words == {w1}
Found == [w \in Words |-> {r1, r2}]
Diets == {d1, d2}
ForDiets == [r \in Places |-> CASE r = r1 -> {d1} [] r = r2 -> {d1, d2} [] OTHER -> {}]
=============================================================================
