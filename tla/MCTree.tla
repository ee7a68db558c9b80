-------------------------------- MODULE MCTree --------------------------------
(* A root with two children: enough for removing a subtree, clearing        *)
(* children, a last() that differs from the first child, and two nested     *)
(* callbacks on different items.                                            *)
EXTENDS Tree, TLC
MCItems == {"r", "a", "b"}
MCKids == [i \in MCItems |-> IF i = "r" THEN <<"a", "b">> ELSE << >>]
(* Two values of the display preferences: which one is the default, and   *)
(* which one a setter writes, does not matter, so they are symmetric.     *)
MCSymmetry == Permutations(PrefValues)
=============================================================================
