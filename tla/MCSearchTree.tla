---------------------------- MODULE MCSearchTree ----------------------------
(***************************************************************************)
(* Model-checking instance of SearchTree.  In the battle w1 two actions of *)
(* s1 may both lead to s2; in s3 a stack has been summoned; in s4 nothing  *)
(* can be done; under the structure 2 the stack that moves in s2 can fly.  *)
(* x1 is of a battle without an id.                                        *)
(***************************************************************************)
EXTENDS SearchTree, TLC

CONSTANTS s1, s2, s3, s4, s5, s6, x1, n1, n2, n3, n4, n5, w1

TheStates == {s1, s2, s3, s4, s5, s6, x1}

TheAddresses == {n1, n2, n3, n4, n5}

TheMoves ==
    [f \in {1, 2} |-> (s1 :> {"strike", "cast"})
        @@ (s2 :> (IF f = 2 THEN {"walk", "fly"} ELSE {"walk"})) @@ (s3 :> {"walk"})
        @@ (x1 :> {"walk"}) @@ [s \in {s4, s5, s6} |-> {}]]

TheResults ==
    (s1 :> ("strike" :> {s2} @@ "cast" :> {s2, s3, s4}))
    @@ (s2 :> ("walk" :> {s5, s6} @@ "fly" :> {s5})) @@ (s3 :> ("walk" :> {NoState}))
    @@ (x1 :> ("walk" :> {NoState})) @@ [s \in {s4, s5, s6} |-> << >>]

TheBattles == [s \in TheStates |-> IF s = x1 THEN NoBattle ELSE w1]

TheSummons == [s \in TheStates |-> IF s = s3 THEN 1 ELSE 0]

Symmetry == Permutations(TheAddresses)
=============================================================================
