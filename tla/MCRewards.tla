------------------------------ MODULE MCRewards ------------------------------
(* Small instances of Rewards for TLC. *)
EXTENDS RewardsInvariant, TLC

Value(a, s, c) == [active |-> a, shareable |-> s, cost |-> c]

(* A shareable reward whose price or kind may be changed. *)
SharedInputs == {Value(TRUE, TRUE, 2), Value(TRUE, TRUE, 3), Value(TRUE, FALSE, 2)}

(* Rewards of both kinds at one price. *)
SingleInputs == {Value(TRUE, FALSE, 2), Value(TRUE, TRUE, 2)}

(* No constant names a single thread, contribution, redemption or child. *)
Symmetry == Permutations(Threads) \union Permutations(Contributions)
            \union Permutations(Redemptions) \union Permutations(Children)

=============================================================================
