------------------------------ MODULE MCEngine -------------------------------
(* Two opportunities for TLC. *)
EXTENDS Engine, TLC

CONSTANTS
    small, large

(* An i128 holds the first profit; of the second it holds, wraps or a u128 *)
(* does not hold what is left of it.                                       *)
SmallAndLarge == small :> {12000} @@ large :> {53000, 60000}
=============================================================================
