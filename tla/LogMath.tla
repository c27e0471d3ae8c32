------------------------------ MODULE LogMath -------------------------------
(***************************************************************************)
(* SQLite's 64-bit arithmetic, which src/db.rs leaves the sum of logged    *)
(* profits to.  MaxInt is 2^63 - 1; a smaller number stands for it in      *)
(* TLC's runs.                                                             *)
(***************************************************************************)
EXTENDS Integers

CONSTANT
    MaxInt          \* largest SQLite INTEGER

ASSUME IntegerAssumption == MaxInt \in Nat

(* CAST(text AS INTEGER) clamps. *)
Cast(n) == IF n > MaxInt THEN MaxInt ELSE IF n < -MaxInt - 1 THEN -MaxInt - 1 ELSE n

(* SUM raises an error as soon as a partial sum does not fit. *)
Fits(sum) == -MaxInt - 1 <= sum /\ sum <= MaxInt

=============================================================================
