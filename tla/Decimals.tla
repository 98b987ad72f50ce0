------------------------------- MODULE Decimals -------------------------------
(***************************************************************************)
(* What the books and the order router have in common: the sides of an     *)
(* order, and the division of decimals.                                    *)
(***************************************************************************)
EXTENDS Integers

Sides == {"buy", "sell"}

\* A quotient is rounded to a whole number of units, halves up; what is divided
\* is never negative.
Rounded(a, b) == (2 * a + b) \div (2 * b)
===============================================================================
