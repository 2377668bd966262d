------------------------------- MODULE Binary -------------------------------
(***************************************************************************)
(* Powers of two, and the shifts of a number that the loops over its       *)
(* lowest bits make.                                                       *)
(***************************************************************************)
EXTENDS Integers

Power2[e \in Nat] == IF e = 0 THEN 1 ELSE 2 * Power2[e - 1]

\* n >> e
Shift(n, e) == n \div Power2[e]

Odd(n) == n % 2 = 1

IsPower(n) == \E e \in 0 .. n : n = Power2[e]

\* How often n is halved before it is even.
Ones(n) == CHOOSE c \in 0 .. n : ~Odd(Shift(n, c)) /\ \A b \in 0 .. c - 1 : Odd(Shift(n, b))

\* How often n, which is not 0, is halved before it is odd.
Zeros(n) == CHOOSE c \in 0 .. n : Odd(Shift(n, c)) /\ \A b \in 0 .. c - 1 : ~Odd(Shift(n, b))
=============================================================================
