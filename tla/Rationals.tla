------------------------------ MODULE Rationals ------------------------------
(***************************************************************************)
(* Exact arithmetic on probabilities: reduced pairs <<numerator,           *)
(* denominator>>.  The code computes with float4 and float8; here nothing  *)
(* is rounded, so that equal probabilities are equal values.  The          *)
(* operations are functions underneath, so that TLC evaluates arguments    *)
(* once.                                                                   *)
(***************************************************************************)
EXTENDS Integers

Rat == Int \X (Nat \ {0})
PosRat == {q \in Rat : q[1] > 0}

QZero == <<0, 1>>
QOne == <<1, 1>>

GCD[x \in Nat \X Nat] == IF x[2] = 0 THEN x[1] ELSE GCD[<<x[2], x[1] % x[2]>>]

Reduced ==
    [x \in Rat |->
        LET g == GCD[<<IF x[1] < 0 THEN -x[1] ELSE x[1], x[2]>>]
        IN  <<x[1] \div g, x[2] \div g>>]

(* Over the least common denominator, which keeps the numbers small. *)
Plus ==
    [x \in Rat \X Rat |->
        LET p == x[1]
            q == x[2]
            g == GCD[<<p[2], q[2]>>]
        IN  Reduced[<<p[1] * (q[2] \div g) + q[1] * (p[2] \div g), p[2] * (q[2] \div g)>>]]
Times == [x \in Rat \X Rat |-> Reduced[<<x[1][1] * x[2][1], x[1][2] * x[2][2]>>]]

Q(num, den) == Reduced[<<num, den>>]
QAdd(p, q) == Plus[<<p, q>>]
QMul(p, q) == Times[<<p, q>>]
QSub(p, q) == QAdd(p, QMul(<<-1, 1>>, q))

(* The quotient by a positive q. *)
Inverted == [q \in Rat |-> <<q[2], q[1]>>]
QDiv(p, q) == QMul(p, Inverted[q])

QLess(p, q) == QSub(p, q)[1] < 0
=============================================================================
