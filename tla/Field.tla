------------------------------- MODULE Field -------------------------------
(***************************************************************************)
(* Arithmetic in a small prime field, in place of the scalar fields of the *)
(* curves.  A group element is written by its discrete logarithm, so that  *)
(* the product of two elements is a sum here and a power is a product.     *)
(***************************************************************************)
EXTENDS Integers, Sequences, FiniteSets, FiniteSetsExt

CONSTANT FieldOrder

\* Scalars 0, 1, ..., FieldOrder - 1.
Scalars == 0 .. FieldOrder - 1

AddF(x, y) == (x + y) % FieldOrder
SubF(x, y) == (x - y) % FieldOrder
MulF(x, y) == (x * y) % FieldOrder

SumF(f, S) == FoldSet(LAMBDA i, acc : AddF(f[i], acc), 0, S)
ProdF(f, S) == FoldSet(LAMBDA i, acc : MulF(f[i], acc), 1, S)

\* Inverses, 0 for 0 as ModInverse of the callers leaves it.
InverseTable ==
    [x \in Scalars |-> IF x = 0 THEN 0 ELSE CHOOSE y \in Scalars : MulF(x, y) = 1]

\* Powers of x.
PowF[x \in Scalars, n \in 0 .. 8] == IF n = 0 THEN 1 ELSE MulF(x, PowF[x, n - 1])

\* The polynomial with the coefficients c[1], c[2], ... at x.
EvalPoly(c, x) ==
    SumF([k \in DOMAIN c |-> MulF(c[k], PowF[x % FieldOrder, k - 1])], DOMAIN c)

\* The weight of point i among the points P when evaluating at t.
LagrangeCoefficient(P, i, t) ==
    LET others == P \ {i} IN
    MulF(ProdF([j \in others |-> SubF(t, j)], others),
         InverseTable[ProdF([j \in others |-> SubF(i, j)], others)])

\* The value at t of the polynomial through the points of the function v.
InterpolateAt(v, t) ==
    SumF([i \in DOMAIN v |-> MulF(LagrangeCoefficient(DOMAIN v, i, t), v[i])], DOMAIN v)
=============================================================================
