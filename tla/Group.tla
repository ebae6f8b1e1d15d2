------------------------------- MODULE Group -------------------------------
(***************************************************************************)
(* A group of prime order written additively.  Its elements are formal     *)
(* combinations of independent bases, as a prover that knows no relation   *)
(* between the generators has to treat them: G is the generator, H the     *)
(* Pedersen base and Y the base that is hashed from a statement.           *)
(***************************************************************************)
EXTENDS Field

CONSTANT Bases

Points == [Bases -> Scalars]

PZero == [b \in Bases |-> 0]
PBase(b) == [PZero EXCEPT ![b] = 1]
PAdd(P, Q) == [b \in Bases |-> AddF(P[b], Q[b])]
PSub(P, Q) == [b \in Bases |-> SubF(P[b], Q[b])]
PTimes(P, s) == [b \in Bases |-> MulF(P[b], s)]

\* s G + t H, the Pedersen commitment.
PCommit(s, t) == PAdd(PTimes(PBase("G"), s), PTimes(PBase("H"), t))

\* The sum of the elements of a function from S to points, and of its
\* products with the weights w.
PSum(f, S) == FoldSet(LAMBDA i, acc : PAdd(f[i], acc), PZero, S)
PLinear(f, w, S) == PSum([i \in S |-> PTimes(f[i], w[i])], S)
=============================================================================
