---------------------------- MODULE MCABARounds ----------------------------
(* Three correct nodes and one Byzantine node; symmetric in the correct ones. *)
EXTENDS ABARounds, TLC

Symmetry == Permutations(Correct)

\* Messages and coins of rounds every correct node has left are never read
\* again, so states that differ only in them are identified.
Lowest == CHOOSE r \in Round : /\ \E i \in Correct : round[i] = r
                               /\ \A i \in Correct : round[i] >= r
Current == <<input, round, phase, decision, output, bin, outcome,
             {m \in sent : m.round >= Lowest},
             [r \in Lowest .. MaxRound |-> coin[r]]>>

\* Bounds of the run: at most one input differs from the others, and a node
\* enters a round only when the others wait for the coin of the one before.
OneDissent == Cardinality({i \in Correct : input[i] = 1}) # 2
CloseBy == \A i, j \in Correct : round[i] > round[j] => phase[j] = "coin"
Bounded == OneDissent /\ CloseBy
=============================================================================
