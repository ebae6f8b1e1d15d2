----------------------------- MODULE ABARounds -----------------------------
(***************************************************************************)
(* What binary agreement promises, one step per protocol event: runABA of  *)
(* src/experiments/dumbomvba-go/core/aba_equivalent.go with the messages a *)
(* node has read left open.  A wait loop may end as soon as enough nodes   *)
(* have sent what it waits for; module ABA, which reads messages one by    *)
(* one, implements this specification.  Faulty nodes are counted as having *)
(* sent everything to everyone.                                            *)
(***************************************************************************)
EXTENDS Integers, FiniteSets

CONSTANTS Node,      \* the n nodes
          Faulty,    \* the nodes that do not follow the protocol
          F,         \* the fault bound f of the configuration
          MaxRound   \* bound on the internal round number

ASSUME RoundsAssumption ==
    /\ IsFiniteSet(Node)
    /\ Faulty \subseteq Node
    /\ F \in Nat
    /\ Cardinality(Faulty) <= F
    /\ Cardinality(Node) >= 3 * F + 1
    /\ MaxRound \in Nat

Correct == Node \ Faulty
N == Cardinality(Node)
Quorum == N - F
Bit == {0, 1}
NoBit == -1
ValueSets == (SUBSET Bit) \ {{}}
Round == 0 .. MaxRound
Phase == {"est", "aux", "conf", "coin", "done"}

VARIABLES input, round, phase, decision, output,
          bin,        \* values this node has seen 2f+1 ESTs for
          outcome,    \* decidedValues once the CONF exchange is over, else {}
          sent, coin

vars == <<input, round, phase, decision, output, bin, outcome, sent, coin>>

Message(i, r, p, vs) == [from |-> i, round |-> r, phase |-> p, vals |-> vs]

Messages == [from : Correct, round : Round, phase : {"EST", "AUX", "CONF"},
             vals : ValueSets]

\* Correct nodes that sent this, and correct nodes that sent it or faulty ones.
Senders(S, r, p, vs) == {i \in Correct : Message(i, r, p, vs) \in S}
Claims(S, r, p, vs) == Senders(S, r, p, vs) \cup Faulty

-----------------------------------------------------------------------------
\* While it waits, a node echoes the values E it could have read f+1 ESTs for,
\* and adds to bin the values B it could have read 2f+1 ESTs for.
AbsorbValues(i, E, B) ==
    LET echoes == {Message(i, round[i], "EST", {v}) : v \in E}
    IN  /\ phase[i] \in {"est", "aux", "conf"} /\ E \cup B # {}
        /\ echoes \cap sent = {} /\ B \cap bin[i] = {}
        /\ \A v \in E : Cardinality(Claims(sent, round[i], "EST", {v})) >= F + 1
        /\ sent' = sent \cup echoes
        /\ \A v \in B : Cardinality(Claims(sent', round[i], "EST", {v})) >= 2 * F + 1
        /\ bin' = [bin EXCEPT ![i] = @ \cup B]
        /\ UNCHANGED <<input, round, phase, decision, output, outcome, coin>>

Absorb(i) == \E E \in SUBSET Bit, B \in SUBSET Bit : AbsorbValues(i, E, B)

SendAUX(i) ==
    LET v == IF 0 \in bin[i] THEN 0 ELSE 1
    IN  /\ phase[i] = "est" /\ bin[i] # {}
        /\ sent' = sent \cup {Message(i, round[i], "AUX", {v})}
        /\ phase' = [phase EXCEPT ![i] = "aux"]
        /\ UNCHANGED <<input, round, decision, output, bin, outcome, coin>>

\* AUX messages from a quorum, all for values of vs.
SendCONF(i) ==
    \E vs \in ValueSets :
        /\ phase[i] = "aux" /\ vs \subseteq bin[i]
        /\ Cardinality(UNION {Claims(sent, round[i], "AUX", {v}) : v \in vs}) >= Quorum
        /\ sent' = sent \cup {Message(i, round[i], "CONF", vs)}
        /\ phase' = [phase EXCEPT ![i] = "conf"]
        /\ UNCHANGED <<input, round, decision, output, bin, outcome, coin>>

\* A quorum confirmed the single value v of bin, or both values are in bin.
FinishCONF(i) ==
    \E vs \in ValueSets :
        /\ phase[i] = "conf" /\ vs \subseteq bin[i]
        /\ Cardinality(UNION {Claims(sent, round[i], "CONF", k) : k \in (SUBSET vs) \ {{}}}) >= Quorum
        /\ outcome' = [outcome EXCEPT ![i] = vs]
        /\ phase' = [phase EXCEPT ![i] = "coin"]
        /\ UNCHANGED <<input, round, decision, output, bin, sent, coin>>

AskedCoin(r) == {i \in Correct : round[i] > r \/ (round[i] = r /\ phase[i] \in {"coin", "done"})}

TossCoin(r) ==
    /\ coin[r] = NoBit
    /\ AskedCoin(r) # {}
    /\ Cardinality(AskedCoin(r) \cup Faulty) >= F + 1
    /\ \E c \in Bit : coin' = [coin EXCEPT ![r] = c]
    /\ UNCHANGED <<input, round, phase, decision, output, bin, outcome, sent>>

Matched(i) == outcome[i] = {coin[round[i]]}

\* Mutant: a node returns the coin whether or not a quorum has confirmed it.
ReturnUnconfirmed(i) ==
    /\ phase[i] = "coin" /\ coin[round[i]] # NoBit
    /\ output' = [output EXCEPT ![i] = coin[round[i]]]
    /\ phase' = [phase EXCEPT ![i] = "done"]
    /\ UNCHANGED <<input, round, decision, bin, outcome, sent, coin>>

Return(i) ==
    /\ phase[i] = "coin" /\ coin[round[i]] # NoBit
    /\ Matched(i) /\ decision[i] = coin[round[i]]
    /\ output' = [output EXCEPT ![i] = decision[i]]
    /\ phase' = [phase EXCEPT ![i] = "done"]
    /\ UNCHANGED <<input, round, decision, bin, outcome, sent, coin>>

\* Mutant: an undecided node keeps a value of its own instead of the coin.
NextRoundKeeps(i) ==
    \E e \in outcome[i] :
        LET c == coin[round[i]]
            r == round[i] + 1
        IN  /\ phase[i] = "coin" /\ c # NoBit
            /\ ~(Matched(i) /\ decision[i] = c)
            /\ r \in Round
            /\ decision' = [decision EXCEPT ![i] = IF Matched(i) THEN c ELSE @]
            /\ round' = [round EXCEPT ![i] = r]
            /\ phase' = [phase EXCEPT ![i] = "est"]
            /\ bin' = [bin EXCEPT ![i] = {}]
            /\ outcome' = [outcome EXCEPT ![i] = {}]
            /\ sent' = sent \cup {Message(i, r, "EST", {e})}
            /\ UNCHANGED <<input, output, coin>>

NextRound(i) ==
    \E e \in outcome[i] :
        LET c == coin[round[i]]
            r == round[i] + 1
        IN  /\ phase[i] = "coin" /\ c # NoBit
            /\ ~(Matched(i) /\ decision[i] = c)
            /\ r \in Round
            /\ outcome[i] = Bit => e = c
            /\ decision' = [decision EXCEPT ![i] = IF Matched(i) THEN c ELSE @]
            /\ round' = [round EXCEPT ![i] = r]
            /\ phase' = [phase EXCEPT ![i] = "est"]
            /\ bin' = [bin EXCEPT ![i] = {}]
            /\ outcome' = [outcome EXCEPT ![i] = {}]
            /\ sent' = sent \cup {Message(i, r, "EST", {e})}
            /\ UNCHANGED <<input, output, coin>>

Init ==
    /\ input \in [Correct -> Bit]
    /\ round = [i \in Correct |-> 0]
    /\ phase = [i \in Correct |-> "est"]
    /\ decision = [i \in Correct |-> NoBit]
    /\ output = [i \in Correct |-> NoBit]
    /\ bin = [i \in Correct |-> {}]
    /\ outcome = [i \in Correct |-> {}]
    /\ sent = {Message(i, 0, "EST", {input[i]}) : i \in Correct}
    /\ coin = [r \in Round |-> NoBit]

Next ==
    \/ \E i \in Correct :
          \/ Absorb(i) \/ SendAUX(i) \/ SendCONF(i) \/ FinishCONF(i)
          \/ Return(i) \/ NextRound(i)
    \/ \E r \in Round : TossCoin(r)

Spec == Init /\ [][Next]_vars

-----------------------------------------------------------------------------
TypeOK ==
    /\ input \in [Correct -> Bit]
    /\ round \in [Correct -> Round]
    /\ phase \in [Correct -> Phase]
    /\ decision \in [Correct -> Bit \cup {NoBit}]
    /\ output \in [Correct -> Bit \cup {NoBit}]
    /\ bin \in [Correct -> SUBSET Bit]
    /\ outcome \in [Correct -> SUBSET Bit]
    /\ sent \subseteq Messages
    /\ coin \in [Round -> Bit \cup {NoBit}]

\* No two correct nodes return different values from runABA.
Agreement ==
    \A i, j \in Correct :
        output[i] # NoBit /\ output[j] # NoBit => output[i] = output[j]

\* Once a correct node has seen the coin match the confirmed value, every
\* correct node that finishes a later round confirms that value alone: the
\* reason why the second match, possibly rounds later, may return it.
MatchLocksOutcome ==
    \A i, j \in Correct :
        decision[i] # NoBit /\ round[j] >= round[i] /\ outcome[j] # {}
            => outcome[j] = {decision[i]}

\* A value returned by runABA was the input of a correct node.
Validity ==
    \A i \in Correct : output[i] # NoBit => \E j \in Correct : input[j] = output[i]

=============================================================================
