-------------------------------- MODULE ABA --------------------------------
(***************************************************************************)
(* Binary agreement of DumboMVBA: runABA of                                *)
(* src/experiments/dumbomvba-go/core/aba_equivalent.go.                    *)
(*                                                                         *)
(* Every correct node runs one goroutine that loops over internal rounds.  *)
(* A round has three exchanges, EST, AUX and CONF, and ends with a common  *)
(* coin; the goroutine takes one message at a time and only while the      *)
(* exit condition of its current wait loop is false.                       *)
(*                                                                         *)
(* The network keeps every message a correct node sent.  A node consumes a *)
(* message in the round it belongs to: one of a later round waits in       *)
(* `pending' (here: unread), one of an earlier round is dropped (unread    *)
(* for good).                                                              *)
(* A node's copy of its own message changes nothing and is left out.       *)
(* Faulty nodes may send any well-formed message to any node at any time.  *)
(***************************************************************************)
EXTENDS Integers, FiniteSets

CONSTANTS Node,      \* the n nodes
          Faulty,    \* the nodes that do not follow the protocol
          F,         \* the fault bound f of the configuration
          Forged,    \* the bodies a faulty node may send: bounds the runs
          MaxRound   \* bound on the internal round number

ASSUME ABAAssumption ==
    /\ IsFiniteSet(Node)
    /\ Faulty \subseteq Node
    /\ F \in Nat
    /\ Cardinality(Faulty) <= F
    /\ Cardinality(Node) >= 3 * F + 1
    /\ Forged \subseteq [phase : {"EST", "AUX", "CONF"}, vals : (SUBSET {0, 1}) \ {{}}]
    /\ MaxRound \in Nat

Correct == Node \ Faulty
N == Cardinality(Node)
Quorum == N - F
Bit == {0, 1}
NoBit == -1
ValueSets == (SUBSET Bit) \ {{}}       \* what a CONF message may carry
Round == 0 .. MaxRound

VARIABLES
    input,      \* the ballot each node was started with
    round,      \* abaRound
    phase,      \* which wait loop the node is in, "coin", or "done"
    estimate,   \* estimate
    decision,   \* decision: the value matched by the coin once, or NoBit
    output,     \* the value returned, or NoBit
    est,        \* est[v]: senders of EST(v) in this round, itself included
    bin,        \* bin: values with 2f+1 EST senders
    aux,        \* aux[v]: senders of AUX(v)
    conf,       \* conf[key]: senders of CONF(key)
    confRead,   \* correct nodes whose CONF of this round was consumed
    sent,       \* every message sent by a correct node
    coin        \* the common coin of each round, NoBit until it is tossed

nodeVars == <<round, phase, estimate, decision, output>>
roundVars == <<est, bin, aux, conf, confRead>>
vars == <<input, nodeVars, roundVars, sent, coin>>

Message(i, r, p, vs) == [from |-> i, round |-> r, phase |-> p, vals |-> vs]

Messages == [from : Node, round : Round, phase : {"EST", "AUX", "CONF"},
             vals : ValueSets]

\* The messages node i may read next in its current round.
Readable(i) ==
    {m \in sent : m.from # i /\ m.round = round[i]}
        \cup {Message(j, round[i], b.phase, b.vals) : j \in Faulty, b \in Forged}

-----------------------------------------------------------------------------
(* Exit conditions of the wait loops. *)

\* Mutant: CONF does not wait for an AUX quorum.
AuxValuesAtOnce(b, a) == b

\* `values' after the AUX exchange; {} while the loop must go on.
AuxValues(b, a) ==
    IF 1 \in b /\ Cardinality(a[1]) >= Quorum THEN {1}
    ELSE IF 0 \in b /\ Cardinality(a[0]) >= Quorum THEN {0}
    ELSE IF Cardinality(UNION {a[v] : v \in b}) >= Quorum THEN b
    ELSE {}

\* `decidedValues' after the CONF exchange; {} while the loop must go on.
DecidedValues(b, c) ==
    IF 1 \in b /\ Cardinality(c[{1}]) >= Quorum THEN {1}
    ELSE IF 0 \in b /\ Cardinality(c[{0}]) >= Quorum THEN {0}
    ELSE IF Cardinality(UNION {c[k] : k \in {k \in ValueSets : k \subseteq b}})
                >= Quorum THEN Bit
    ELSE {}

Waiting(i) ==
    \/ phase[i] = "est" /\ bin[i] = {}
    \/ phase[i] = "aux" /\ AuxValues(bin[i], aux[i]) = {}
    \/ phase[i] = "conf" /\ DecidedValues(bin[i], conf[i]) = {}

-----------------------------------------------------------------------------
(* accept: one message of the current round. *)

\* Mutant: the echo waits for 2f+1 ESTs.
AcceptESTNoAmplification(i, m) ==
    \E v \in Bit :
        LET senders == est[i][v] \cup {m.from}
        IN  /\ m.phase = "EST" /\ m.vals = {v}
            /\ m.from \notin est[i][v]
            /\ est' = [est EXCEPT ![i][v] = senders]
            /\ bin' = IF Cardinality(senders) >= 2 * F + 1
                        THEN [bin EXCEPT ![i] = @ \cup {v}] ELSE bin
            /\ UNCHANGED <<aux, conf, confRead, sent>>

\* EST(v): record the sender, echo at f+1, add to bin at 2f+1.
AcceptEST(i, m) ==
    \E v \in Bit :
        LET senders == est[i][v] \cup {m.from}
            echo == Cardinality(senders) >= F + 1 /\ i \notin est[i][v]
            all == IF echo THEN senders \cup {i} ELSE senders
        IN  /\ m.phase = "EST" /\ m.vals = {v}
            /\ m.from \notin est[i][v]
            /\ est' = [est EXCEPT ![i][v] = all]
            /\ sent' = IF echo THEN sent \cup {Message(i, round[i], "EST", {v})}
                               ELSE sent
            /\ bin' = IF Cardinality(all) >= 2 * F + 1
                        THEN [bin EXCEPT ![i] = @ \cup {v}] ELSE bin
            /\ UNCHANGED <<aux, conf, confRead>>

AcceptAUX(i, m) ==
    \E v \in Bit :
        /\ m.phase = "AUX" /\ m.vals = {v}
        /\ m.from \notin aux[i][v]
        /\ aux' = [aux EXCEPT ![i][v] = @ \cup {m.from}]
        /\ UNCHANGED <<est, bin, conf, confRead, sent>>

AcceptCONF(i, m) ==
    /\ m.phase = "CONF"
    /\ m.from \notin conf[i][m.vals] \cup confRead[i]
    /\ conf' = [conf EXCEPT ![i][m.vals] = @ \cup {m.from}]
    /\ confRead' = [confRead EXCEPT ![i] = @ \cup ({m.from} \ Faulty)]
    /\ UNCHANGED <<est, bin, aux, sent>>

Receive(i) ==
    /\ Waiting(i)
    /\ \E m \in Readable(i) :
          AcceptEST(i, m) \/ AcceptAUX(i, m) \/ AcceptCONF(i, m)
    /\ UNCHANGED <<input, nodeVars, coin>>

\* bin is not empty: broadcast AUX, preferring 0.
SendAUX(i) ==
    LET v == IF 0 \in bin[i] THEN 0 ELSE 1
    IN  /\ phase[i] = "est" /\ bin[i] # {}
        /\ aux' = [aux EXCEPT ![i][v] = @ \cup {i}]
        /\ sent' = sent \cup {Message(i, round[i], "AUX", {v})}
        /\ phase' = [phase EXCEPT ![i] = "aux"]
        /\ UNCHANGED <<input, round, estimate, decision, output,
                       est, bin, conf, confRead, coin>>

\* The AUX quorum is there: conf[confKey] is assigned a fresh map that holds
\* the node itself only, then CONF is broadcast.
SendCONF(i) ==
    LET vs == AuxValues(bin[i], aux[i])
    IN  /\ phase[i] = "aux" /\ vs # {}
        /\ conf' = [conf EXCEPT ![i][vs] = {i}]
        /\ sent' = sent \cup {Message(i, round[i], "CONF", vs)}
        /\ phase' = [phase EXCEPT ![i] = "conf"]
        /\ UNCHANGED <<input, round, estimate, decision, output,
                       est, bin, aux, confRead, coin>>

\* The CONF quorum is there: the node asks for the coin.
FinishCONF(i) ==
    /\ phase[i] = "conf" /\ DecidedValues(bin[i], conf[i]) # {}
    /\ phase' = [phase EXCEPT ![i] = "coin"]
    /\ UNCHANGED <<input, round, estimate, decision, output, roundVars, sent, coin>>

\* f+1 nodes asked for the coin of round r, so that its value is determined;
\* it is the same for all (makeSharedCoin, module SharedCoin).
AskedCoin(r) == {i \in Correct : round[i] > r \/ (round[i] = r /\ phase[i] \in {"coin", "done"})}

TossCoin(r) ==
    /\ coin[r] = NoBit
    /\ AskedCoin(r) # {}
    /\ Cardinality(AskedCoin(r) \cup Faulty) >= F + 1
    /\ \E c \in Bit : coin' = [coin EXCEPT ![r] = c]
    /\ UNCHANGED <<input, nodeVars, roundVars, sent>>

Matched(i) == DecidedValues(bin[i], conf[i]) = {coin[round[i]]}

\* Second matching round: return.
Return(i) ==
    /\ phase[i] = "coin" /\ coin[round[i]] # NoBit
    /\ Matched(i) /\ decision[i] = coin[round[i]]
    /\ output' = [output EXCEPT ![i] = decision[i]]
    /\ phase' = [phase EXCEPT ![i] = "done"]
    /\ UNCHANGED <<input, round, estimate, decision, roundVars, sent, coin>>

\* Mutant: the next estimate is the decision so far, which may be unset.
NextRoundUnset(i) ==
    /\ phase[i] = "coin" /\ coin[round[i]] # NoBit
    /\ round[i] + 1 \in Round
    /\ estimate' = [estimate EXCEPT ![i] = decision[i]]
    /\ round' = [round EXCEPT ![i] = @ + 1]
    /\ phase' = [phase EXCEPT ![i] = "est"]
    /\ UNCHANGED <<input, decision, output, roundVars, sent, coin>>

\* Otherwise: note a first match, choose the next estimate, open the next
\* round with fresh maps and broadcast its EST.
NextRound(i) ==
    LET vs == DecidedValues(bin[i], conf[i])
        c == coin[round[i]]
        e == IF vs = Bit THEN c ELSE CHOOSE v \in vs : TRUE
        r == round[i] + 1
    IN  /\ phase[i] = "coin" /\ c # NoBit
        /\ ~(Matched(i) /\ decision[i] = c)
        /\ r \in Round
        /\ decision' = [decision EXCEPT ![i] = IF Matched(i) THEN c ELSE @]
        /\ estimate' = [estimate EXCEPT ![i] = e]
        /\ round' = [round EXCEPT ![i] = r]
        /\ phase' = [phase EXCEPT ![i] = "est"]
        /\ est' = [est EXCEPT ![i] = [v \in Bit |-> IF v = e THEN {i} ELSE {}]]
        /\ bin' = [bin EXCEPT ![i] = {}]
        /\ aux' = [aux EXCEPT ![i] = [v \in Bit |-> {}]]
        /\ conf' = [conf EXCEPT ![i] = [k \in ValueSets |-> {}]]
        /\ confRead' = [confRead EXCEPT ![i] = {}]
        /\ sent' = sent \cup {Message(i, r, "EST", {e})}
        /\ UNCHANGED <<input, output, coin>>

Init ==
    /\ input \in [Correct -> Bit]
    /\ round = [i \in Correct |-> 0]
    /\ phase = [i \in Correct |-> "est"]
    /\ estimate = input
    /\ decision = [i \in Correct |-> NoBit]
    /\ output = [i \in Correct |-> NoBit]
    /\ est = [i \in Correct |-> [v \in Bit |-> IF v = input[i] THEN {i} ELSE {}]]
    /\ bin = [i \in Correct |-> {}]
    /\ aux = [i \in Correct |-> [v \in Bit |-> {}]]
    /\ conf = [i \in Correct |-> [k \in ValueSets |-> {}]]
    /\ confRead = [i \in Correct |-> {}]
    /\ sent = {Message(i, 0, "EST", {input[i]}) : i \in Correct}
    /\ coin = [r \in Round |-> NoBit]

Next ==
    \/ \E i \in Correct :
          \/ Receive(i) \/ SendAUX(i) \/ SendCONF(i) \/ FinishCONF(i)
          \/ Return(i) \/ NextRound(i)
    \/ \E r \in Round : TossCoin(r)

Spec == Init /\ [][Next]_vars

\* The goroutine runs while it can, and the network delivers.
Fairness ==
    /\ \A i \in Correct :
          /\ WF_vars(Receive(i)) /\ WF_vars(SendAUX(i)) /\ WF_vars(SendCONF(i))
          /\ WF_vars(FinishCONF(i)) /\ WF_vars(Return(i)) /\ WF_vars(NextRound(i))
    /\ \A r \in Round : WF_vars(TossCoin(r))

FairSpec == Spec /\ Fairness

-----------------------------------------------------------------------------
TypeOK ==
    /\ input \in [Correct -> Bit]
    /\ round \in [Correct -> Round]
    /\ phase \in [Correct -> {"est", "aux", "conf", "coin", "done"}]
    /\ estimate \in [Correct -> Bit]
    /\ decision \in [Correct -> Bit \cup {NoBit}]
    /\ output \in [Correct -> Bit \cup {NoBit}]
    /\ est \in [Correct -> [Bit -> SUBSET Node]]
    /\ bin \in [Correct -> SUBSET Bit]
    /\ aux \in [Correct -> [Bit -> SUBSET Node]]
    /\ conf \in [Correct -> [ValueSets -> SUBSET Node]]
    /\ confRead \in [Correct -> SUBSET Correct]
    /\ sent \subseteq Messages
    /\ coin \in [Round -> Bit \cup {NoBit}]

\* Reading messages one by one implements the quorum-level specification.
Rounds == INSTANCE ABARounds WITH
    outcome <- [i \in Correct |->
                  IF phase[i] \in {"coin", "done"}
                    THEN DecidedValues(bin[i], conf[i]) ELSE {}]

ImplementsRounds == Rounds!Spec

\* Every correct node gets past the EST and AUX exchanges of the first round,
\* whatever the inputs: echoing at f+1 makes bin non-empty everywhere.
FirstRoundConfirms == \A i \in Correct : <>(phase[i] = "conf" \/ round[i] > 0)

\* Every correct node returns (or runs into the bound on rounds) when the
\* faulty nodes stay silent, as TestRunMVBACCommonSubset_CompletesWithOneSilentNode
\* of acs_vacs_test.go expects of the protocol that runs on top.
Termination ==
    \A i \in Correct : <>(phase[i] = "done" \/ (round[i] = MaxRound /\ phase[i] = "coin"))
=============================================================================
