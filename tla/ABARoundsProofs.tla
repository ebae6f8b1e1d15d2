-------------------------- MODULE ABARoundsProofs --------------------------
(***************************************************************************)
(* Agreement, validity and the lock behind them, for every set of nodes,   *)
(* every fault bound with n >= 3f+1 and every bound on rounds.             *)
(***************************************************************************)
EXTENDS ABARounds, FiniteSetTheorems, TLAPS

\* Some correct node sent EST(v) in round r.
EstSent(r, v) == \E i \in Correct : Message(i, r, "EST", {v}) \in sent

\* A quorum may have confirmed v alone in round r.
ConfQuorum(r, v) == Cardinality(Claims(sent, r, "CONF", {v})) >= Quorum

\* A node sends messages of the rounds it has reached, and CONF last.
Shape ==
    \A m \in sent :
        /\ m.round <= round[m.from]
        /\ m.phase = "CONF" /\ m.round = round[m.from]
               => phase[m.from] \in {"conf", "coin", "done"}

OneCONF ==
    \A m1, m2 \in sent :
        m1.phase = "CONF" /\ m2.phase = "CONF" /\ m1.from = m2.from
            /\ m1.round = m2.round => m1.vals = m2.vals

BinJustified == \A i \in Correct : \A v \in bin[i] : EstSent(round[i], v)

ConfJustified ==
    \A m \in sent : m.phase = "CONF" => \A v \in m.vals : EstSent(m.round, v)

OutcomeJustified ==
    \A i \in Correct :
        /\ outcome[i] \subseteq bin[i]
        /\ \A v \in Bit : outcome[i] = {v} => ConfQuorum(round[i], v)

EstChain ==
    \A m \in sent : \A v \in Bit :
        m.phase = "EST" /\ m.vals = {v} => \A r \in 0 .. m.round : EstSent(r, v)

EstOrigin ==
    \A m \in sent : \A v \in Bit : \A r \in Round :
        m.phase = "EST" /\ m.vals = {v} /\ m.round = r + 1
            => coin[r] \in Bit /\ (coin[r] = v \/ ConfQuorum(r, v))

InputOrigin ==
    \A v \in Bit : EstSent(0, v) => \E j \in Correct : input[j] = v

DecisionJustified ==
    \A i \in Correct :
        /\ decision[i] # NoBit =>
              \E r \in Round : /\ r < round[i] /\ coin[r] = decision[i]
                               /\ ConfQuorum(r, decision[i])
        /\ output[i] # NoBit => output[i] = decision[i]

OutputDone == \A i \in Correct : output[i] # NoBit => phase[i] = "done"

Inv ==
    /\ TypeOK /\ Shape /\ OneCONF /\ BinJustified /\ ConfJustified
    /\ OutcomeJustified /\ EstChain /\ EstOrigin /\ InputOrigin
    /\ DecisionJustified /\ OutputDone

-----------------------------------------------------------------------------
(* Quorum arithmetic. *)

\* What the provers need of the assumption, as arithmetic.
LEMMA Numbers ==
    /\ IsFiniteSet(Node) /\ IsFiniteSet(Faulty) /\ IsFiniteSet(Correct)
    /\ N \in Nat /\ F \in Nat /\ Cardinality(Faulty) \in Nat
    /\ Cardinality(Faulty) <= F /\ N >= 3 * F + 1
    /\ Quorum \in Nat /\ MaxRound \in Nat
    /\ Round \subseteq Nat /\ \A r \in Nat : r \in Round <=> r <= MaxRound
<1>1. IsFiniteSet(Faulty) /\ IsFiniteSet(Correct)
  BY RoundsAssumption, FS_Subset DEF Correct
<1>2. N \in Nat /\ Cardinality(Faulty) \in Nat
  BY <1>1, RoundsAssumption, FS_CardinalityType DEF N
<1> QED
  BY <1>1, <1>2, RoundsAssumption DEF N, Quorum, Round

\* f+1 claims include one of a correct node: what a single echo rests on.
LEMMA QuorumHasCorrect ==
    ASSUME NEW S \in SUBSET Correct, Cardinality(S \cup Faulty) >= F + 1
    PROVE  \E i \in S : TRUE
<1> SUFFICES ASSUME S = {} PROVE FALSE
  OBVIOUS
<1>1. S \cup Faulty = Faulty
  OBVIOUS
<1>2. Cardinality(Faulty) >= F + 1
  BY <1>1
<1> QED
  BY <1>2, Numbers

\* Cardinalities of disjoint finite sets add up.
LEMMA DisjointUnion ==
    ASSUME NEW S, NEW T, IsFiniteSet(S), IsFiniteSet(T), S \cap T = {}
    PROVE  /\ IsFiniteSet(S \cup T)
           /\ Cardinality(S \cup T) = Cardinality(S) + Cardinality(T)
           /\ Cardinality(S) \in Nat /\ Cardinality(T) \in Nat
<1>1. Cardinality(S \cap T) = 0
  BY FS_EmptySet
<1>2. /\ IsFiniteSet(S \cup T)
      /\ Cardinality(S \cup T) = Cardinality(S) + Cardinality(T) - Cardinality(S \cap T)
  BY FS_Union
<1>3. Cardinality(S) \in Nat /\ Cardinality(T) \in Nat
  BY FS_CardinalityType
<1> QED
  BY <1>1, <1>2, <1>3

\* Two sets of n-f claims share a correct node.
LEMMA QuorumsMeet ==
    ASSUME NEW S \in SUBSET Correct, NEW T \in SUBSET Correct,
           Cardinality(S \cup Faulty) >= Quorum, Cardinality(T \cup Faulty) >= Quorum
    PROVE  \E i \in S : i \in T
<1> SUFFICES ASSUME S \cap T = {} PROVE FALSE
  OBVIOUS
<1>1. IsFiniteSet(S) /\ IsFiniteSet(T) /\ IsFiniteSet(Faulty)
  BY Numbers, FS_Subset
<1>2. S \cap Faulty = {} /\ T \cap Faulty = {} /\ (S \cup T) \cap Faulty = {}
  BY DEF Correct
<1>3. /\ Cardinality(S \cup Faulty) = Cardinality(S) + Cardinality(Faulty)
      /\ Cardinality(T \cup Faulty) = Cardinality(T) + Cardinality(Faulty)
  BY <1>1, <1>2, DisjointUnion
<1>4. /\ IsFiniteSet(S \cup T)
      /\ Cardinality(S \cup T) = Cardinality(S) + Cardinality(T)
      /\ Cardinality(S) \in Nat /\ Cardinality(T) \in Nat
  BY <1>1, DisjointUnion
<1>5. Cardinality((S \cup T) \cup Faulty) = Cardinality(S \cup T) + Cardinality(Faulty)
  BY <1>1, <1>2, <1>4, DisjointUnion
<1>6. Cardinality((S \cup T) \cup Faulty) <= N
  <2>1. (S \cup T) \cup Faulty \subseteq Node
    BY RoundsAssumption DEF Correct
  <2> QED
    BY <2>1, RoundsAssumption, FS_Subset DEF N
<1> HIDE DEF N
<1> QED
  BY <1>3, <1>4, <1>5, <1>6, Numbers DEF Quorum

\* Claims only grow: a quorum seen once stays a quorum.
LEMMA ClaimsGrow ==
    ASSUME NEW S, NEW T, S \subseteq T, NEW r, NEW p, NEW vs, NEW k \in Nat,
           Cardinality(Claims(S, r, p, vs)) >= k
    PROVE  Cardinality(Claims(T, r, p, vs)) >= k
<1>1. Claims(S, r, p, vs) \subseteq Claims(T, r, p, vs)
  BY DEF Claims, Senders
<1>2. Claims(T, r, p, vs) \subseteq Node
  BY RoundsAssumption DEF Claims, Senders, Correct
<1>3. IsFiniteSet(Claims(T, r, p, vs))
  BY <1>2, Numbers, FS_Subset
<1> QED
  BY <1>1, <1>3, FS_Subset, FS_CardinalityType

-----------------------------------------------------------------------------
(* Consequences of the invariant within one state. *)

\* f+1 claims of EST(v) mean that a correct node sent it.
LEMMA EstClaims ==
    ASSUME NEW r, NEW v, Cardinality(Claims(sent, r, "EST", {v})) >= F + 1
    PROVE  EstSent(r, v)
<1>1. Senders(sent, r, "EST", {v}) \in SUBSET Correct
  BY DEF Senders
<1>2. PICK i \in Senders(sent, r, "EST", {v}) : TRUE
  BY <1>1, QuorumHasCorrect DEF Claims
<1> QED
  BY <1>2 DEF Senders, EstSent

\* One value at most is confirmed alone in a round.
LEMMA ConfUnique ==
    ASSUME OneCONF, NEW r, NEW v, NEW w, ConfQuorum(r, v), ConfQuorum(r, w)
    PROVE  v = w
<1>1. /\ Senders(sent, r, "CONF", {v}) \in SUBSET Correct
      /\ Senders(sent, r, "CONF", {w}) \in SUBSET Correct
  BY DEF Senders
<1>2. PICK i \in Senders(sent, r, "CONF", {v}) : i \in Senders(sent, r, "CONF", {w})
  BY <1>1, QuorumsMeet DEF ConfQuorum, Claims
<1>3. Message(i, r, "CONF", {v}) \in sent /\ Message(i, r, "CONF", {w}) \in sent
  BY <1>2 DEF Senders
<1>4. {v} = {w}
  BY <1>3 DEF OneCONF, Message
<1> QED
  BY <1>4

\* A confirmed value was proposed by a correct node in that round.
LEMMA ConfProposed ==
    ASSUME ConfJustified, NEW r, NEW v, ConfQuorum(r, v)
    PROVE  EstSent(r, v)
<1>1. Senders(sent, r, "CONF", {v}) \in SUBSET Correct
  BY DEF Senders
<1>2. Cardinality(Senders(sent, r, "CONF", {v}) \cup Faulty) >= F + 1
  <2> HIDE DEF N
  <2>1. Claims(sent, r, "CONF", {v}) \subseteq Node
    BY RoundsAssumption DEF Claims, Senders, Correct
  <2>2. Cardinality(Claims(sent, r, "CONF", {v})) \in Nat
    BY <2>1, Numbers, FS_Subset, FS_CardinalityType
  <2> QED
    BY <2>2, Numbers DEF ConfQuorum, Claims, Quorum
<1>3. PICK i \in Senders(sent, r, "CONF", {v}) : TRUE
  BY <1>1, <1>2, QuorumHasCorrect
<1>4. Message(i, r, "CONF", {v}) \in sent
  BY <1>3 DEF Senders
<1> QED
  BY <1>4 DEF ConfJustified, Message

\* What was sent stays sent.
LEMMA Grows ==
    ASSUME sent \subseteq sent'
    PROVE  /\ \A r, v : EstSent(r, v) => EstSent(r, v)'
           /\ \A r, v : ConfQuorum(r, v) => ConfQuorum(r, v)'
<1>1. ASSUME NEW r, NEW v, ConfQuorum(r, v) PROVE ConfQuorum(r, v)'
  BY <1>1, ClaimsGrow, Numbers DEF ConfQuorum
<1> QED
  BY <1>1 DEF EstSent

-----------------------------------------------------------------------------
(* The invariant is inductive. *)

\* What a correct node sends is a message.
LEMMA MessageTyped ==
    /\ \A i \in Correct, r \in Round, p \in {"EST", "AUX", "CONF"}, vs \in ValueSets :
          Message(i, r, p, vs) \in Messages
    /\ \A v \in Bit : {v} \in ValueSets
<1>1. \A v \in Bit : {v} \in ValueSets
  BY DEF ValueSets
<1> QED
  BY <1>1 DEF Message, Messages

\* Nodes start with the EST of their input and nothing else.
LEMMA InitInv == Init => Inv
<1> SUFFICES ASSUME Init PROVE Inv
  OBVIOUS
<1>1. 0 \in Round
  BY Numbers
<1>2. \A m \in sent : \E j \in Correct : m = Message(j, 0, "EST", {input[j]})
  BY DEF Init
<1>3. TypeOK
  <2>1. input \in [Correct -> Bit]
    BY DEF Init
  <2>2. \A j \in Correct : Message(j, 0, "EST", {input[j]}) \in Messages
    <3> TAKE j \in Correct
    <3>1. {input[j]} \in ValueSets
      BY <2>1, MessageTyped
    <3> QED
      BY <1>1, <3>1, MessageTyped
  <2>3. sent \subseteq Messages
    BY <1>2, <2>2
  <2> QED
    BY <1>1, <2>1, <2>3 DEF Init, TypeOK, Phase
<1>4. Shape /\ OneCONF /\ ConfJustified
  BY <1>2, Numbers DEF Init, Shape, OneCONF, ConfJustified, Message
<1>5. BinJustified /\ OutcomeJustified /\ DecisionJustified /\ OutputDone
  BY DEF Init, BinJustified, OutcomeJustified, DecisionJustified, OutputDone
<1>6. EstChain
  <2> SUFFICES ASSUME NEW m \in sent, NEW v \in Bit, m.phase = "EST", m.vals = {v},
                      NEW r \in 0 .. m.round
               PROVE  EstSent(r, v)
    BY DEF EstChain
  <2>1. PICK j \in Correct : m = Message(j, 0, "EST", {input[j]})
    BY <1>2
  <2>2. r = 0 /\ m = Message(j, 0, "EST", {v})
    BY <2>1 DEF Message
  <2> QED
    BY <2>2 DEF EstSent
<1>7. EstOrigin
  <2> SUFFICES ASSUME NEW m \in sent, NEW r \in Round, m.round = r + 1 PROVE FALSE
    BY DEF EstOrigin
  <2> QED
    BY <1>2, Numbers DEF Message
<1>8. InputOrigin
  <2> SUFFICES ASSUME NEW v \in Bit, EstSent(0, v)
               PROVE  \E j \in Correct : input[j] = v
    BY DEF InputOrigin
  <2>1. PICK i \in Correct : Message(i, 0, "EST", {v}) \in sent
    BY DEF EstSent
  <2>2. PICK j \in Correct : Message(i, 0, "EST", {v}) = Message(j, 0, "EST", {input[j]})
    BY <2>1, <1>2
  <2>3. {v} = {input[j]}
    BY <2>2 DEF Message
  <2> QED
    BY <2>3
<1> QED
  BY <1>3, <1>4, <1>5, <1>6, <1>7, <1>8 DEF Inv

\* A value enters bin, and is echoed, only on the word of a correct node.
LEMMA AbsorbInv == ASSUME Inv, NEW i \in Correct, Absorb(i) PROVE Inv'
<1> USE DEF Inv
<1>1. PICK E \in SUBSET Bit, B \in SUBSET Bit :
        /\ \A v \in E : Cardinality(Claims(sent, round[i], "EST", {v})) >= F + 1
        /\ sent' = sent \cup {Message(i, round[i], "EST", {v}) : v \in E}
        /\ \A v \in B : Cardinality(Claims(sent', round[i], "EST", {v})) >= 2 * F + 1
        /\ bin' = [bin EXCEPT ![i] = @ \cup B]
  BY DEF Absorb, AbsorbValues
<1>2. UNCHANGED <<input, round, phase, decision, output, outcome, coin>>
  BY DEF Absorb, AbsorbValues
<1>3. sent \subseteq sent'
  BY <1>1
<1>4. /\ \A r, v : EstSent(r, v) => EstSent(r, v)'
      /\ \A r, v : ConfQuorum(r, v) => ConfQuorum(r, v)'
  BY <1>3, Grows
<1>5. round[i] \in Round /\ round[i] \in Nat
  BY Numbers DEF TypeOK
\* An echoed value was already sent by a correct node in this round.
<1>6. ASSUME NEW m \in sent', m \notin sent
      PROVE  /\ m.phase = "EST" /\ m.from = i /\ m.round = round[i]
             /\ \E v \in Bit : m.vals = {v} /\ EstSent(round[i], v)
  <2>1. PICK v \in E : m = Message(i, round[i], "EST", {v})
    BY <1>1, <1>6
  <2>2. EstSent(round[i], v)
    BY <1>1, EstClaims
  <2> QED
    BY <2>1, <2>2 DEF Message
<1>7. TypeOK'
  <2>1. sent' \subseteq Messages
    <3>1. \A v \in E : Message(i, round[i], "EST", {v}) \in Messages
      BY <1>5, MessageTyped
    <3> QED
      BY <1>1, <3>1 DEF TypeOK
  <2>2. bin' \in [Correct -> SUBSET Bit]
    BY <1>1 DEF TypeOK
  <2> QED
    BY <1>2, <2>1, <2>2 DEF TypeOK
<1>8. Shape'
  BY <1>2, <1>5, <1>6 DEF Shape
<1>9. OneCONF'
  BY <1>6 DEF OneCONF
<1>10. BinJustified'
  <2> SUFFICES ASSUME NEW j \in Correct, NEW v \in bin'[j] PROVE EstSent(round[j], v)'
    BY <1>2 DEF BinJustified
  <2>1. CASE v \in bin[j]
    BY <2>1, <1>2, <1>4 DEF BinJustified
  <2>2. CASE v \notin bin[j]
    <3>1. j = i /\ v \in B
      BY <2>2, <1>1 DEF TypeOK
    <3>2. Claims(sent', round[i], "EST", {v}) \subseteq Node
      BY RoundsAssumption DEF Claims, Senders, Correct
    <3>3. Cardinality(Claims(sent', round[i], "EST", {v})) \in Nat
      BY <3>2, Numbers, FS_Subset, FS_CardinalityType
    <3>4. Cardinality(Claims(sent', round[i], "EST", {v})) >= F + 1
      <4>1. Cardinality(Claims(sent', round[i], "EST", {v})) >= 2 * F + 1
        BY <3>1, <1>1
      <4>2. F \in Nat
        BY Numbers
      <4> HIDE DEF Inv
      <4> QED
        BY <3>3, <4>1, <4>2
    <3>5. Senders(sent', round[i], "EST", {v}) \in SUBSET Correct
      BY DEF Senders
    <3>6. PICK k \in Senders(sent', round[i], "EST", {v}) : TRUE
      BY <3>4, <3>5, QuorumHasCorrect DEF Claims
    <3> QED
      BY <3>1, <3>6, <1>2 DEF Senders, EstSent
  <2> QED
    BY <2>1, <2>2
<1>11. ConfJustified'
  BY <1>4, <1>6 DEF ConfJustified
<1>12. OutcomeJustified'
  <2>1. \A j \in Correct : bin[j] \subseteq bin'[j]
    BY <1>1 DEF TypeOK
  <2> QED
    BY <2>1, <1>2, <1>4 DEF OutcomeJustified
\* A new message repeats one that is already there.
<1>13. ASSUME NEW m \in sent', NEW v \in Bit, m.phase = "EST", m.vals = {v}
       PROVE  \E m0 \in sent : m0.phase = "EST" /\ m0.vals = {v} /\ m0.round = m.round
  <2>1. CASE m \in sent
    BY <2>1, <1>13
  <2>2. CASE m \notin sent
    <3>1. PICK w \in Bit : m.vals = {w} /\ EstSent(round[i], w)
      BY <2>2, <1>6
    <3>2. w = v /\ m.round = round[i]
      BY <3>1, <2>2, <1>6, <1>13
    <3>3. PICK k \in Correct : Message(k, round[i], "EST", {v}) \in sent
      BY <3>1, <3>2 DEF EstSent
    <3> QED
      BY <3>2, <3>3 DEF Message
  <2> QED
    BY <2>1, <2>2
<1>14. EstChain'
  BY <1>4, <1>13 DEF EstChain
<1>15. EstOrigin'
  BY <1>2, <1>4, <1>13 DEF EstOrigin
<1>16. InputOrigin'
  <2> SUFFICES ASSUME NEW v \in Bit, EstSent(0, v)'
               PROVE  \E j \in Correct : input[j] = v
    BY <1>2 DEF InputOrigin
  <2>1. PICK k \in Correct : Message(k, 0, "EST", {v}) \in sent'
    BY DEF EstSent
  <2>2. PICK m0 \in sent : m0.phase = "EST" /\ m0.vals = {v} /\ m0.round = 0
    BY <2>1, <1>13 DEF Message
  <2>3. EstSent(0, v)
    BY <2>2 DEF EstChain
  <2> QED
    BY <2>3 DEF InputOrigin
<1>17. DecisionJustified' /\ OutputDone'
  BY <1>2, <1>4 DEF DecisionJustified, OutputDone
<1> QED
  BY <1>7, <1>8, <1>9, <1>10, <1>11, <1>12, <1>14, <1>15, <1>16, <1>17

\* AUX carries no obligation: only the typing conjuncts are at stake.
LEMMA SendAUXInv == ASSUME Inv, NEW i \in Correct, SendAUX(i) PROVE Inv'
<1> USE DEF Inv
<1> DEFINE v0 == IF 0 \in bin[i] THEN 0 ELSE 1
           m0 == Message(i, round[i], "AUX", {v0})
<1>1. /\ phase[i] = "est" /\ sent' = sent \cup {m0}
      /\ phase' = [phase EXCEPT ![i] = "aux"]
      /\ UNCHANGED <<input, round, decision, output, bin, outcome, coin>>
  BY DEF SendAUX
<1>2. m0 \in Messages /\ m0.phase = "AUX" /\ m0.round = round[i] /\ m0.from = i
  <2>1. round[i] \in Round /\ v0 \in Bit
    BY DEF TypeOK, Bit
  <2>2. {v0} \in ValueSets
    BY <2>1, MessageTyped
  <2> QED
    BY <2>1, <2>2, MessageTyped DEF Message
<1> HIDE DEF m0
<1>3. /\ \A r, v : EstSent(r, v) => EstSent(r, v)'
      /\ \A r, v : ConfQuorum(r, v) => ConfQuorum(r, v)'
  BY <1>1, Grows
<1>4. \A m \in sent' : m.phase # "AUX" => m \in sent
  BY <1>1, <1>2
<1>5. TypeOK'
  BY <1>1, <1>2 DEF TypeOK, Phase
<1>6. Shape'
  <2>1. round[i] \in Nat
    BY Numbers DEF TypeOK
  <2>2. \A m \in sent : m.from \in Correct
    BY DEF TypeOK, Messages
  <2> QED
    BY <1>1, <1>2, <2>1, <2>2 DEF Shape, TypeOK
<1>7. OneCONF' /\ ConfJustified'
  BY <1>3, <1>4 DEF OneCONF, ConfJustified
<1>8. BinJustified' /\ OutcomeJustified' /\ DecisionJustified'
  BY <1>1, <1>3 DEF BinJustified, OutcomeJustified, DecisionJustified
<1>9. EstChain' /\ EstOrigin'
  BY <1>1, <1>3, <1>4 DEF EstChain, EstOrigin
<1>10. InputOrigin'
  <2>1. \A v : EstSent(0, v)' => EstSent(0, v)
    BY <1>4 DEF EstSent, Message
  <2> QED
    BY <1>1, <2>1 DEF InputOrigin
<1>11. OutputDone'
  BY <1>1 DEF OutputDone, TypeOK
<1> QED
  BY <1>5, <1>6, <1>7, <1>8, <1>9, <1>10, <1>11

\* The one CONF of a node in a round names values of its bin.
LEMMA SendCONFInv == ASSUME Inv, NEW i \in Correct, SendCONF(i) PROVE Inv'
<1> USE DEF Inv
<1>0. PICK vs \in ValueSets :
      /\ phase[i] = "aux" /\ vs \subseteq bin[i]
      /\ sent' = sent \cup {Message(i, round[i], "CONF", vs)}
      /\ phase' = [phase EXCEPT ![i] = "conf"]
      /\ UNCHANGED <<input, round, decision, output, bin, outcome, coin>>
  BY DEF SendCONF
<1> DEFINE m0 == Message(i, round[i], "CONF", vs)
<1>1. /\ sent' = sent \cup {m0}
      /\ phase' = [phase EXCEPT ![i] = "conf"]
      /\ UNCHANGED <<input, round, decision, output, bin, outcome, coin>>
  BY <1>0
<1>2. /\ m0 \in Messages /\ m0.phase = "CONF" /\ m0.round = round[i] /\ m0.from = i
      /\ m0.vals = vs
  <2>1. round[i] \in Round
    BY DEF TypeOK
  <2> QED
    BY <2>1, MessageTyped DEF Message
<1> HIDE DEF m0
<1>3. /\ \A r, v : EstSent(r, v) => EstSent(r, v)'
      /\ \A r, v : ConfQuorum(r, v) => ConfQuorum(r, v)'
  BY <1>1, Grows
<1>4. \A m \in sent' : m.phase = "EST" => m \in sent
  BY <1>1, <1>2
<1>5. TypeOK'
  BY <1>1, <1>2 DEF TypeOK, Phase
<1>6. Shape'
  <2>1. round[i] \in Nat
    BY Numbers DEF TypeOK
  <2>2. \A m \in sent : m.from \in Correct
    BY DEF TypeOK, Messages
  <2> QED
    BY <1>1, <1>2, <2>1, <2>2 DEF Shape, TypeOK
\* Before this step the node had sent no CONF in this round.
<1>7. OneCONF'
  <2>1. \A m \in sent : ~(m.phase = "CONF" /\ m.from = i /\ m.round = round[i])
    BY <1>0 DEF Shape
  <2> QED
    BY <1>1, <1>2, <2>1 DEF OneCONF
<1>8. ConfJustified'
  <2>1. \A v \in vs : EstSent(round[i], v)
    BY <1>0 DEF BinJustified
  <2> QED
    BY <1>1, <1>2, <1>3, <2>1 DEF ConfJustified
<1>9. BinJustified' /\ OutcomeJustified' /\ DecisionJustified'
  BY <1>1, <1>3 DEF BinJustified, OutcomeJustified, DecisionJustified
<1>10. EstChain' /\ EstOrigin'
  BY <1>1, <1>3, <1>4 DEF EstChain, EstOrigin
<1>11. InputOrigin'
  <2>1. \A v : EstSent(0, v)' => EstSent(0, v)
    BY <1>4 DEF EstSent, Message
  <2> QED
    BY <1>1, <2>1 DEF InputOrigin
<1>12. OutputDone'
  BY <1>0 DEF OutputDone, TypeOK
<1> QED
  BY <1>5, <1>6, <1>7, <1>8, <1>9, <1>10, <1>11, <1>12

\* A single confirmed value has a quorum of CONF behind it.
LEMMA FinishCONFInv == ASSUME Inv, NEW i \in Correct, FinishCONF(i) PROVE Inv'
<1> USE DEF Inv
<1>1. PICK vs \in ValueSets :
      /\ phase[i] = "conf" /\ vs \subseteq bin[i]
      /\ Cardinality(UNION {Claims(sent, round[i], "CONF", k) : k \in (SUBSET vs) \ {{}}})
            >= Quorum
      /\ outcome' = [outcome EXCEPT ![i] = vs]
      /\ phase' = [phase EXCEPT ![i] = "coin"]
      /\ UNCHANGED <<input, round, decision, output, bin, sent, coin>>
  BY DEF FinishCONF
<1>2. TypeOK'
  BY <1>1 DEF TypeOK, Phase
<1>3. Shape'
  <2>1. \A m \in sent : m.from \in Correct
    BY DEF TypeOK, Messages
  <2> QED
    BY <1>1, <2>1 DEF Shape, TypeOK
<1>4. /\ \A r, v : EstSent(r, v)' <=> EstSent(r, v)
      /\ \A r, v : ConfQuorum(r, v)' <=> ConfQuorum(r, v)
  BY <1>1 DEF EstSent, ConfQuorum
<1>5. OneCONF' /\ BinJustified' /\ ConfJustified' /\ DecisionJustified'
  BY <1>1, <1>4 DEF OneCONF, BinJustified, ConfJustified, DecisionJustified
<1>6. EstChain' /\ EstOrigin' /\ InputOrigin'
  BY <1>1, <1>4 DEF EstChain, EstOrigin, InputOrigin
<1>7. OutcomeJustified'
  <2>1. ASSUME NEW v \in Bit, vs = {v} PROVE ConfQuorum(round[i], v)
    <3>1. (SUBSET vs) \ {{}} = {{v}}
      BY <2>1
    <3>2. UNION {Claims(sent, round[i], "CONF", k) : k \in {{v}}}
            = Claims(sent, round[i], "CONF", {v})
      OBVIOUS
    <3> QED
      BY <1>1, <3>1, <3>2 DEF ConfQuorum
  <2> QED
    BY <1>1, <1>4, <2>1 DEF OutcomeJustified, TypeOK
<1>8. OutputDone'
  BY <1>1 DEF OutputDone, TypeOK
<1> QED
  BY <1>2, <1>3, <1>5, <1>6, <1>7, <1>8

\* The coin is fixed once; nothing that refers to an earlier coin changes.
LEMMA TossCoinInv == ASSUME Inv, NEW r \in Round, TossCoin(r) PROVE Inv'
<1> USE DEF Inv
<1>1. PICK c \in Bit : coin' = [coin EXCEPT ![r] = c]
  BY DEF TossCoin
<1>2. /\ coin[r] = NoBit
      /\ UNCHANGED <<input, round, phase, decision, output, bin, outcome, sent>>
  BY DEF TossCoin
<1>3. \A q \in Round : coin[q] \in Bit => coin'[q] = coin[q]
  BY <1>1, <1>2 DEF TypeOK, Bit, NoBit
<1>4. /\ \A q, v : EstSent(q, v)' <=> EstSent(q, v)
      /\ \A q, v : ConfQuorum(q, v)' <=> ConfQuorum(q, v)
  BY <1>2 DEF EstSent, ConfQuorum
<1>5. TypeOK'
  BY <1>1, <1>2 DEF TypeOK
<1>6. Shape' /\ OneCONF' /\ BinJustified' /\ ConfJustified' /\ OutcomeJustified'
  BY <1>2, <1>4 DEF Shape, OneCONF, BinJustified, ConfJustified, OutcomeJustified
<1>7. EstChain' /\ InputOrigin'
  BY <1>2, <1>4 DEF EstChain, InputOrigin
<1>8. EstOrigin'
  BY <1>2, <1>3, <1>4 DEF EstOrigin
<1>9. DecisionJustified'
  <2>1. ASSUME NEW j \in Correct, decision[j] # NoBit
        PROVE  \E q \in Round : /\ q < round[j] /\ coin'[q] = decision[j]
                                /\ ConfQuorum(q, decision[j])
    <3>1. PICK q \in Round : /\ q < round[j] /\ coin[q] = decision[j]
                             /\ ConfQuorum(q, decision[j])
      BY <2>1 DEF DecisionJustified
    <3>2. coin[q] \in Bit
      BY <2>1, <3>1 DEF TypeOK
    <3> QED
      BY <1>3, <3>1, <3>2
  <2> QED
    BY <1>2, <1>4, <2>1 DEF DecisionJustified
<1>10. OutputDone'
  BY <1>2 DEF OutputDone
<1> QED
  BY <1>5, <1>6, <1>7, <1>8, <1>9, <1>10

\* A node returns the value it had decided in an earlier round.
LEMMA ReturnInv == ASSUME Inv, NEW i \in Correct, Return(i) PROVE Inv'
<1> USE DEF Inv
<1>1. /\ phase[i] = "coin" /\ output' = [output EXCEPT ![i] = decision[i]]
      /\ phase' = [phase EXCEPT ![i] = "done"]
      /\ UNCHANGED <<input, round, decision, bin, outcome, sent, coin>>
  BY DEF Return
<1>2. /\ \A q, v : EstSent(q, v)' <=> EstSent(q, v)
      /\ \A q, v : ConfQuorum(q, v)' <=> ConfQuorum(q, v)
  BY <1>1 DEF EstSent, ConfQuorum
<1>3. TypeOK'
  BY <1>1 DEF TypeOK, Phase
<1>4. Shape'
  <2>1. \A m \in sent : m.from \in Correct
    BY DEF TypeOK, Messages
  <2> QED
    BY <1>1, <2>1 DEF Shape, TypeOK
<1>5. OneCONF' /\ BinJustified' /\ ConfJustified' /\ OutcomeJustified'
  BY <1>1, <1>2 DEF OneCONF, BinJustified, ConfJustified, OutcomeJustified
<1>6. EstChain' /\ EstOrigin' /\ InputOrigin'
  BY <1>1, <1>2 DEF EstChain, EstOrigin, InputOrigin
<1>7. DecisionJustified'
  BY <1>1, <1>2 DEF DecisionJustified, TypeOK
<1>8. OutputDone'
  BY <1>1 DEF OutputDone, TypeOK
<1> QED
  BY <1>3, <1>4, <1>5, <1>6, <1>7, <1>8

\* The estimate of the next round is the confirmed value or the coin: the step
\* on which EstChain, EstOrigin and DecisionJustified rest.
LEMMA NextRoundInv == ASSUME Inv, NEW i \in Correct, NextRound(i) PROVE Inv'
<1> USE DEF Inv
<1> DEFINE c == coin[round[i]]
<1>r. PICK r \in Round : r = round[i] + 1
  BY DEF NextRound
<1>0. PICK e \in outcome[i] :
        /\ phase[i] = "coin" /\ c # NoBit
        /\ r \in Round
        /\ outcome[i] = Bit => e = c
        /\ decision' = [decision EXCEPT ![i] = IF Matched(i) THEN c ELSE @]
        /\ round' = [round EXCEPT ![i] = r]
        /\ phase' = [phase EXCEPT ![i] = "est"]
        /\ bin' = [bin EXCEPT ![i] = {}]
        /\ outcome' = [outcome EXCEPT ![i] = {}]
        /\ sent' = sent \cup {Message(i, r, "EST", {e})}
        /\ UNCHANGED <<input, output, coin>>
  BY <1>r DEF NextRound
<1> DEFINE m0 == Message(i, r, "EST", {e})
<1>1. round[i] \in Round /\ round[i] \in Nat /\ c \in Bit /\ e \in Bit
  BY <1>0, Numbers DEF TypeOK
<1>2. /\ m0 \in Messages /\ m0.phase = "EST" /\ m0.round = r /\ m0.from = i
      /\ m0.vals = {e} /\ sent' = sent \cup {m0}
  <2>1. {e} \in ValueSets
    BY <1>1, MessageTyped
  <2> QED
    BY <1>0, <2>1, MessageTyped DEF Message
<1>3. EstSent(r, e)'
  BY <1>0 DEF EstSent
<1> HIDE DEF m0
<1>4. /\ \A q, v : EstSent(q, v) => EstSent(q, v)'
      /\ \A q, v : ConfQuorum(q, v) => ConfQuorum(q, v)'
  BY <1>2, Grows
<1>5. TypeOK'
  <2>1. decision' \in [Correct -> Bit \cup {NoBit}]
    BY <1>0, <1>1 DEF TypeOK
  <2> QED
    BY <1>0, <1>2, <2>1 DEF TypeOK, Phase
<1>6. \A m \in sent : m.from \in Correct /\ m.round \in Nat
  BY Numbers DEF TypeOK, Messages
<1>7. Shape'
  <2>1. ASSUME NEW m \in sent, m.from = i PROVE m.round < r
    BY <2>1, <1>r, <1>1, <1>6 DEF Shape
  <2>2. ASSUME NEW m \in sent, m.from # i
        PROVE  round'[m.from] = round[m.from] /\ phase'[m.from] = phase[m.from]
    BY <2>2, <1>0, <1>6 DEF TypeOK
  <2>3. round'[i] = r
    BY <1>0 DEF TypeOK
  <2>4. ASSUME NEW m \in sent, m.from # i
        PROVE  /\ m.round <= round'[m.from]
               /\ m.phase = "CONF" /\ m.round = round'[m.from]
                      => phase'[m.from] \in {"conf", "coin", "done"}
    BY <2>2, <2>4 DEF Shape
  <2>5. ASSUME NEW m \in sent, m.from = i
        PROVE  m.round <= round'[m.from] /\ m.round # round'[m.from]
    BY <2>1, <2>3, <2>5, <1>1, <1>r, <1>6
  <2>6. m0.round <= round'[m0.from] /\ m0.phase # "CONF"
    BY <1>1, <1>2, <1>r, <2>3
  <2> QED
    BY <1>2, <2>4, <2>5, <2>6 DEF Shape
<1>8. OneCONF' /\ ConfJustified'
  BY <1>2, <1>4 DEF OneCONF, ConfJustified
<1>9. BinJustified' /\ OutcomeJustified'
  BY <1>0, <1>4 DEF BinJustified, OutcomeJustified, TypeOK
\* The new estimate was proposed in the round that ends.
<1>10. EstSent(round[i], e)
  BY <1>0 DEF OutcomeJustified, BinJustified
<1>11. PICK m1 \in sent : m1.phase = "EST" /\ m1.vals = {e} /\ m1.round = round[i]
  BY <1>10 DEF EstSent, Message
<1>12. EstChain'
  <2>1. \A q \in 0 .. r : EstSent(q, e)'
    <3> TAKE q \in 0 .. r
    <3>1. CASE q = r
      BY <3>1, <1>3
    <3>2. CASE q # r
      <4>1. q \in 0 .. round[i]
        BY <3>2, <1>1, <1>r
      <4> QED
        BY <4>1, <1>1, <1>4, <1>11 DEF EstChain
    <3> QED
      BY <3>1, <3>2
  <2>2. \A v : m0.vals = {v} => v = e
    BY <1>2
  <2> QED
    BY <1>2, <1>4, <2>1, <2>2 DEF EstChain
\* Either the coin chose it or a quorum confirmed it.
<1>13. EstOrigin'
  <2>1. c = e \/ ConfQuorum(round[i], e)
    <3>1. outcome[i] = Bit \/ outcome[i] = {e}
      BY <1>0, <1>1 DEF TypeOK, Bit
    <3> QED
      BY <1>0, <1>1, <3>1 DEF OutcomeJustified
  <2>2. \A v : m0.vals = {v} => v = e
    BY <1>2
  <2>3. \A q \in Round : r = q + 1 => q = round[i]
    BY <1>1, <1>r, Numbers
  <2>4. coin' = coin
    BY <1>0
  <2> QED
    BY <1>1, <1>2, <1>4, <2>1, <2>2, <2>3, <2>4 DEF EstOrigin
<1>14. InputOrigin'
  <2>1. \A v : EstSent(0, v)' => EstSent(0, v)
    <3>1. m0.round # 0
      BY <1>1, <1>2, <1>r
    <3> QED
      BY <1>2, <3>1 DEF EstSent, Message
  <2> QED
    BY <1>0, <2>1 DEF InputOrigin
<1>15. DecisionJustified'
  <2>1. ASSUME NEW j \in Correct, decision'[j] # NoBit
        PROVE  \E q \in Round : /\ q < round'[j] /\ coin[q] = decision'[j]
                                /\ ConfQuorum(q, decision'[j])
    <3>1. CASE j # i
      <4>1. decision'[j] = decision[j] /\ round'[j] = round[j]
        BY <3>1, <1>0 DEF TypeOK
      <4> QED
        BY <4>1, <2>1 DEF DecisionJustified
    <3>2. CASE j = i /\ Matched(i)
      <4>1. decision'[j] = c /\ round'[j] = r /\ outcome[i] = {c}
        BY <3>2, <1>0 DEF TypeOK, Matched
      <4>2. ConfQuorum(round[i], c)
        BY <4>1, <1>1 DEF OutcomeJustified
      <4> QED
        BY <4>1, <4>2, <1>1, <1>r
    <3>3. CASE j = i /\ ~Matched(i)
      <4>1. decision'[j] = decision[j] /\ round'[j] = r
        BY <3>3, <1>0 DEF TypeOK
      <4>2. PICK q \in Round : /\ q < round[j] /\ coin[q] = decision[j]
                               /\ ConfQuorum(q, decision[j])
        BY <4>1, <2>1 DEF DecisionJustified
      <4>3. q < r
        BY <4>2, <3>3, <1>1, <1>r, Numbers
      <4> QED
        BY <4>1, <4>2, <4>3
    <3> QED
      BY <3>1, <3>2, <3>3
  <2>2. ASSUME NEW j \in Correct, output[j] # NoBit PROVE output[j] = decision'[j]
    <3>1. output[j] = decision[j]
      BY <2>2 DEF DecisionJustified
    <3>2. j # i
      BY <2>2, <1>0 DEF OutputDone
    <3> QED
      BY <3>1, <3>2, <1>0 DEF TypeOK
  <2> QED
    BY <1>0, <1>4, <2>1, <2>2 DEF DecisionJustified
<1>16. OutputDone'
  BY <1>0 DEF OutputDone, TypeOK
<1> QED
  BY <1>5, <1>7, <1>8, <1>9, <1>12, <1>13, <1>14, <1>15, <1>16

\* Every step preserves the invariant.
LEMMA StepInv == Inv /\ [Next]_vars => Inv'
<1> SUFFICES ASSUME Inv, [Next]_vars PROVE Inv'
  OBVIOUS
<1>1. ASSUME NEW i \in Correct, Absorb(i) PROVE Inv'
  BY <1>1, AbsorbInv
<1>2. ASSUME NEW i \in Correct, SendAUX(i) PROVE Inv'
  BY <1>2, SendAUXInv
<1>3. ASSUME NEW i \in Correct, SendCONF(i) PROVE Inv'
  BY <1>3, SendCONFInv
<1>4. ASSUME NEW i \in Correct, FinishCONF(i) PROVE Inv'
  BY <1>4, FinishCONFInv
<1>5. ASSUME NEW r \in Round, TossCoin(r) PROVE Inv'
  BY <1>5, TossCoinInv
<1>6. ASSUME NEW i \in Correct, Return(i) PROVE Inv'
  BY <1>6, ReturnInv
<1>7. ASSUME NEW i \in Correct, NextRound(i) PROVE Inv'
  BY <1>7, NextRoundInv
<1>8. CASE UNCHANGED vars
  <2>1. UNCHANGED <<input, round, phase, decision, output, bin, outcome, sent, coin>>
    BY <1>8 DEF vars
  <2>2. /\ \A q, v : EstSent(q, v)' <=> EstSent(q, v)
        /\ \A q, v : ConfQuorum(q, v)' <=> ConfQuorum(q, v)
    BY <2>1 DEF EstSent, ConfQuorum
  <2>3. TypeOK' /\ Shape' /\ OneCONF' /\ BinJustified' /\ ConfJustified' /\ OutcomeJustified'
    BY <2>1, <2>2 DEF Inv, TypeOK, Shape, OneCONF, BinJustified, ConfJustified,
                      OutcomeJustified
  <2>4. EstChain' /\ EstOrigin' /\ InputOrigin' /\ DecisionJustified' /\ OutputDone'
    BY <2>1, <2>2 DEF Inv, EstChain, EstOrigin, InputOrigin, DecisionJustified, OutputDone
  <2> QED
    BY <2>3, <2>4 DEF Inv
<1> QED
  BY <1>1, <1>2, <1>3, <1>4, <1>5, <1>6, <1>7, <1>8 DEF Next

\* The invariant holds in every execution of the quorum-level runABA.
THEOREM Invariance == Spec => []Inv
  BY InitInv, StepInv, PTL DEF Spec

-----------------------------------------------------------------------------
(* What the invariant implies. *)

\* A value that differs from a matched one cannot enter a later round.
LEMMA NothingElseLater ==
    ASSUME Inv, NEW r \in Round, NEW v \in Bit, NEW w \in Bit, NEW q \in Round, q > r,
           coin[r] = v, ConfQuorum(r, v), EstSent(q, w)
    PROVE  w = v
<1>1. PICK m \in sent : m.phase = "EST" /\ m.vals = {w} /\ m.round = q
  BY DEF EstSent, Message
<1>2. r + 1 \in 0 .. q
  BY Numbers
<1>3. EstSent(r + 1, w)
  BY <1>1, <1>2 DEF Inv, EstChain
<1>4. coin[r] = w \/ ConfQuorum(r, w)
  <2>1. PICK m1 \in sent : m1.phase = "EST" /\ m1.vals = {w} /\ m1.round = r + 1
    BY <1>3 DEF EstSent, Message
  <2> QED
    BY <2>1 DEF Inv, EstOrigin
<1> QED
  BY <1>4, ConfUnique DEF Inv

\* With nothing else proposed after a match, nothing else is confirmed.
LEMMA LockFromInv == Inv => MatchLocksOutcome
<1> SUFFICES ASSUME Inv, NEW i \in Correct, NEW j \in Correct,
                    decision[i] # NoBit, round[j] >= round[i], outcome[j] # {}
             PROVE  outcome[j] = {decision[i]}
  BY DEF MatchLocksOutcome
<1>1. PICK r \in Round : /\ r < round[i] /\ coin[r] = decision[i]
                         /\ ConfQuorum(r, decision[i])
  BY DEF Inv, DecisionJustified
<1>2. /\ decision[i] \in Bit /\ round[j] \in Round /\ outcome[j] \subseteq Bit
      /\ round[i] \in Nat /\ round[j] \in Nat /\ r \in Nat
  BY Numbers DEF Inv, TypeOK
<1>3. ASSUME NEW w \in outcome[j] PROVE w = decision[i]
  <2>1. EstSent(round[j], w)
    BY DEF Inv, OutcomeJustified, BinJustified
  <2>2. round[j] > r
    BY <1>1, <1>2
  <2> QED
    BY <2>1, <2>2, <1>1, <1>2, NothingElseLater
<1> QED
  BY <1>3

\* Two matched values are equal: compare the rounds of the matches.
LEMMA AgreementFromInv == Inv => Agreement
<1> SUFFICES ASSUME Inv, NEW i \in Correct, NEW j \in Correct,
                    output[i] # NoBit, output[j] # NoBit
             PROVE  output[i] = output[j]
  BY DEF Agreement
<1>1. /\ output[i] = decision[i] /\ output[j] = decision[j]
      /\ decision[i] \in Bit /\ decision[j] \in Bit
  BY DEF Inv, DecisionJustified, TypeOK
<1>2. PICK r \in Round : coin[r] = decision[i] /\ ConfQuorum(r, decision[i])
  BY <1>1 DEF Inv, DecisionJustified
<1>3. PICK q \in Round : coin[q] = decision[j] /\ ConfQuorum(q, decision[j])
  BY <1>1 DEF Inv, DecisionJustified
<1>4. EstSent(r, decision[i]) /\ EstSent(q, decision[j])
  BY <1>2, <1>3, ConfProposed DEF Inv
<1>5. CASE r = q
  BY <1>5, <1>1, <1>2, <1>3
<1>6. CASE q > r
  BY <1>6, <1>1, <1>2, <1>3, <1>4, NothingElseLater
<1>7. CASE r > q
  BY <1>7, <1>1, <1>2, <1>3, <1>4, NothingElseLater
<1> QED
  BY <1>5, <1>6, <1>7, Numbers

\* Values are traced back through EST messages to the inputs of round 0.
LEMMA ValidityFromInv == Inv => Validity
<1> SUFFICES ASSUME Inv, NEW i \in Correct, output[i] # NoBit
             PROVE  \E j \in Correct : input[j] = output[i]
  BY DEF Validity
<1>1. output[i] = decision[i] /\ decision[i] \in Bit
  BY DEF Inv, DecisionJustified, TypeOK
<1>2. PICK r \in Round : ConfQuorum(r, decision[i])
  BY <1>1 DEF Inv, DecisionJustified
<1>3. EstSent(r, decision[i])
  BY <1>2, ConfProposed DEF Inv
<1>4. PICK m \in sent : m.phase = "EST" /\ m.vals = {decision[i]} /\ m.round = r
  BY <1>3 DEF EstSent, Message
<1>5. 0 \in 0 .. r
  BY Numbers
<1>6. EstSent(0, decision[i])
  BY <1>1, <1>4, <1>5 DEF Inv, EstChain
<1> QED
  BY <1>1, <1>6 DEF Inv, InputOrigin

\* runABA keeps its variables in their ranges, for every n, f and round bound.
THEOREM TypeCorrect == Spec => []TypeOK
  BY Invariance, PTL DEF Inv

\* A first coin match fixes what every later round can confirm.
THEOREM LockCorrect == Spec => []MatchLocksOutcome
  BY Invariance, LockFromInv, PTL

\* runABA never returns two values, with up to f Byzantine nodes out of 3f+1.
THEOREM AgreementCorrect == Spec => []Agreement
  BY Invariance, AgreementFromInv, PTL

\* runABA only returns a value that a correct node put in.
THEOREM ValidityCorrect == Spec => []Validity
  BY Invariance, ValidityFromInv, PTL
=============================================================================
