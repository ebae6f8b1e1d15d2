------------------------------ MODULE ABAProofs ------------------------------
(***************************************************************************)
(* Binary agreement that reads one message at a time implements the        *)
(* quorum-level specification, for every set of nodes, every set of        *)
(* messages faulty nodes may forge and every bound on rounds, so that what *)
(* is proved of ABARounds holds of the loop of runABA.                     *)
(***************************************************************************)
EXTENDS ABA, QuorumLemmas

\* Correct nodes with this message in S, and the faulty ones.
Claim(S, r, p, vs) == {j \in Correct : Message(j, r, p, vs) \in S} \cup Faulty

\* Whom a node counts has sent what it is counted for, in the current round.
CountsClaims ==
    \A i \in Correct :
        /\ \A v \in Bit : /\ est[i][v] \subseteq Claim(sent, round[i], "EST", {v})
                          /\ aux[i][v] \subseteq Claim(sent, round[i], "AUX", {v})
        /\ \A k \in ValueSets : conf[i][k] \subseteq Claim(sent, round[i], "CONF", k)

\* The CONF exchange of a node that asks for the coin is over.
CoinDecided ==
    \A i \in Correct : phase[i] \in {"coin", "done"} => DecidedValues(bin[i], conf[i]) # {}

ABAInv == TypeOK /\ CountsClaims /\ CoinDecided

\* The outcome of ABARounds, as the variables of ABA determine it.
Outcome == [i \in Correct |-> IF phase[i] \in {"coin", "done"}
                                THEN DecidedValues(bin[i], conf[i]) ELSE {}]

-----------------------------------------------------------------------------
\* Sizes of the committee.
LEMMA CommitteeFacts ==
    /\ IsFiniteSet(Node) /\ Faulty \subseteq Node /\ F \in Nat /\ N \in Nat
    /\ Quorum \in Int /\ Quorum > 0 /\ MaxRound \in Nat
    /\ Correct \subseteq Node /\ Correct \cap Faulty = {} /\ Node = Correct \cup Faulty
<1>1. IsFiniteSet(Node) /\ Faulty \subseteq Node /\ F \in Nat /\ Cardinality(Node) >= 3 * F + 1
  BY ABAAssumption
<1>2. N \in Nat
  BY <1>1, FS_CardinalityType DEF N
<1>3. Quorum \in Int /\ Quorum > 0
  BY <1>1, <1>2 DEF N, Quorum
<1> QED
  BY <1>1, <1>2, <1>3, ABAAssumption DEF Correct

\* A set of nodes that contains a large set is large.
LEMMA LargerCount ==
    ASSUME NEW S, NEW T, S \subseteq T, T \subseteq Node, NEW k \in Int, Cardinality(S) >= k
    PROVE  Cardinality(T) >= k
<1>1. IsFiniteSet(T)
  BY CommitteeFacts, SubsetCount
<1>2. Cardinality(S) <= Cardinality(T) /\ Cardinality(S) \in Nat /\ Cardinality(T) \in Nat
  BY <1>1, SubsetCount
<1> QED
  BY <1>2

\* The values of the AUX exchange are in bin, and a quorum stands behind them.
LEMMA AuxValuesFacts ==
    ASSUME NEW b \in SUBSET Bit, NEW a \in [Bit -> SUBSET Node], AuxValues(b, a) # {}
    PROVE  /\ AuxValues(b, a) \in ValueSets /\ AuxValues(b, a) \subseteq b
           /\ Cardinality(UNION {a[v] : v \in AuxValues(b, a)}) >= Quorum
<1>1. CASE 1 \in b /\ Cardinality(a[1]) >= Quorum
  <2>1. AuxValues(b, a) = {1}
    BY <1>1 DEF AuxValues
  <2>2. UNION {a[v] : v \in {1}} = a[1]
    OBVIOUS
  <2> QED
    BY <1>1, <2>1, <2>2 DEF ValueSets, Bit
<1>2. CASE /\ ~(1 \in b /\ Cardinality(a[1]) >= Quorum)
           /\ 0 \in b /\ Cardinality(a[0]) >= Quorum
  <2>1. AuxValues(b, a) = {0}
    BY <1>2 DEF AuxValues
  <2>2. UNION {a[v] : v \in {0}} = a[0]
    OBVIOUS
  <2> QED
    BY <1>2, <2>1, <2>2 DEF ValueSets, Bit
<1>3. CASE /\ ~(1 \in b /\ Cardinality(a[1]) >= Quorum)
           /\ ~(0 \in b /\ Cardinality(a[0]) >= Quorum)
  <2>1. AuxValues(b, a) = b /\ Cardinality(UNION {a[v] : v \in b}) >= Quorum
    BY <1>3 DEF AuxValues
  <2> QED
    BY <2>1 DEF ValueSets
<1> QED
  BY <1>1, <1>2, <1>3

\* So are the values of the CONF exchange; both values take both in bin, because
\* one alone has no quorum.
LEMMA DecidedValuesFacts ==
    ASSUME NEW b \in SUBSET Bit, NEW c \in [ValueSets -> SUBSET Node],
           DecidedValues(b, c) # {}
    PROVE  /\ DecidedValues(b, c) \in ValueSets /\ DecidedValues(b, c) \subseteq b
           /\ Cardinality(UNION {c[k] : k \in (SUBSET DecidedValues(b, c)) \ {{}}}) >= Quorum
<1> DEFINE U == UNION {c[k] : k \in {k \in ValueSets : k \subseteq b}}
<1>1. CASE 1 \in b /\ Cardinality(c[{1}]) >= Quorum
  <2>1. DecidedValues(b, c) = {1}
    BY <1>1 DEF DecidedValues
  <2>2. (SUBSET {1}) \ {{}} = {{1}}
    OBVIOUS
  <2>3. UNION {c[k] : k \in {{1}}} = c[{1}]
    OBVIOUS
  <2> QED
    BY <1>1, <2>1, <2>2, <2>3 DEF ValueSets, Bit
<1>2. CASE /\ ~(1 \in b /\ Cardinality(c[{1}]) >= Quorum)
           /\ 0 \in b /\ Cardinality(c[{0}]) >= Quorum
  <2>1. DecidedValues(b, c) = {0}
    BY <1>2 DEF DecidedValues
  <2>2. (SUBSET {0}) \ {{}} = {{0}}
    OBVIOUS
  <2>3. UNION {c[k] : k \in {{0}}} = c[{0}]
    OBVIOUS
  <2> QED
    BY <1>2, <2>1, <2>2, <2>3 DEF ValueSets, Bit
<1>3. CASE /\ ~(1 \in b /\ Cardinality(c[{1}]) >= Quorum)
           /\ ~(0 \in b /\ Cardinality(c[{0}]) >= Quorum)
  <2>1. DecidedValues(b, c) = Bit /\ Cardinality(U) >= Quorum
    BY <1>3 DEF DecidedValues
  <2>2. b # {}
    <3> SUFFICES ASSUME b = {} PROVE FALSE
      OBVIOUS
    <3>1. U = {}
      BY DEF ValueSets
    <3>2. Cardinality(U) = 0
      BY <3>1, FS_EmptySet
    <3> QED
      BY <2>1, <3>2, CommitteeFacts
  <2>3. b # {1}
    <3> SUFFICES ASSUME b = {1} PROVE FALSE
      OBVIOUS
    <3>1. {k \in ValueSets : k \subseteq b} = {{1}}
      BY DEF ValueSets, Bit
    <3>2. UNION {c[k] : k \in {{1}}} = c[{1}]
      OBVIOUS
    <3>3. U = c[{1}]
      BY <3>1, <3>2
    <3> QED
      BY <1>3, <2>1, <3>3
  <2>4. b # {0}
    <3> SUFFICES ASSUME b = {0} PROVE FALSE
      OBVIOUS
    <3>1. {k \in ValueSets : k \subseteq b} = {{0}}
      BY DEF ValueSets, Bit
    <3>2. UNION {c[k] : k \in {{0}}} = c[{0}]
      OBVIOUS
    <3>3. U = c[{0}]
      BY <3>1, <3>2
    <3> QED
      BY <1>3, <2>1, <3>3
  <2>5. b = Bit
    BY <2>2, <2>3, <2>4 DEF Bit
  <2>6. {k \in ValueSets : k \subseteq b} = (SUBSET Bit) \ {{}}
    BY <2>5 DEF ValueSets
  <2> QED
    BY <2>1, <2>5, <2>6 DEF ValueSets, Bit
<1> QED
  BY <1>1, <1>2, <1>3

-----------------------------------------------------------------------------
\* Claims stand: messages are never taken back.
LEMMA ClaimsStay ==
    ASSUME NEW S, NEW T, S \subseteq T, NEW r, NEW p, NEW vs
    PROVE  Claim(S, r, p, vs) \subseteq Claim(T, r, p, vs)
BY DEF Claim

\* Whoever a readable message comes from claims it.
LEMMA ReadableClaims ==
    ASSUME TypeOK, NEW i \in Correct, NEW m \in Readable(i)
    PROVE  /\ m.from \in Node /\ m.from \in Claim(sent, round[i], m.phase, m.vals)
           /\ m.vals \in ValueSets
<1>1. CASE m \in sent /\ m.round = round[i]
  <2>1. m \in [from : Node, round : Round, phase : {"EST", "AUX", "CONF"}, vals : ValueSets]
    BY <1>1 DEF TypeOK, Messages
  <2>2. m = [from |-> m.from, round |-> round[i], phase |-> m.phase, vals |-> m.vals]
    BY <1>1, <2>1
  <2> QED
    BY <1>1, <2>1, <2>2, CommitteeFacts DEF Claim, Message
<1>2. ASSUME NEW j \in Faulty, NEW b \in Forged, m = Message(j, round[i], b.phase, b.vals)
      PROVE  /\ m.from \in Node /\ m.from \in Claim(sent, round[i], m.phase, m.vals)
             /\ m.vals \in ValueSets
  BY <1>2, ABAAssumption, CommitteeFacts DEF Claim, Message, ValueSets, Bit
<1> QED
  BY <1>1, <1>2 DEF Readable

\* A loop that waits is in the first three phases.
LEMMA WaitingPhase ==
    ASSUME NEW i \in Correct, Waiting(i) PROVE phase[i] \in {"est", "aux", "conf"}
BY DEF Waiting

\* Other nodes do not count anew; what they count stays claimed.
LEMMA OthersCount ==
    ASSUME ABAInv, NEW i \in Correct, sent \subseteq sent',
           \A j \in Correct \ {i} : /\ round'[j] = round[j] /\ est'[j] = est[j]
                                    /\ aux'[j] = aux[j] /\ conf'[j] = conf[j],
           \A v \in Bit : /\ est'[i][v] \subseteq Claim(sent', round'[i], "EST", {v})
                          /\ aux'[i][v] \subseteq Claim(sent', round'[i], "AUX", {v}),
           \A k \in ValueSets : conf'[i][k] \subseteq Claim(sent', round'[i], "CONF", k)
    PROVE  CountsClaims'
<1>1. ASSUME NEW j \in Correct \ {i}
      PROVE  /\ \A v \in Bit : /\ est'[j][v] \subseteq Claim(sent', round'[j], "EST", {v})
                               /\ aux'[j][v] \subseteq Claim(sent', round'[j], "AUX", {v})
             /\ \A k \in ValueSets : conf'[j][k] \subseteq Claim(sent', round'[j], "CONF", k)
  <2>1. /\ \A v \in Bit : /\ est[j][v] \subseteq Claim(sent, round[j], "EST", {v})
                          /\ aux[j][v] \subseteq Claim(sent, round[j], "AUX", {v})
        /\ \A k \in ValueSets : conf[j][k] \subseteq Claim(sent, round[j], "CONF", k)
    BY DEF ABAInv, CountsClaims
  <2>2. /\ \A v \in Bit : /\ est[j][v] \subseteq Claim(sent', round[j], "EST", {v})
                          /\ aux[j][v] \subseteq Claim(sent', round[j], "AUX", {v})
        /\ \A k \in ValueSets : conf[j][k] \subseteq Claim(sent', round[j], "CONF", k)
    BY <2>1 DEF Claim
  <2> QED
    BY <2>2
<1> QED
  BY <1>1 DEF CountsClaims

-----------------------------------------------------------------------------
(* The three kinds of message a waiting node accepts. *)

\* The body of AcceptEST: who is counted then, and what is echoed.
EstAccepted(i, j, v, echo) ==
    LET all == IF echo THEN est[i][v] \cup {j, i} ELSE est[i][v] \cup {j}
    IN  /\ echo => Cardinality(est[i][v] \cup {j}) >= F + 1
        /\ est' = [est EXCEPT ![i][v] = all]
        /\ sent' = IF echo THEN sent \cup {Message(i, round[i], "EST", {v})} ELSE sent
        /\ bin' = IF Cardinality(all) >= 2 * F + 1
                    THEN [bin EXCEPT ![i] = @ \cup {v}] ELSE bin
        /\ UNCHANGED <<aux, conf, confRead>>

\* An accepted EST comes from a node that claims it.
LEMMA AcceptESTFacts ==
    ASSUME ABAInv, NEW i \in Correct, NEW m \in Readable(i), AcceptEST(i, m)
    PROVE  \E v \in Bit : \E j \in Claim(sent, round[i], "EST", {v}) :
              \E echo \in BOOLEAN : EstAccepted(i, j, v, echo)
<1> PICK v \in Bit :
      LET senders == est[i][v] \cup {m.from}
          echo == Cardinality(senders) >= F + 1 /\ i \notin est[i][v]
          all == IF echo THEN senders \cup {i} ELSE senders
      IN  /\ m.phase = "EST" /\ m.vals = {v}
          /\ est' = [est EXCEPT ![i][v] = all]
          /\ sent' = IF echo THEN sent \cup {Message(i, round[i], "EST", {v})} ELSE sent
          /\ bin' = IF Cardinality(all) >= 2 * F + 1
                      THEN [bin EXCEPT ![i] = @ \cup {v}] ELSE bin
          /\ UNCHANGED <<aux, conf, confRead>>
  BY DEF AcceptEST
<1> DEFINE echo == Cardinality(est[i][v] \cup {m.from}) >= F + 1 /\ i \notin est[i][v]
<1>1. m.from \in Claim(sent, round[i], "EST", {v})
  BY ReadableClaims DEF ABAInv
<1>2. (est[i][v] \cup {m.from}) \cup {i} = est[i][v] \cup {m.from, i}
  OBVIOUS
<1>3. echo \in BOOLEAN
  OBVIOUS
<1>4. EstAccepted(i, m.from, v, echo)
  BY <1>2 DEF EstAccepted
<1> QED
  BY <1>1, <1>3, <1>4

\* The echo and the additions to bin of an accepted EST.
LEMMA EstAcceptedInv ==
    ASSUME ABAInv, NEW i \in Correct, NEW v \in Bit, NEW echo \in BOOLEAN,
           NEW j \in Claim(sent, round[i], "EST", {v}), EstAccepted(i, j, v, echo),
           phase[i] \in {"est", "aux", "conf"}, UNCHANGED <<input, nodeVars, coin>>
    PROVE  ABAInv' /\ sent \subseteq sent'
<1>0. TypeOK /\ j \in Node /\ i \in Node
  BY CommitteeFacts DEF ABAInv, Claim
<1>1. sent \subseteq sent' /\ sent' \subseteq Messages
  <2>1. Message(i, round[i], "EST", {v}) \in Messages
    <3>1. {v} \in ValueSets /\ round[i] \in Round
      BY <1>0 DEF ValueSets, TypeOK
    <3> QED
      BY <1>0, <3>1 DEF Message, Messages
  <2> QED
    BY <1>0, <2>1 DEF EstAccepted, TypeOK
<1>2. est' \in [Correct -> [Bit -> SUBSET Node]]
  <2>1. ASSUME NEW X \in SUBSET Node
        PROVE  [est EXCEPT ![i][v] = X] \in [Correct -> [Bit -> SUBSET Node]]
    BY <1>0 DEF TypeOK
  <2>2. est[i][v] \cup {j, i} \in SUBSET Node /\ est[i][v] \cup {j} \in SUBSET Node
    BY <1>0 DEF TypeOK
  <2> QED
    BY <2>1, <2>2 DEF EstAccepted
<1>3. bin' \in [Correct -> SUBSET Bit]
  BY <1>0 DEF EstAccepted, TypeOK
<1>4. TypeOK'
  BY <1>0, <1>1, <1>2, <1>3 DEF EstAccepted, TypeOK, nodeVars
<1>5. CountsClaims'
  <2>1. \A k \in Correct \ {i} : /\ round'[k] = round[k] /\ est'[k] = est[k]
                                 /\ aux'[k] = aux[k] /\ conf'[k] = conf[k]
    BY <1>0 DEF EstAccepted, TypeOK, nodeVars
  <2>2. /\ \A w \in Bit : /\ est[i][w] \subseteq Claim(sent', round'[i], "EST", {w})
                          /\ aux'[i][w] \subseteq Claim(sent', round'[i], "AUX", {w})
        /\ \A k \in ValueSets : conf'[i][k] \subseteq Claim(sent', round'[i], "CONF", k)
    BY <1>1 DEF ABAInv, CountsClaims, Claim, EstAccepted, nodeVars
  <2>3. j \in Claim(sent', round'[i], "EST", {v})
    BY <1>1 DEF Claim, nodeVars
  <2>4. echo => i \in Claim(sent', round'[i], "EST", {v})
    BY DEF Claim, nodeVars, EstAccepted
  <2>5. /\ \A w \in Bit \ {v} : est'[i][w] = est[i][w]
        /\ est'[i][v] \subseteq est[i][v] \cup {j} \cup (IF echo THEN {i} ELSE {})
    BY <1>0 DEF EstAccepted, TypeOK
  <2>6. \A w \in Bit : est'[i][w] \subseteq Claim(sent', round'[i], "EST", {w})
    BY <2>2, <2>3, <2>4, <2>5
  <2> QED
    BY <1>1, <2>1, <2>2, <2>6, OthersCount
<1>6. CoinDecided'
  BY <1>0 DEF ABAInv, CoinDecided, EstAccepted, TypeOK, nodeVars
<1> QED
  BY <1>1, <1>4, <1>5, <1>6 DEF ABAInv

\* AUX and CONF messages are counted, and nothing else changes.
LEMMA AcceptOtherInv ==
    ASSUME ABAInv, NEW i \in Correct, NEW m \in Readable(i),
           AcceptAUX(i, m) \/ AcceptCONF(i, m),
           phase[i] \in {"est", "aux", "conf"}, UNCHANGED <<input, nodeVars, coin>>
    PROVE  ABAInv'
<1>0. TypeOK
  BY DEF ABAInv
<1>1. /\ m.from \in Node /\ m.from \in Claim(sent, round[i], m.phase, m.vals)
      /\ m.vals \in ValueSets
  BY <1>0, ReadableClaims
<1>2. sent' = sent /\ \A k \in Correct \ {i} : /\ round'[k] = round[k] /\ est'[k] = est[k]
                                             /\ aux'[k] = aux[k] /\ conf'[k] = conf[k]
  BY <1>0 DEF AcceptAUX, AcceptCONF, TypeOK, nodeVars
<1>3. CASE AcceptAUX(i, m)
  <2> PICK v \in Bit : /\ m.phase = "AUX" /\ m.vals = {v}
                       /\ aux' = [aux EXCEPT ![i][v] = @ \cup {m.from}]
                       /\ UNCHANGED <<est, bin, conf, confRead, sent>>
    BY <1>3 DEF AcceptAUX
  <2>1. aux' \in [Correct -> [Bit -> SUBSET Node]]
    <3>1. ASSUME NEW X \in SUBSET Node
          PROVE  [aux EXCEPT ![i][v] = X] \in [Correct -> [Bit -> SUBSET Node]]
      BY <1>0 DEF TypeOK
    <3>2. aux[i][v] \cup {m.from} \in SUBSET Node
      BY <1>0, <1>1 DEF TypeOK
    <3> QED
      BY <3>1, <3>2
  <2>2. TypeOK'
    BY <1>0, <2>1 DEF TypeOK, nodeVars
  <2>3. /\ \A w \in Bit \ {v} : aux'[i][w] = aux[i][w]
        /\ aux'[i][v] = aux[i][v] \cup {m.from}
    BY <1>0 DEF TypeOK
  <2>4. \A w \in Bit : aux'[i][w] \subseteq Claim(sent', round'[i], "AUX", {w})
    BY <1>1, <1>2, <2>3 DEF ABAInv, CountsClaims, nodeVars
  <2>5. CountsClaims'
    <3>1. /\ \A w \in Bit : est'[i][w] \subseteq Claim(sent', round'[i], "EST", {w})
          /\ \A k \in ValueSets : conf'[i][k] \subseteq Claim(sent', round'[i], "CONF", k)
      BY <1>2 DEF ABAInv, CountsClaims, nodeVars
    <3> QED
      BY <1>2, <2>4, <3>1, OthersCount
  <2>6. CoinDecided'
    BY DEF ABAInv, CoinDecided, nodeVars
  <2> QED
    BY <2>2, <2>5, <2>6 DEF ABAInv
<1>4. CASE AcceptCONF(i, m)
  <2>1. conf' = [conf EXCEPT ![i][m.vals] = @ \cup {m.from}] /\ m.phase = "CONF"
        /\ UNCHANGED <<est, bin, aux, sent>>
    BY <1>4 DEF AcceptCONF
  <2>2. conf' \in [Correct -> [ValueSets -> SUBSET Node]]
    <3>1. ASSUME NEW X \in SUBSET Node
          PROVE  [conf EXCEPT ![i][m.vals] = X] \in [Correct -> [ValueSets -> SUBSET Node]]
      BY <1>0, <1>1 DEF TypeOK
    <3>2. conf[i][m.vals] \cup {m.from} \in SUBSET Node
      BY <1>0, <1>1 DEF TypeOK
    <3> QED
      BY <2>1, <3>1, <3>2
  <2>3. confRead' \in [Correct -> SUBSET Correct]
    BY <1>0, <1>1, <1>4, CommitteeFacts DEF AcceptCONF, TypeOK
  <2>4. TypeOK'
    BY <1>0, <2>1, <2>2, <2>3 DEF TypeOK, nodeVars
  <2>5. /\ \A k \in ValueSets \ {m.vals} : conf'[i][k] = conf[i][k]
        /\ conf'[i][m.vals] = conf[i][m.vals] \cup {m.from}
    BY <1>0, <1>1, <2>1 DEF TypeOK
  <2>6. \A k \in ValueSets : conf'[i][k] \subseteq Claim(sent', round'[i], "CONF", k)
    BY <1>1, <1>2, <2>1, <2>5 DEF ABAInv, CountsClaims, nodeVars
  <2>7. CountsClaims'
    <3>1. \A w \in Bit : /\ est'[i][w] \subseteq Claim(sent', round'[i], "EST", {w})
                         /\ aux'[i][w] \subseteq Claim(sent', round'[i], "AUX", {w})
      BY <1>2, <2>1 DEF ABAInv, CountsClaims, nodeVars
    <3> QED
      BY <1>2, <2>6, <3>1, OthersCount
  <2>8. CoinDecided'
    BY <1>0, <2>1 DEF ABAInv, CoinDecided, TypeOK, nodeVars
  <2> QED
    BY <2>4, <2>7, <2>8 DEF ABAInv
<1> QED
  BY <1>3, <1>4

-----------------------------------------------------------------------------
(* The steps that end a wait loop, and the coin. *)

\* A message of a correct node is well-formed.
LEMMA MessageType ==
    ASSUME NEW i \in Correct, NEW r \in Round, NEW p \in {"EST", "AUX", "CONF"},
           NEW vs \in ValueSets
    PROVE  Message(i, r, p, vs) \in Messages /\ i \in Claim({Message(i, r, p, vs)}, r, p, vs)
BY CommitteeFacts DEF Message, Messages, Claim

\* The node counts itself among those that sent AUX.
LEMMA SendAUXInv ==
    ASSUME ABAInv, NEW i \in Correct, SendAUX(i)
    PROVE  ABAInv'
<1> DEFINE v == IF 0 \in bin[i] THEN 0 ELSE 1
           m == Message(i, round[i], "AUX", {v})
<1>0. TypeOK /\ v \in Bit /\ i \in Node /\ round[i] \in Round
  BY CommitteeFacts DEF ABAInv, Bit, TypeOK
<1>1. /\ aux' = [aux EXCEPT ![i][v] = @ \cup {i}]
      /\ sent' = sent \cup {m}
      /\ phase' = [phase EXCEPT ![i] = "aux"]
      /\ UNCHANGED <<input, round, estimate, decision, output, est, bin, conf, confRead, coin>>
  BY DEF SendAUX
<1>2. m \in Messages /\ i \in Claim({m}, round[i], "AUX", {v})
  <2>1. {v} \in ValueSets
    BY <1>0 DEF ValueSets
  <2> QED
    BY <1>0, <2>1, MessageType
<1> HIDE DEF v, m
<1>3. aux' \in [Correct -> [Bit -> SUBSET Node]]
  <2>1. ASSUME NEW X \in SUBSET Node
        PROVE  [aux EXCEPT ![i][v] = X] \in [Correct -> [Bit -> SUBSET Node]]
    BY <1>0 DEF TypeOK
  <2>2. aux[i][v] \cup {i} \in SUBSET Node
    BY <1>0 DEF TypeOK
  <2> QED
    BY <1>1, <2>1, <2>2
<1>4. TypeOK'
  BY <1>0, <1>1, <1>2, <1>3 DEF TypeOK
<1>5. CountsClaims'
  <2>1. \A w \in Bit \ {v} : aux'[i][w] = aux[i][w]
    BY <1>0, <1>1 DEF TypeOK
  <2>2. aux'[i][v] = aux[i][v] \cup {i}
    BY <1>0, <1>1 DEF TypeOK
  <2>3. /\ \A w \in Bit : /\ est'[i][w] \subseteq Claim(sent', round'[i], "EST", {w})
                          /\ aux[i][w] \subseteq Claim(sent', round'[i], "AUX", {w})
        /\ \A k \in ValueSets : conf'[i][k] \subseteq Claim(sent', round'[i], "CONF", k)
    BY <1>1 DEF ABAInv, CountsClaims, Claim
  <2>4. i \in Claim(sent', round'[i], "AUX", {v})
    BY <1>1, <1>2 DEF Claim
  <2>5. \A w \in Bit : aux'[i][w] \subseteq Claim(sent', round'[i], "AUX", {w})
    BY <2>1, <2>2, <2>3, <2>4
  <2>6. sent \subseteq sent'
        /\ \A j \in Correct \ {i} : /\ round'[j] = round[j] /\ est'[j] = est[j]
                                    /\ aux'[j] = aux[j] /\ conf'[j] = conf[j]
    BY <1>0, <1>1 DEF TypeOK
  <2> QED
    BY <2>3, <2>5, <2>6, OthersCount
<1>6. CoinDecided'
  BY <1>0, <1>1 DEF ABAInv, CoinDecided, TypeOK
<1> QED
  BY <1>4, <1>5, <1>6 DEF ABAInv

\* The node starts its count of CONFs for its values afresh, with itself.
LEMMA SendCONFInv ==
    ASSUME ABAInv, NEW i \in Correct, SendCONF(i)
    PROVE  ABAInv'
<1> DEFINE vs == AuxValues(bin[i], aux[i])
           m == Message(i, round[i], "CONF", vs)
<1>0. TypeOK /\ i \in Node /\ round[i] \in Round /\ vs \in ValueSets
  <2>1. bin[i] \in SUBSET Bit /\ aux[i] \in [Bit -> SUBSET Node] /\ vs # {}
    BY DEF ABAInv, TypeOK, SendCONF
  <2>2. vs \in ValueSets
    BY <2>1, AuxValuesFacts
  <2> QED
    BY <2>2, CommitteeFacts DEF ABAInv, TypeOK
<1>1. /\ conf' = [conf EXCEPT ![i][vs] = {i}]
      /\ sent' = sent \cup {m}
      /\ phase' = [phase EXCEPT ![i] = "conf"]
      /\ UNCHANGED <<input, round, estimate, decision, output, est, bin, aux, confRead, coin>>
  BY DEF SendCONF
<1>2. m \in Messages /\ i \in Claim({m}, round[i], "CONF", vs)
  BY <1>0, MessageType
<1> HIDE DEF vs, m
<1>3. conf' \in [Correct -> [ValueSets -> SUBSET Node]]
  BY <1>0, <1>1 DEF TypeOK
<1>4. TypeOK'
  BY <1>0, <1>1, <1>2, <1>3 DEF TypeOK
<1>5. CountsClaims'
  <2>1. /\ \A k \in ValueSets \ {vs} : conf'[i][k] = conf[i][k]
        /\ conf'[i][vs] = {i}
    BY <1>0, <1>1 DEF TypeOK
  <2>2. /\ \A w \in Bit : /\ est'[i][w] \subseteq Claim(sent', round'[i], "EST", {w})
                          /\ aux'[i][w] \subseteq Claim(sent', round'[i], "AUX", {w})
        /\ \A k \in ValueSets : conf[i][k] \subseteq Claim(sent', round'[i], "CONF", k)
    BY <1>1 DEF ABAInv, CountsClaims, Claim
  <2>3. i \in Claim(sent', round'[i], "CONF", vs)
    BY <1>1, <1>2 DEF Claim
  <2>4. \A k \in ValueSets : conf'[i][k] \subseteq Claim(sent', round'[i], "CONF", k)
    BY <2>1, <2>2, <2>3
  <2>5. sent \subseteq sent'
        /\ \A j \in Correct \ {i} : /\ round'[j] = round[j] /\ est'[j] = est[j]
                                    /\ aux'[j] = aux[j] /\ conf'[j] = conf[j]
    BY <1>0, <1>1 DEF TypeOK
  <2> QED
    BY <2>2, <2>4, <2>5, OthersCount
<1>6. CoinDecided'
  BY <1>0, <1>1 DEF ABAInv, CoinDecided, TypeOK
<1> QED
  BY <1>4, <1>5, <1>6 DEF ABAInv

\* Steps that leave round, counters and messages alone.
LEMMA CountersStay ==
    ASSUME ABAInv, UNCHANGED <<round, roundVars, sent>>
    PROVE  CountsClaims'
BY DEF ABAInv, CountsClaims, roundVars

\* The coin is asked for when the CONF exchange is over, and nothing is counted
\* after that.
LEMMA CoinStepsInv ==
    ASSUME ABAInv, NEW i \in Correct, FinishCONF(i) \/ Return(i)
    PROVE  ABAInv'
<1>0. TypeOK
  BY DEF ABAInv
<1>1. CountsClaims'
  BY CountersStay DEF FinishCONF, Return
<1>2. TypeOK'
  <2>1. CASE FinishCONF(i)
    BY <1>0, <2>1 DEF TypeOK, FinishCONF, roundVars
  <2>2. CASE Return(i)
    BY <1>0, <2>2 DEF TypeOK, Return, roundVars
  <2> QED
    BY <2>1, <2>2
<1>3. CoinDecided'
  BY <1>0 DEF ABAInv, CoinDecided, TypeOK, FinishCONF, Return, roundVars
<1> QED
  BY <1>1, <1>2, <1>3 DEF ABAInv

\* The coin is fixed once.
LEMMA TossCoinInv ==
    ASSUME ABAInv, NEW r \in Round, TossCoin(r)
    PROVE  ABAInv'
<1>0. TypeOK
  BY DEF ABAInv
<1>1. CountsClaims'
  BY CountersStay DEF TossCoin, nodeVars
<1>2. TypeOK'
  BY <1>0 DEF TypeOK, TossCoin, roundVars, nodeVars
<1>3. CoinDecided'
  BY <1>0 DEF ABAInv, CoinDecided, TypeOK, TossCoin, roundVars, nodeVars
<1> QED
  BY <1>1, <1>2, <1>3 DEF ABAInv

\* The value a node takes to the next round: the coin when both are confirmed.
NextEstimate(i) ==
    LET vs == DecidedValues(bin[i], conf[i])
    IN  IF vs = Bit THEN coin[round[i]] ELSE CHOOSE v \in vs : TRUE

\* It is one of the confirmed values.
LEMMA NextEstimateFacts ==
    ASSUME ABAInv, NEW i \in Correct, phase[i] = "coin", coin[round[i]] # NoBit
    PROVE  /\ NextEstimate(i) \in DecidedValues(bin[i], conf[i])
           /\ NextEstimate(i) \in Bit
           /\ DecidedValues(bin[i], conf[i]) = Bit => NextEstimate(i) = coin[round[i]]
<1> DEFINE vs == DecidedValues(bin[i], conf[i])
<1>1. vs # {} /\ coin[round[i]] \in Bit
  BY DEF ABAInv, CoinDecided, TypeOK
<1>2. vs \in ValueSets
  BY <1>1, DecidedValuesFacts DEF ABAInv, TypeOK
<1> HIDE DEF vs
<1>3. (CHOOSE v \in vs : TRUE) \in vs
  <2>1. \E v \in vs : TRUE
    BY <1>1, <1>2
  <2> QED
    BY <2>1
<1>4. NextEstimate(i) = IF vs = Bit THEN coin[round[i]] ELSE CHOOSE v \in vs : TRUE
  BY DEF NextEstimate, vs
<1>5. NextEstimate(i) \in vs /\ (vs = Bit => NextEstimate(i) = coin[round[i]])
  BY <1>1, <1>3, <1>4
<1> QED
  BY <1>2, <1>5 DEF vs, ValueSets

\* The next round begins with empty counters and the node's own EST.
LEMMA NextRoundInv ==
    ASSUME ABAInv, NEW i \in Correct, NextRound(i)
    PROVE  ABAInv'
<1> DEFINE e == NextEstimate(i)
           r == round[i] + 1
           m == Message(i, r, "EST", {e})
<1>0. TypeOK /\ i \in Node /\ e \in Bit /\ r \in Round /\ coin[round[i]] \in Bit
  BY CommitteeFacts, NextEstimateFacts DEF ABAInv, TypeOK, NextRound
<1>1. /\ decision' = [decision EXCEPT ![i] = IF Matched(i) THEN coin[round[i]] ELSE @]
      /\ estimate' = [estimate EXCEPT ![i] = e]
      /\ round' = [round EXCEPT ![i] = r]
      /\ phase' = [phase EXCEPT ![i] = "est"]
      /\ est' = [est EXCEPT ![i] = [v \in Bit |-> IF v = e THEN {i} ELSE {}]]
      /\ bin' = [bin EXCEPT ![i] = {}]
      /\ aux' = [aux EXCEPT ![i] = [v \in Bit |-> {}]]
      /\ conf' = [conf EXCEPT ![i] = [k \in ValueSets |-> {}]]
      /\ confRead' = [confRead EXCEPT ![i] = {}]
      /\ sent' = sent \cup {m}
      /\ UNCHANGED <<input, output, coin>>
  BY DEF NextRound, NextEstimate
<1>2. m \in Messages /\ i \in Claim({m}, r, "EST", {e})
  <2>1. {e} \in ValueSets
    BY <1>0 DEF ValueSets
  <2> QED
    BY <1>0, <2>1, MessageType
<1> HIDE DEF e, r, m
<1>3. TypeOK'
  <2>1. [v \in Bit |-> IF v = e THEN {i} ELSE {}] \in [Bit -> SUBSET Node]
    BY <1>0
  <2>2. est' \in [Correct -> [Bit -> SUBSET Node]]
    BY <1>0, <1>1, <2>1 DEF TypeOK
  <2>3. aux' \in [Correct -> [Bit -> SUBSET Node]]
    BY <1>0, <1>1 DEF TypeOK
  <2>4. conf' \in [Correct -> [ValueSets -> SUBSET Node]]
    BY <1>0, <1>1 DEF TypeOK
  <2>5. decision' \in [Correct -> Bit \cup {NoBit}]
    BY <1>0, <1>1 DEF TypeOK
  <2> QED
    BY <1>0, <1>1, <1>2, <2>2, <2>3, <2>4, <2>5 DEF TypeOK
<1>4. CountsClaims'
  <2>1. /\ \A w \in Bit : /\ est'[i][w] = IF w = e THEN {i} ELSE {}
                          /\ aux'[i][w] = {}
        /\ \A k \in ValueSets : conf'[i][k] = {}
        /\ round'[i] = r
    BY <1>0, <1>1 DEF TypeOK
  <2>2. i \in Claim(sent', r, "EST", {e})
    BY <1>1, <1>2 DEF Claim
  <2>3. sent \subseteq sent'
        /\ \A j \in Correct \ {i} : /\ round'[j] = round[j] /\ est'[j] = est[j]
                                    /\ aux'[j] = aux[j] /\ conf'[j] = conf[j]
    BY <1>0, <1>1 DEF TypeOK
  <2>4. \A w \in Bit : /\ est'[i][w] \subseteq Claim(sent', round'[i], "EST", {w})
                       /\ aux'[i][w] \subseteq Claim(sent', round'[i], "AUX", {w})
    BY <2>1, <2>2
  <2>5. \A k \in ValueSets : conf'[i][k] \subseteq Claim(sent', round'[i], "CONF", k)
    BY <2>1
  <2> QED
    BY <2>3, <2>4, <2>5, OthersCount
<1>5. CoinDecided'
  BY <1>0, <1>1 DEF ABAInv, CoinDecided, TypeOK
<1> QED
  BY <1>3, <1>4, <1>5 DEF ABAInv

-----------------------------------------------------------------------------
\* One message is read: where it leads.
LEMMA ReceiveInv ==
    ASSUME ABAInv, NEW i \in Correct, Receive(i)
    PROVE  ABAInv' /\ sent \subseteq sent'
<1> PICK m \in Readable(i) : AcceptEST(i, m) \/ AcceptAUX(i, m) \/ AcceptCONF(i, m)
  BY DEF Receive
<1>1. phase[i] \in {"est", "aux", "conf"} /\ UNCHANGED <<input, nodeVars, coin>>
  BY WaitingPhase DEF Receive
<1>2. CASE AcceptEST(i, m)
  <2>1. PICK v \in Bit : \E j \in Claim(sent, round[i], "EST", {v}) :
                            \E echo \in BOOLEAN : EstAccepted(i, j, v, echo)
    BY <1>2, AcceptESTFacts
  <2> QED
    BY <1>1, <2>1, EstAcceptedInv
<1>3. CASE AcceptAUX(i, m) \/ AcceptCONF(i, m)
  BY <1>1, <1>3, AcceptOtherInv DEF AcceptAUX, AcceptCONF
<1> QED
  BY <1>2, <1>3

\* A node begins with its own EST.
LEMMA ABAInitInv == Init => ABAInv
<1> SUFFICES ASSUME Init PROVE ABAInv
  OBVIOUS
<1>1. \A i \in Correct : /\ input[i] \in Bit /\ {input[i]} \in ValueSets
                         /\ Message(i, 0, "EST", {input[i]}) \in Messages
  <2> TAKE i \in Correct
  <2>1. input[i] \in Bit /\ {input[i]} \in ValueSets /\ 0 \in Round
    BY CommitteeFacts DEF Init, ValueSets, Round
  <2> QED
    BY <2>1, MessageType
<1>2. est \in [Correct -> [Bit -> SUBSET Node]]
  BY CommitteeFacts DEF Init
<1>3. TypeOK
  <2>1. 0 \in Round
    BY CommitteeFacts DEF Round
  <2>2. sent \subseteq Messages
    BY <1>1 DEF Init
  <2>3. conf \in [Correct -> [ValueSets -> SUBSET Node]]
    BY DEF Init
  <2>4. aux \in [Correct -> [Bit -> SUBSET Node]]
    BY DEF Init
  <2> QED
    BY <1>2, <2>1, <2>2, <2>3, <2>4 DEF Init, TypeOK
<1>4. CountsClaims
  <2> SUFFICES ASSUME NEW i \in Correct
               PROVE  \A v \in Bit : est[i][v] \subseteq Claim(sent, round[i], "EST", {v})
    BY DEF CountsClaims, Init
  <2> TAKE v \in Bit
  <2>1. est[i][v] = IF v = input[i] THEN {i} ELSE {}
    BY DEF Init
  <2>2. round[i] = 0 /\ Message(i, 0, "EST", {input[i]}) \in sent
    BY DEF Init
  <2> QED
    BY <2>1, <2>2 DEF Claim
<1>5. CoinDecided
  BY DEF Init, CoinDecided
<1> QED
  BY <1>3, <1>4, <1>5 DEF ABAInv

\* Every step keeps the invariant.
LEMMA ABAStepInv == ABAInv /\ [Next]_vars => ABAInv'
<1> SUFFICES ASSUME ABAInv, [Next]_vars PROVE ABAInv'
  OBVIOUS
<1>1. ASSUME NEW i \in Correct, Receive(i) PROVE ABAInv'
  BY <1>1, ReceiveInv
<1>2. ASSUME NEW i \in Correct, SendAUX(i) \/ SendCONF(i) PROVE ABAInv'
  BY <1>2, SendAUXInv, SendCONFInv
<1>3. ASSUME NEW i \in Correct, FinishCONF(i) \/ Return(i) PROVE ABAInv'
  BY <1>3, CoinStepsInv
<1>4. ASSUME NEW i \in Correct, NextRound(i) PROVE ABAInv'
  BY <1>4, NextRoundInv
<1>5. ASSUME NEW r \in Round, TossCoin(r) PROVE ABAInv'
  BY <1>5, TossCoinInv
<1>6. CASE UNCHANGED vars
  BY <1>6 DEF vars, nodeVars, roundVars, ABAInv, TypeOK, CountsClaims, CoinDecided
<1> QED
  BY <1>1, <1>2, <1>3, <1>4, <1>5, <1>6 DEF Next

\* The loop keeps its invariant.
LEMMA ABAInvCorrect == Spec => []ABAInv
<1> QED
  BY ABAInitInv, ABAStepInv, PTL DEF Spec

\* The variables of runABA stay in their ranges, whatever faulty nodes forge.
THEOREM TypeCorrect == Spec => []TypeOK
<1>1. ABAInv => TypeOK
  BY DEF ABAInv
<1> QED
  BY <1>1, ABAInvCorrect, PTL

-----------------------------------------------------------------------------
(* The refinement: one step of the abstract specification, or a stutter. *)

\* What both specifications call by the same names is the same.
LEMMA RoundsNames ==
    /\ Rounds!Correct = Correct /\ Rounds!Bit = Bit /\ Rounds!NoBit = NoBit
    /\ Rounds!ValueSets = ValueSets /\ Rounds!Round = Round
    /\ \A S : Rounds!Cardinality(S) = Cardinality(S)
    /\ \A i, r, p, vs : Rounds!Message(i, r, p, vs) = Message(i, r, p, vs)
    /\ \A S, r, p, vs : Rounds!Claims(S, r, p, vs) = Claim(S, r, p, vs)
    /\ Rounds!Quorum = Quorum
<1>1. \A S : Rounds!Cardinality(S) = Cardinality(S)
  BY DEF Rounds!Cardinality, Cardinality
<1>2. /\ Rounds!Correct = Correct /\ Rounds!Bit = Bit /\ Rounds!NoBit = NoBit
      /\ Rounds!ValueSets = ValueSets /\ Rounds!Round = Round
  BY DEF Rounds!Correct, Correct, Rounds!Bit, Bit, Rounds!NoBit, NoBit,
         Rounds!ValueSets, ValueSets, Rounds!Round, Round
<1>3. \A i, r, p, vs : Rounds!Message(i, r, p, vs) = Message(i, r, p, vs)
  BY DEF Rounds!Message, Message
<1>4. \A S, r, p, vs : Rounds!Claims(S, r, p, vs) = Claim(S, r, p, vs)
  BY <1>2, <1>3 DEF Rounds!Claims, Rounds!Senders, Claim
<1>5. Rounds!Quorum = Quorum
  BY <1>1 DEF Rounds!Quorum, Rounds!N, Quorum, N
<1> QED
  BY <1>1, <1>2, <1>3, <1>4, <1>5

\* The initial states are initial states of ABARounds.
LEMMA RefinesInit == Init => Rounds!Init
<1> SUFFICES ASSUME Init PROVE Rounds!Init
  OBVIOUS
<1>1. Outcome = [i \in Correct |-> {}]
  BY DEF Init, Outcome
<1> QED
  BY <1>1, RoundsNames DEF Init, Rounds!Init, Outcome

\* The outcome changes at one node at a time.
LEMMA OutcomeStep ==
    ASSUME NEW i \in Correct,
           \A j \in Correct \ {i} : /\ phase'[j] = phase[j]
                                    /\ bin'[j] = bin[j] /\ conf'[j] = conf[j]
    PROVE  Outcome' = [Outcome EXCEPT ![i] =
                         IF phase'[i] \in {"coin", "done"}
                           THEN DecidedValues(bin'[i], conf'[i]) ELSE {}]
<1> DEFINE New(j) == IF phase'[j] \in {"coin", "done"}
                       THEN DecidedValues(bin'[j], conf'[j]) ELSE {}
           Old(j) == IF phase[j] \in {"coin", "done"}
                       THEN DecidedValues(bin[j], conf[j]) ELSE {}
<1>1. \A j \in Correct \ {i} : New(j) = Old(j)
  OBVIOUS
<1>2. Outcome' = [j \in Correct |-> New(j)] /\ Outcome = [j \in Correct |-> Old(j)]
  BY DEF Outcome
<1> HIDE DEF New, Old
<1>3. Outcome' = [Outcome EXCEPT ![i] = New(i)]
  BY <1>1, <1>2
<1> QED
  BY <1>3 DEF New

\* A node that waits before and after has no outcome.
LEMMA OutcomeStays ==
    ASSUME NEW i \in Correct, phase[i] \notin {"coin", "done"},
           phase'[i] \notin {"coin", "done"},
           \A j \in Correct \ {i} : /\ phase'[j] = phase[j]
                                    /\ bin'[j] = bin[j] /\ conf'[j] = conf[j]
    PROVE  Outcome' = Outcome
<1>1. Outcome' = [Outcome EXCEPT ![i] = {}]
  BY OutcomeStep
<1>2. Outcome[i] = {}
  BY DEF Outcome
<1> QED
  BY <1>1, <1>2 DEF Outcome

\* A message read is absorbed, or changes nothing that ABARounds knows.
LEMMA ReceiveRefines ==
    ASSUME ABAInv, NEW i \in Correct, Receive(i)
    PROVE  Rounds!Absorb(i) \/ UNCHANGED Rounds!vars
<1> PICK m \in Readable(i) : AcceptEST(i, m) \/ AcceptAUX(i, m) \/ AcceptCONF(i, m)
  BY DEF Receive
<1>0. /\ phase[i] \in {"est", "aux", "conf"} /\ UNCHANGED <<input, nodeVars, coin>>
      /\ TypeOK /\ ABAInv' /\ sent \subseteq sent' /\ i \in Node
  BY WaitingPhase, ReceiveInv, CommitteeFacts DEF Receive, ABAInv
<1>1. CASE AcceptAUX(i, m) \/ AcceptCONF(i, m)
  <2>1. UNCHANGED <<bin, sent>>
    BY <1>1 DEF AcceptAUX, AcceptCONF
  <2>2. \A j \in Correct \ {i} : conf'[j] = conf[j]
    BY <1>0, <1>1 DEF AcceptAUX, AcceptCONF, TypeOK
  <2>3. Outcome' = Outcome
    BY <1>0, <2>1, <2>2, OutcomeStays DEF nodeVars
  <2> QED
    BY <1>0, <2>1, <2>3 DEF Rounds!vars, Outcome, nodeVars
<1>2. CASE AcceptEST(i, m)
  <2>1. PICK v \in Bit : \E j \in Claim(sent, round[i], "EST", {v}) :
                            \E echo \in BOOLEAN : EstAccepted(i, j, v, echo)
    BY <1>0, <1>2, AcceptESTFacts
  <2>2. PICK j \in Claim(sent, round[i], "EST", {v}) :
                            \E echo \in BOOLEAN : EstAccepted(i, j, v, echo)
    BY <2>1
  <2>3. PICK echo \in BOOLEAN : EstAccepted(i, j, v, echo)
    BY <2>2
  <2> DEFINE e == Message(i, round[i], "EST", {v})
             E == IF sent' # sent THEN {v} ELSE {}
             B == IF bin' # bin THEN {v} ELSE {}
  <2>4. Outcome' = Outcome
    <3>1. \A k \in Correct \ {i} : bin'[k] = bin[k] /\ conf'[k] = conf[k]
      BY <1>0, <2>3 DEF EstAccepted, TypeOK
    <3> QED
      BY <1>0, <3>1, OutcomeStays DEF nodeVars
  <2>5. ASSUME sent' # sent
        PROVE  /\ e \notin sent /\ sent' = sent \cup {e}
               /\ Cardinality(Claim(sent, round[i], "EST", {v})) >= F + 1
    <3>1. echo /\ sent' = sent \cup {e} /\ Cardinality(est[i][v] \cup {j}) >= F + 1
      BY <2>3, <2>5 DEF EstAccepted
    <3>2. est[i][v] \cup {j} \subseteq Claim(sent, round[i], "EST", {v})
      BY DEF ABAInv, CountsClaims
    <3>3. Claim(sent, round[i], "EST", {v}) \subseteq Node
      BY CommitteeFacts DEF Claim
    <3>4. Cardinality(Claim(sent, round[i], "EST", {v})) >= F + 1
      <4>1. F + 1 \in Int
        BY CommitteeFacts
      <4> QED
        BY <3>1, <3>2, <3>3, <4>1, LargerCount
    <3> QED
      BY <2>5, <3>1, <3>4
  <2>6. ASSUME bin' # bin
        PROVE  /\ v \notin bin[i] /\ bin' = [bin EXCEPT ![i] = @ \cup {v}]
               /\ Cardinality(Claim(sent', round[i], "EST", {v})) >= 2 * F + 1
    <3>1. /\ Cardinality(est'[i][v]) >= 2 * F + 1
          /\ bin' = [bin EXCEPT ![i] = @ \cup {v}]
      BY <1>0, <2>3, <2>6 DEF EstAccepted, TypeOK
    <3>2. est'[i][v] \subseteq Claim(sent', round[i], "EST", {v})
      BY <1>0 DEF ABAInv, CountsClaims, nodeVars
    <3>3. Claim(sent', round[i], "EST", {v}) \subseteq Node
      BY CommitteeFacts DEF Claim
    <3>4. Cardinality(Claim(sent', round[i], "EST", {v})) >= 2 * F + 1
      <4>1. 2 * F + 1 \in Int
        BY CommitteeFacts
      <4> QED
        BY ZenonT(40), <3>1, <3>2, <3>3, <4>1, LargerCount
    <3>5. v \notin bin[i]
      BY <1>0, <2>6, <3>1 DEF TypeOK
    <3> QED
      BY <3>1, <3>4, <3>5
  <2>7. CASE sent' = sent /\ bin' = bin
    BY <1>0, <2>4, <2>7 DEF Rounds!vars, Outcome, nodeVars
  <2>8. CASE ~(sent' = sent /\ bin' = bin)
    <3>3. E \cup B # {}
      BY <2>8
    <3>4. \A w \in E : Cardinality(Claim(sent, round[i], "EST", {w})) >= F + 1
      BY <2>5
    <3>5. \A w \in B : Cardinality(Claim(sent', round[i], "EST", {w})) >= 2 * F + 1
      BY <2>6
    <3>6. sent' = sent \cup {Message(i, round[i], "EST", {w}) : w \in E}
      BY <2>5
    <3>7. bin' = [bin EXCEPT ![i] = @ \cup B]
      BY <1>0, <2>6 DEF TypeOK
    <3>8. {Message(i, round[i], "EST", {w}) : w \in E} \cap sent = {} /\ B \cap bin[i] = {}
      BY <2>5, <2>6
    <3>9. E \in SUBSET Bit /\ B \in SUBSET Bit
      OBVIOUS
    <3> HIDE DEF E, B
    <3>10. Rounds!AbsorbValues(i, E, B)
      BY <1>0, <2>4, <3>3, <3>4, <3>5, <3>6, <3>7, <3>8, RoundsNames
      DEF Rounds!AbsorbValues, nodeVars, Outcome
    <3> QED
      BY <3>9, <3>10, RoundsNames DEF Rounds!Absorb
  <2> QED
    BY <2>7, <2>8
<1> QED
  BY <1>1, <1>2

\* AUX is broadcast in both; the counters are not part of ABARounds.
LEMMA SendAUXRefines ==
    ASSUME ABAInv, NEW i \in Correct, SendAUX(i) PROVE Rounds!SendAUX(i)
<1>1. TypeOK
  BY DEF ABAInv
<1>2. Outcome' = Outcome
  <2>1. phase[i] = "est" /\ phase'[i] = "aux"
        /\ \A j \in Correct \ {i} : /\ phase'[j] = phase[j]
                                    /\ bin'[j] = bin[j] /\ conf'[j] = conf[j]
    BY <1>1 DEF SendAUX, TypeOK
  <2> QED
    BY <2>1, OutcomeStays
<1> QED
  BY <1>2, RoundsNames DEF SendAUX, Rounds!SendAUX, Outcome

\* The nodes counted for the values of a set claim one of them.
LEMMA ClaimedBy ==
    ASSUME NEW K, NEW c, NEW S, NEW r, NEW p,
           \A k \in K : c[k] \subseteq Claim(S, r, p, k),
           Cardinality(UNION {c[k] : k \in K}) >= Quorum
    PROVE  Cardinality(UNION {Claim(S, r, p, k) : k \in K}) >= Quorum
<1> DEFINE C == UNION {c[k] : k \in K}
           D == UNION {Claim(S, r, p, k) : k \in K}
<1>1. C \subseteq D
  OBVIOUS
<1>2. D \subseteq Node
  BY CommitteeFacts DEF Claim
<1>3. Quorum \in Int /\ Cardinality(C) >= Quorum
  BY CommitteeFacts
<1> HIDE DEF C, D
<1>4. Cardinality(D) >= Quorum
  BY <1>1, <1>2, <1>3, LargerCount
<1> QED
  BY <1>4 DEF D

\* The values a node confirms have the claims of a quorum behind them.
LEMMA SendCONFRefines ==
    ASSUME ABAInv, NEW i \in Correct, SendCONF(i) PROVE Rounds!SendCONF(i)
<1> DEFINE vs == AuxValues(bin[i], aux[i])
<1>1. TypeOK /\ vs # {} /\ phase[i] = "aux"
  BY DEF ABAInv, SendCONF
<1>2. /\ vs \in ValueSets /\ vs \subseteq bin[i]
      /\ Cardinality(UNION {aux[i][v] : v \in vs}) >= Quorum
  <2>1. bin[i] \in SUBSET Bit /\ aux[i] \in [Bit -> SUBSET Node]
    BY <1>1 DEF TypeOK
  <2> QED
    BY <1>1, <2>1, AuxValuesFacts
<1>3. /\ conf' = [conf EXCEPT ![i][vs] = {i}]
      /\ sent' = sent \cup {Message(i, round[i], "CONF", vs)}
      /\ phase' = [phase EXCEPT ![i] = "conf"]
      /\ UNCHANGED <<input, round, estimate, decision, output, est, bin, aux, confRead, coin>>
  BY DEF SendCONF
<1> HIDE DEF vs
<1>4. Cardinality(UNION {Claim(sent, round[i], "AUX", {v}) : v \in vs}) >= Quorum
  <2> DEFINE C == UNION {aux[i][v] : v \in vs}
             D == UNION {Claim(sent, round[i], "AUX", {v}) : v \in vs}
  <2>1. \A v \in vs : aux[i][v] \subseteq Claim(sent, round[i], "AUX", {v})
    BY <1>2 DEF ABAInv, CountsClaims, ValueSets
  <2>2. C \subseteq D
    BY <2>1
  <2>3. D \subseteq Node
    BY CommitteeFacts DEF Claim
  <2>4. Quorum \in Int /\ Cardinality(C) >= Quorum
    BY <1>2, CommitteeFacts
  <2> HIDE DEF C, D
  <2>5. Cardinality(D) >= Quorum
    BY <2>2, <2>3, <2>4, LargerCount
  <2> QED
    BY <2>5 DEF D
<1>5. Outcome' = Outcome
  <2>1. phase[i] = "aux" /\ phase'[i] = "conf"
        /\ \A j \in Correct \ {i} : /\ phase'[j] = phase[j]
                                    /\ bin'[j] = bin[j] /\ conf'[j] = conf[j]
    BY <1>1, <1>3 DEF TypeOK
  <2> QED
    BY <2>1, OutcomeStays
<1>6. {Rounds!Claims(sent, round[i], "AUX", {v}) : v \in vs}
        = {Claim(sent, round[i], "AUX", {v}) : v \in vs}
  BY RoundsNames
<1>7. /\ Rounds!Cardinality(UNION {Rounds!Claims(sent, round[i], "AUX", {v}) : v \in vs})
            >= Rounds!Quorum
      /\ sent' = sent \cup {Rounds!Message(i, round[i], "CONF", vs)}
      /\ vs \in Rounds!ValueSets
  BY <1>2, <1>3, <1>4, <1>6, RoundsNames
<1> QED
  BY <1>1, <1>2, <1>3, <1>5, <1>7 DEF Rounds!SendCONF, Outcome

\* The values decided by the CONF exchange are the outcome from then on.
LEMMA FinishCONFRefines ==
    ASSUME ABAInv, NEW i \in Correct, FinishCONF(i) PROVE Rounds!FinishCONF(i)
<1> DEFINE vs == DecidedValues(bin[i], conf[i])
           K == (SUBSET vs) \ {{}}
<1>1. TypeOK /\ vs # {} /\ phase[i] = "conf"
  BY DEF ABAInv, FinishCONF
<1>2. /\ vs \in ValueSets /\ vs \subseteq bin[i]
      /\ Cardinality(UNION {conf[i][k] : k \in K}) >= Quorum
  <2>1. bin[i] \in SUBSET Bit /\ conf[i] \in [ValueSets -> SUBSET Node]
    BY <1>1 DEF TypeOK
  <2> QED
    BY <1>1, <2>1, DecidedValuesFacts
<1>3. /\ phase' = [phase EXCEPT ![i] = "coin"]
      /\ UNCHANGED <<input, round, estimate, decision, output, bin, conf, sent, coin>>
  BY DEF FinishCONF, roundVars
<1>4. Outcome' = [Outcome EXCEPT ![i] = vs]
  <2>1. /\ phase'[i] = "coin" /\ bin'[i] = bin[i] /\ conf'[i] = conf[i]
        /\ \A j \in Correct \ {i} : /\ phase'[j] = phase[j]
                                    /\ bin'[j] = bin[j] /\ conf'[j] = conf[j]
    BY <1>1, <1>3 DEF TypeOK
  <2> QED
    BY <2>1, OutcomeStep
<1> HIDE DEF vs
<1>5. Cardinality(UNION {Claim(sent, round[i], "CONF", k) : k \in K}) >= Quorum
  <2>1. \A k \in K : conf[i][k] \subseteq Claim(sent, round[i], "CONF", k)
    BY <1>2 DEF ABAInv, CountsClaims, ValueSets
  <2> HIDE DEF K
  <2> QED
    BY SMTT(20), <1>2, <2>1, ClaimedBy
<1>6. {Rounds!Claims(sent, round[i], "CONF", k) : k \in K}
        = {Claim(sent, round[i], "CONF", k) : k \in K}
  BY RoundsNames
<1>7. /\ Rounds!Cardinality(UNION {Rounds!Claims(sent, round[i], "CONF", k)
                                     : k \in (SUBSET vs) \ {{}}}) >= Rounds!Quorum
      /\ vs \in Rounds!ValueSets
  BY <1>2, <1>5, <1>6, RoundsNames
<1> QED
  BY <1>1, <1>2, <1>3, <1>4, <1>7 DEF Rounds!FinishCONF, Outcome

\* The coin is tossed when enough nodes have asked for it, in both.
LEMMA TossCoinRefines ==
    ASSUME ABAInv, NEW r \in Round, TossCoin(r) PROVE Rounds!TossCoin(r)
<1>1. Outcome' = Outcome
  BY DEF TossCoin, nodeVars, roundVars, Outcome
<1>2. Rounds!AskedCoin(r) = AskedCoin(r)
  BY RoundsNames DEF Rounds!AskedCoin, AskedCoin
<1>3. /\ coin[r] = NoBit /\ AskedCoin(r) # {}
      /\ Cardinality(AskedCoin(r) \cup Faulty) >= F + 1
      /\ \E c \in Bit : coin' = [coin EXCEPT ![r] = c]
      /\ UNCHANGED <<input, round, phase, decision, output, bin, sent>>
  BY DEF TossCoin, nodeVars, roundVars
<1>4. Rounds!Cardinality(AskedCoin(r) \cup Faulty) >= F + 1
  BY <1>3, RoundsNames
<1>5. Rounds!Bit = Bit /\ Rounds!NoBit = NoBit
  BY RoundsNames
<1> HIDE DEF AskedCoin
<1> QED
  BY <1>1, <1>2, <1>3, <1>4, <1>5 DEF Rounds!TossCoin, Outcome

\* A node at the coin has the decided values as its outcome.
LEMMA OutcomeAtCoin ==
    ASSUME NEW i \in Correct, phase[i] = "coin"
    PROVE  /\ Outcome[i] = DecidedValues(bin[i], conf[i])
           /\ Rounds!Matched(i) <=> Matched(i)
BY DEF Outcome, Rounds!Matched, Matched

\* A node returns the value matched twice; it keeps its outcome.
LEMMA ReturnRefines ==
    ASSUME ABAInv, NEW i \in Correct, Return(i) PROVE Rounds!Return(i)
<1>1. /\ TypeOK /\ phase[i] = "coin" /\ coin[round[i]] # NoBit
      /\ Matched(i) /\ decision[i] = coin[round[i]]
      /\ output' = [output EXCEPT ![i] = decision[i]]
      /\ phase' = [phase EXCEPT ![i] = "done"]
      /\ UNCHANGED <<input, round, decision, bin, conf, sent, coin>>
  BY DEF ABAInv, Return, roundVars
<1>2. Outcome' = Outcome
  <2>1. /\ phase'[i] = "done" /\ bin'[i] = bin[i] /\ conf'[i] = conf[i]
        /\ \A j \in Correct \ {i} : /\ phase'[j] = phase[j]
                                    /\ bin'[j] = bin[j] /\ conf'[j] = conf[j]
    BY <1>1 DEF TypeOK
  <2>2. Outcome' = [Outcome EXCEPT ![i] = DecidedValues(bin[i], conf[i])]
    BY <2>1, OutcomeStep
  <2> QED
    BY <1>1, <2>2, OutcomeAtCoin DEF Outcome
<1>3. Rounds!Matched(i)
  BY <1>1, OutcomeAtCoin
<1> QED
  BY <1>1, <1>2, <1>3, RoundsNames DEF Rounds!Return, Outcome

\* The estimate of the next round is one of the confirmed values.
LEMMA NextRoundRefines ==
    ASSUME ABAInv, NEW i \in Correct, NextRound(i) PROVE Rounds!NextRound(i)
<1> DEFINE e == NextEstimate(i)
           r == round[i] + 1
           c == coin[round[i]]
<1>1. /\ phase[i] = "coin" /\ c # NoBit /\ ~(Matched(i) /\ decision[i] = c) /\ r \in Round
      /\ decision' = [decision EXCEPT ![i] = IF Matched(i) THEN c ELSE @]
      /\ round' = [round EXCEPT ![i] = r]
      /\ phase' = [phase EXCEPT ![i] = "est"]
      /\ bin' = [bin EXCEPT ![i] = {}]
      /\ conf' = [conf EXCEPT ![i] = [k \in ValueSets |-> {}]]
      /\ sent' = sent \cup {Message(i, r, "EST", {e})}
      /\ UNCHANGED <<input, output, coin>>
  BY DEF NextRound, NextEstimate
<1>2. /\ TypeOK /\ e \in Outcome[i] /\ (Outcome[i] = Bit => e = c)
      /\ Rounds!Matched(i) <=> Matched(i)
  BY <1>1, NextEstimateFacts, OutcomeAtCoin DEF ABAInv
<1>3. Outcome' = [Outcome EXCEPT ![i] = {}]
  <2>1. /\ phase'[i] = "est"
        /\ \A j \in Correct \ {i} : /\ phase'[j] = phase[j]
                                    /\ bin'[j] = bin[j] /\ conf'[j] = conf[j]
    BY <1>1, <1>2 DEF TypeOK
  <2> QED
    BY <2>1, OutcomeStep
<1> HIDE DEF e
<1> QED
  BY <1>1, <1>2, <1>3, RoundsNames DEF Rounds!NextRound, Outcome

\* Every step maps to a step of ABARounds or changes nothing in it.
LEMMA StepRefines == ABAInv /\ [Next]_vars => [Rounds!Next]_(Rounds!vars)
<1> SUFFICES ASSUME ABAInv, [Next]_vars PROVE Rounds!Next \/ UNCHANGED Rounds!vars
  OBVIOUS
<1>0. Rounds!Correct = Correct /\ Rounds!Round = Round
  BY RoundsNames
<1>1. ASSUME NEW i \in Correct, Receive(i) PROVE Rounds!Next \/ UNCHANGED Rounds!vars
  BY <1>0, <1>1, ReceiveRefines DEF Rounds!Next
<1>2. ASSUME NEW i \in Correct, SendAUX(i) PROVE Rounds!Next
  BY <1>0, <1>2, SendAUXRefines DEF Rounds!Next
<1>3. ASSUME NEW i \in Correct, SendCONF(i) PROVE Rounds!Next
  BY <1>0, <1>3, SendCONFRefines DEF Rounds!Next
<1>4. ASSUME NEW i \in Correct, FinishCONF(i) PROVE Rounds!Next
  BY <1>0, <1>4, FinishCONFRefines DEF Rounds!Next
<1>5. ASSUME NEW i \in Correct, Return(i) PROVE Rounds!Next
  BY <1>0, <1>5, ReturnRefines DEF Rounds!Next
<1>6. ASSUME NEW i \in Correct, NextRound(i) PROVE Rounds!Next
  BY <1>0, <1>6, NextRoundRefines DEF Rounds!Next
<1>7. ASSUME NEW r \in Round, TossCoin(r) PROVE Rounds!Next
  BY <1>0, <1>7, TossCoinRefines DEF Rounds!Next
<1>8. CASE UNCHANGED vars
  BY <1>8 DEF vars, nodeVars, roundVars, Rounds!vars
<1> QED
  BY <1>1, <1>2, <1>3, <1>4, <1>5, <1>6, <1>7, <1>8 DEF Next

\* runABA, reading messages one by one, implements the quorum-level rounds of
\* ABARounds: an echo or a value of bin may rest on any ESTs read so far, a loop
\* ends on counters that only hold claims.
THEOREM ImplementsRoundsCorrect == Spec => ImplementsRounds
<1> QED
  BY ABAInvCorrect, RefinesInit, StepRefines, PTL DEF Spec, ImplementsRounds, Rounds!Spec
=============================================================================
