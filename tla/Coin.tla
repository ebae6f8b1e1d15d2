-------------------------------- MODULE Coin --------------------------------
(***************************************************************************)
(* One invocation of the threshold coin: runCoin of                        *)
(* src/core/cv_sapvss_apdb_network_scalar.go and the dispatch of coin      *)
(* shares in the same file.                                                *)
(*                                                                         *)
(* A member that enters the invocation signs its share, sends it to all,   *)
(* and repeats it a few times to those whose share is missing.  A share    *)
(* that comes before the receiver has entered is lost.  A member that has  *)
(* entered, the ones that have their output included, answers the first    *)
(* share of each peer with its own; f+1 shares are the output.             *)
(***************************************************************************)
EXTENDS Integers, FiniteSets

CONSTANTS Old,        \* the old committee
          Faulty,     \* members that do not follow the protocol
          F,          \* OldFaults
          MaxRetries  \* cvControlRetryMaxAttemptsScalar

Correct == Old \ Faulty
CoinThreshold == F + 1

VARIABLES
    entered,  \* members with an entry in localCoinShares
    shares,   \* pending.shares of each member
    retries,  \* how often a member has repeated its share
    wire,     \* shares under way between correct members: from, to
    replied,  \* coinShareReplies: who has answered whom
    output    \* members whose runCoin has returned

coinVars == <<entered, shares, retries, wire, replied, output>>

Collecting(i) == i \in entered \ output

CoinInit ==
    /\ entered = {} /\ output = {}
    /\ shares = [i \in Correct |-> {}] /\ retries = [i \in Correct |-> 0]
    /\ wire = {} /\ replied = {}

\* What i sends to the members of S.
ShareTo(i, S) == {i} \X (S \ (Faulty \cup {i}))

-----------------------------------------------------------------------------
\* runCoin up to its first wait.
Enter(i) ==
    /\ i \notin entered
    /\ entered' = entered \cup {i}
    /\ shares' = [shares EXCEPT ![i] = {i}]
    /\ wire' = wire \cup ShareTo(i, Old)
    /\ UNCHANGED <<retries, replied, output>>

\* The timer, which may win the select although the output is to be had.
Retry(i) ==
    /\ Collecting(i) /\ retries[i] < MaxRetries
    /\ retries' = [retries EXCEPT ![i] = @ + 1]
    /\ wire' = wire \cup ShareTo(i, Old \ shares[i])
    /\ UNCHANGED <<entered, shares, replied, output>>

\* Mutant: every share is answered.
AnswersAlways(i, j) == i \in entered

\* Member i has a share to answer j with, and has not done so.
Answers(i, j) == i \in entered /\ <<i, j>> \notin replied

\* Member i is handed the share of a correct member j.
OnCoinShare(i, j) ==
    /\ <<j, i>> \in wire
    /\ shares' = [shares EXCEPT ![i] = IF Collecting(i) THEN @ \cup {j} ELSE @]
    /\ wire' = (wire \ {<<j, i>>}) \cup (IF Answers(i, j) THEN {<<i, j>>} ELSE {})
    /\ replied' = IF Answers(i, j) THEN replied \cup {<<i, j>>} ELSE replied
    /\ UNCHANGED <<entered, retries, output>>

\* A valid share of a faulty member.
OnFaultyShare(i, j) ==
    /\ j \in Faulty /\ Collecting(i) /\ j \notin shares[i]
    /\ shares' = [shares EXCEPT ![i] = @ \cup {j}]
    /\ UNCHANGED <<entered, retries, wire, replied, output>>

\* pending.ready: the output is recovered and the collection removed.
RecoverCoin(i) ==
    /\ Collecting(i) /\ Cardinality(shares[i]) >= CoinThreshold
    /\ output' = output \cup {i}
    /\ shares' = [shares EXCEPT ![i] = {}]
    /\ retries' = [retries EXCEPT ![i] = 0]
    /\ UNCHANGED <<entered, wire, replied>>

CoinNext ==
    \E i \in Correct :
        \/ Enter(i) \/ Retry(i) \/ RecoverCoin(i)
        \/ \E j \in Correct : OnCoinShare(i, j)
        \/ \E j \in Faulty : OnFaultyShare(i, j)

CoinSpec == CoinInit /\ [][CoinNext]_coinVars

\* What is bound to happen: shares between correct members arrive and who can
\* recover does.  That members enter, that the retry timer fires and that faulty
\* members send anything is not needed.
CoinProgress ==
    \E i \in Correct : RecoverCoin(i) \/ \E j \in Correct : OnCoinShare(i, j)

\* No step of CoinProgress is left: nothing is under way and nobody can recover.
CoinAtRest ==
    \A i \in Correct : /\ ~(Collecting(i) /\ Cardinality(shares[i]) >= CoinThreshold)
                       /\ \A j \in Correct : <<j, i>> \notin wire

-----------------------------------------------------------------------------
CoinTypeOK ==
    /\ entered \subseteq Correct /\ output \subseteq entered
    /\ shares \in [Correct -> SUBSET Old]
    /\ retries \in [Correct -> 0 .. MaxRetries]
    /\ wire \subseteq Correct \X Correct /\ replied \subseteq Correct \X Correct

\* A member that enters the coin gets its output as soon as f+1 correct members
\* have entered, in whatever order and however late it comes: the shares sent
\* before are lost to it, and members that have their output no longer repeat
\* them, but they still answer.
CoinReached ==
    Cardinality(entered) >= CoinThreshold /\ CoinAtRest => output = entered

\* The answers to shares, which look like shares and are answered themselves,
\* come to an end: two members do not answer each other for ever.
TrafficEnds == <>[](wire = {})
=============================================================================
