---------------------------- MODULE PracticalCoin ----------------------------
(***************************************************************************)
(* The threshold coin of Practical-ADKR:                                   *)
(* src/experiments/practical-adkr/core/coin_threshold_protocol.go, with    *)
(* one committee member per process, all with the decided set of MVBA.     *)
(*                                                                         *)
(* A listener puts every share it reads into a bounded channel and answers *)
(* after that.  runThresholdCoin starts a collector, which takes f+1 valid *)
(* shares from the channel and ends, and walks over the roster: goroutines *)
(* send its share to each peer until it is answered; its own share goes    *)
(* straight into its channel, a step that waits for room with no way out.  *)
(* With its output a member waits a while for its sends, then cancels      *)
(* them.  Shares are counted in the channel; their order only decides      *)
(* which ones the collector takes.  The channels of the watched members    *)
(* are modelled; the other correct members enter the coin, get its output  *)
(* and cancel their sends at any moment.                                   *)
(***************************************************************************)
EXTENDS Committee

CONSTANTS Watched,      \* correct members whose channel is modelled
          CoinHasty,    \* members whose delivery grace may end too early
          MaxFlood,     \* shares that the faulty members send to one member
          MaxUnanswered \* answers that get lost on their way

\* What the collector tells apart: whose valid share it is, if it is one.
BadShare == 0
CoinWires == Old \cup {BadShare}

ASSUME PracticalCoinAssumption ==
    /\ Watched \subseteq Correct /\ Old \subseteq Nat \ {BadShare}
    /\ MaxFlood \in Nat /\ MaxUnanswered \in Nat

VARIABLES
    pcStage,    \* "idle", "run", "out" (has the output, in the grace), "done"
    pcChannel,  \* pcChannel[p][w]: copies of w in p's channel
    pcShares,   \* signers whose share p's collector has
    pcPushed,   \* members that have put their own share into their channel
    pcAnswered, \* pairs <<s, p>>: s has p's answer to its share
    pcFlood,    \* shares of faulty members that p's listener has read
    pcLost      \* answers lost so far

practicalCoinVars ==
    <<pcStage, pcChannel, pcShares, pcPushed, pcAnswered, pcFlood, pcLost>>

PracticalCoinInit ==
    /\ pcStage = [p \in Correct |-> "idle"]
    /\ pcChannel = [p \in Watched |-> [w \in CoinWires |-> 0]]
    /\ pcShares = [p \in Watched |-> {}]
    /\ pcPushed = {} /\ pcAnswered = {}
    /\ pcFlood = [p \in Watched |-> 0] /\ pcLost = 0

-----------------------------------------------------------------------------
\* startThresholdCoinService makes channels for twice the committee.
ChannelCapacity == 2 * Cardinality(Old)

\* The shares in a channel: the first, second, ... copy of each.
InChannel(p) ==
    {x \in CoinWires \X (1 .. ChannelCapacity) : x[2] <= pcChannel[p][x[1]]}

ChannelRoom(p) == Cardinality(InChannel(p)) < ChannelCapacity

Queued(p, w) == [pcChannel EXCEPT ![p][w] = @ + 1]

\* dualThresholdSigner signs coins with the low threshold.
LowThreshold == F + 1

\* collectThresholdCoinShares returns when it has enough shares.
Collecting(p) == pcStage[p] = "run" /\ Cardinality(pcShares[p]) < LowThreshold

-----------------------------------------------------------------------------
\* runThresholdCoin runs the collector; the sends to the roster up to the
\* member are on their way.
StartCoin(p) ==
    /\ pcStage[p] = "idle"
    /\ pcStage' = [pcStage EXCEPT ![p] = "run"]
    /\ UNCHANGED <<pcChannel, pcShares, pcPushed, pcAnswered, pcFlood, pcLost>>

\* localCh <- wire, then the sends to the rest of the roster.
PushOwn(p) ==
    /\ pcStage[p] = "run" /\ p \notin pcPushed /\ ChannelRoom(p)
    /\ pcChannel' = Queued(p, p)
    /\ pcPushed' = pcPushed \cup {p}
    /\ UNCHANGED <<pcStage, pcShares, pcAnswered, pcFlood, pcLost>>

\* s is in sendThresholdCoinShare to p.
Sends(s, p) ==
    /\ s # p /\ pcStage[s] \in {"run", "out"} /\ <<s, p>> \notin pcAnswered
    /\ s \in Watched /\ s < p => s \in pcPushed

\* serveThresholdCoinShares: into the channel, then the answer.
ServeShare(s, p) ==
    /\ Sends(s, p) /\ ChannelRoom(p)
    /\ pcChannel' = Queued(p, s)
    /\ \/ pcAnswered' = pcAnswered \cup {<<s, p>>} /\ UNCHANGED pcLost
       \/ pcLost < MaxUnanswered /\ pcLost' = pcLost + 1 /\ UNCHANGED pcAnswered
    /\ UNCHANGED <<pcStage, pcShares, pcPushed, pcFlood>>

\* The listener reads a share that a faulty member sent: its own valid one,
\* or one that does not verify.
ServeFlood(p, w) ==
    /\ pcFlood[p] < MaxFlood /\ ChannelRoom(p)
    /\ pcChannel' = Queued(p, w)
    /\ pcFlood' = [pcFlood EXCEPT ![p] = @ + 1]
    /\ UNCHANGED <<pcStage, pcShares, pcPushed, pcAnswered, pcLost>>

\* collectThresholdCoinShares takes a share: duplicates and shares that do
\* not verify change nothing.
CollectShare(p, w) ==
    /\ Collecting(p) /\ pcChannel[p][w] > 0
    /\ pcChannel' = [pcChannel EXCEPT ![p][w] = @ - 1]
    /\ pcShares' = [pcShares EXCEPT ![p] = @ \cup ({w} \ {BadShare})]
    /\ UNCHANGED <<pcStage, pcPushed, pcAnswered, pcFlood, pcLost>>

\* The walk over the roster has ended and the collector has an output.
TakeCoin(p) ==
    /\ pcStage[p] = "run"
    /\ p \in Watched => p \in pcPushed /\ ~ Collecting(p)
    /\ pcStage' = [pcStage EXCEPT ![p] = "out"]
    /\ UNCHANGED <<pcChannel, pcShares, pcPushed, pcAnswered, pcFlood, pcLost>>

\* All sends have ended, or the grace has, and the rest is cancelled.  A
\* grace that is long enough outlasts the sends to members that are still
\* to enter the coin or collect shares.
NeedsShares(q) == pcStage[q] = "idle" \/ Collecting(q)

EndGrace(p) ==
    /\ pcStage[p] = "out"
    /\ p \notin CoinHasty => \A q \in Watched : Sends(p, q) => ~ NeedsShares(q)
    /\ pcStage' = [pcStage EXCEPT ![p] = "done"]
    /\ UNCHANGED <<pcChannel, pcShares, pcPushed, pcAnswered, pcFlood, pcLost>>

-----------------------------------------------------------------------------
PracticalCoinNext ==
    \/ \E p \in Correct : StartCoin(p) \/ TakeCoin(p) \/ EndGrace(p)
    \/ \E p \in Watched : PushOwn(p)
    \/ \E p \in Watched, s \in Correct : ServeShare(s, p)
    \/ \E p \in Watched, w \in Faulty \cup {BadShare} : ServeFlood(p, w)
    \/ \E p \in Watched, w \in CoinWires : CollectShare(p, w)

\* What is bound to happen: a member reaches the coin (MVBA has decided), its
\* goroutines run, and a send is tried until it is answered or cancelled.
PracticalCoinProgress ==
    \/ \E p \in Correct : StartCoin(p) \/ TakeCoin(p) \/ EndGrace(p)
    \/ \E p \in Watched : \/ PushOwn(p) \/ \E w \in CoinWires : CollectShare(p, w)
                          \/ \E s \in Correct : ServeShare(s, p)

\* No step of PracticalCoinProgress is left: who has not got through waits for
\* shares or for room, and no channel takes or gives a share.
PracticalCoinAtRest ==
    /\ \A p \in Correct :
          /\ pcStage[p] # "idle"
          /\ pcStage[p] = "run" => p \in Watched /\ (p \notin pcPushed \/ Collecting(p))
          /\ pcStage[p] = "out" =>
                p \notin CoinHasty /\ \E q \in Watched : Sends(p, q) /\ NeedsShares(q)
    /\ \A p \in Watched :
          /\ pcStage[p] = "run" /\ p \notin pcPushed => ~ChannelRoom(p)
          /\ Collecting(p) => \A w \in CoinWires : pcChannel[p][w] = 0
          /\ ChannelRoom(p) => \A s \in Correct : ~Sends(s, p)

-----------------------------------------------------------------------------
\* Every member's channel stays within its capacity and a collector holds
\* shares of committee members, f+1 of them at the most.
PracticalCoinTypeOK ==
    /\ pcStage \in [Correct -> {"idle", "run", "out", "done"}]
    /\ pcChannel \in [Watched -> [CoinWires -> 0 .. ChannelCapacity]]
    /\ pcShares \in [Watched -> SUBSET Old]
    /\ \A p \in Watched : /\ Cardinality(InChannel(p)) <= ChannelCapacity
                          /\ Cardinality(pcShares[p]) <= F + 1
    /\ pcPushed \subseteq Watched /\ pcAnswered \subseteq Correct \X Watched
    /\ pcFlood \in [Watched -> 0 .. MaxFlood] /\ pcLost \in 0 .. MaxUnanswered

\* A sender that has its answer sends no more, so the share it was answered
\* for is in the channel or with the collector, or the collector has ended
\* without needing it: whatever the listener answered before the member
\* entered the coin, and however full its channel was, is not lost.
AnsweredIsHeld ==
    \A s \in Correct, p \in Watched :
        <<s, p>> \in pcAnswered =>
            \/ pcChannel[p][s] > 0
            \/ s \in pcShares[p]
            \/ Cardinality(pcShares[p]) >= F + 1

\* As long as the faulty members cannot fill a channel that nobody empties
\* any more, every member gets the coin and leaves it, whoever enters last
\* and although one member cancels its sends with its output.
CoinsArrive ==
    PracticalCoinAtRest => \A p \in Correct : pcStage[p] = "done"
=============================================================================
