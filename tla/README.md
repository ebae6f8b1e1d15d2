# Verification of ARL-ADKR and Practical-ADKR

TLA+ models of the protocols in this repository, TLC configurations that check
them on small instances, and TLAPS proofs for arbitrary numbers of nodes.

## 1. The system

The repository implements asynchronous distributed key reconfiguration: an old
committee of `n` nodes re-shares a secret to a new committee, with up to `f`
faulty nodes, `n >= 3f+1`.  It holds three programs.

| part | directory | what it does |
|---|---|---|
| ARL-ADKR | `src/core`, `src/cmd` | one CV-sAPVSS epoch: dealers disperse components, sampled proposers certify pools of components and aggregate them, sampled validators certify the aggregates, MVBA chooses one, the decision is certified and handed to the new committee, which recovers its shares |
| Practical-ADKR | `src/experiments/practical-adkr` | the baseline: dealing, transcript dispersal, agreement on a set of dealers, a threshold coin that selects some, recast, partial verification, key derivation |
| DumboMVBA | `src/experiments/dumbomvba-go` | the validated Byzantine agreement both use |

### 1.1 DumboMVBA

| component | state | operations | hard | correct when |
|---|---|---|---|---|
| binary agreement (`aba_equivalent.go`, `runABA`) | `est`, `bin`, `aux`, `conf`, `decision` of the current internal round | read a message; broadcast AUX, CONF; ask the coin; return | three exchanges and several rounds interleave; nodes return in different rounds; peers contradict themselves | agreement, validity, termination |
| provable dispersal (`pd_equivalent.go`, `runPDInstance`) | stripe, lock, collected shares, ring position | STORE, STORED, LOCK, LOCKED, DONE, pull timer, cancellation | only part of the ring is served at first; workers are cancelled in mid-flight | one lock per leader, a locked value is recoverable, a correct leader finishes |
| leaving dispersal (`mvba_equivalent.go`, `runQuitPD`) | DONE proofs, READY shares, FINISH | DONE, READY, FINISH | a node that has left reads nothing more | nobody leaves early; one that leaves takes all along |
| recast (`rc_equivalent.go`, `runRCSubprotocol`) | certified root, stripes, pulls | RCLOCK, RCSTORE, pull, answer | locks and stripes in any order, stale and contradicting ones | all return the same value |
| MVBA loop, message router (`mvba.go`) | view, per-instance channels and caches | start sub-protocols, route, buffer | messages for instances that do not exist yet | decision of one valid value |
| shared coin, ACS, signers | shares per round | collect `f+1` shares | shares ahead of the request | common value, unpredictable |

They call each other in this order, per view: all `n` PD instances and QuitPD
concurrently; cancellation of PD; the coin that names a leader; RC-prepare; ABA
on that leader; on 1, RC of its value, on 0 the next leader.

### 1.2 ARL-ADKR

All protocols of a member run in one network service
(`cv_sapvss_apdb_network_scalar.go`): a dispatch goroutine takes messages one by
one, crypto and recovery workers take jobs from bounded queues, and the API calls
below run in goroutines of the epoch driver.  They share maps under one mutex,
which is released during cryptography.

| component | state | operations | hard | correct when |
|---|---|---|---|---|
| leaf, lanes, fallback evidence (`cv_sapvss_leaf_scalar.go`, `apvss_ack.go`, `apvss_compact_*.go`) | lanes, ACKs, evidence | offer, decrypt and sign, prove, verify, aggregate, solve | digits that are valid one by one but too large in sum; two ways to write a scalar | an accepted leaf can be opened by every correct receiver |
| APDB (`lockForPurposeScalar`, `runRecoveryWithSchedule`) | stored shards, lock shares, collectors | store, sign once, lock, request, serve, recover | one attempt per holder; restarts | a lock means the payload is recoverable |
| threshold coin (`runCoin`, dispatch of coin shares) | `pendingCoins`, `localCoinShares`, `coinShareReplies` | enter, retry, share, answer, recover | shares before registration are thrown away; finished members repeat nothing; answers answer answers | everybody who enters gets the value; traffic ends |
| pool certification (`CertifyPool`, `AwaitCertifiedPool`, `handlePool*`) | `poolSlots`, one `cvPoolState` per proposer | offer, retry, share, certificate, contributor coin | offers before the eligibility coin are dropped; certificates overtake offers; equivocating proposers | one pool per proposer, its coin unknown before it is certified |
| aggregate validation (`CertifyAggregate`, `handleValidation*`) | `pendingValidation`, `validationRecords`, `validationOneShot` | two request waves, retry, sign once, result | reservation before recovery | a certificate means that a correct validator verified |
| proposer slots, candidates (`cv_sapvss_proposer_scalar.go`, `cv_sapvss_candidate_network_scalar.go`) | slots and their errors, candidate channel, queue of unverified copies | launch, back up, certify, flood, acknowledge, verify, return, give up | acknowledged but not verified; flooding cancelled by its own success | an accepted candidate reaches all, nobody gives up without cause |
| decision and handoff (`FinalizeDecision`, `handleDecisionShare`, `handleHandoff`, `AwaitHandoff`, `cv_sapvss_decision_store.go`) | decision record on disk, `pendingDecisions`, `decisionCertificates`, `acceptedHandoff` | persist, sign, collect, hand off, accept, leave, crash | crash between record and signature; members that exit before late ones begin | one certified value per epoch |
| scalar exchange (`RecoverAndExchangeScalarShare`) | `pendingScalarShares`, scalar on disk | recover, persist, send, answer, close | bounded retries against late peers and against those that have closed | each receiver gets the public key while enough of them are there |
| service loop, queues, router, transport | queues, connection pool | enqueue, dispatch, build once, cancel, send, reconnect | full queues block the dispatcher; a write into a broken connection succeeds | every message between live members is handled, once |
| epoch driver, barrier | phase of the epoch, marker files | run phases, linger, exit, wait for markers | grace periods; one marker that differs | all members end with the same result |
| the earlier services (`cv_sapvss_component_service.go`, `cv_sapvss_aggregate_service.go`) | claims, pools, descriptors, offers, receipts | lanes, lock, retrieve, materialize, certify, exchange receipts | bounded channels filled by faulty peers; receipts sent before anybody listens | as the scalar path |

### 1.3 Practical-ADKR

| component | state | operations | hard | correct when |
|---|---|---|---|---|
| dealing (`pvss_dxt.go`, `dxt_network.go`) | stored shares, acknowledgements | lane, ACK, assemble, verify, snapshot | a second lane of the same dealer; a snapshot of shares taken at some moment | an acknowledged lane can be opened when keys are derived |
| dispersal (`apdb*.go`) and agreement (`mvba_dumbo_adapter.go`) | shards, receipts, certificates | disperse, sign, broadcast, propose, adopt | one dealer, several certificates; services that close after the agreement | the same commitments everywhere, with enough shards |
| recast (`adkr.go`, `runRecastRecovery`) | attestations, shards, completions | ready quorum, store, fetch, decode, barrier, deadline | holders that end early; a barrier on completions | one transcript, and everybody gets it |
| partial verification (`partial_verify_multicast.go`) | votes per lane | verify a window, multicast, accept, cancel | the first to accept cancels what others need | an accepted transcript has no invalid lane |
| component keys (`comp_multicast.go`, `comp_proof.go`) | key shares, responders | prove, send, collect, interpolate, close | collectors that leave | the same keys everywhere |
| threshold coin (`coin_threshold_protocol.go`) | bounded channel of shares | send, answer, collect, linger | answered, then lost with a full channel | everybody has the coin |

## 2. Modules and the code they model

Every definition that models code carries a comment with the code's own name
where it differs; `PROJECT.json` (`map`) gives the lines.  Definitions introduced
by "Mutant:" are variants of the definition that follows them with a plausible
mistake; no specification uses them.

Conventions.  `Correct` is the set of nodes that follow the protocol; what a
faulty node can do is a choice in the actions of correct nodes that receive from
it.  Signatures and certificates are facts about who has signed what: a share of
a correct member exists when it has released it, a certificate when enough
signers, the faulty ones included, do.  A digest or a Merkle root stands for what
it commits to.  Messages between correct nodes are, where the code repeats or
buffers them, the set of what has been sent; where it does not, they are
consumed, and lost when the receiver is not ready.  Where a sender repeats a
request until it is answered, the exchange is one step of both ends.

| module | models | state and actions |
|---|---|---|
| `Committee` | thresholds of `cv_sapvss_scalar_params.go` | constants `Old`, `Faulty`, `F` shared by the modules of the services |
| `ABA` | `runABA`, message by message | one variable per local map; `Receive` is one turn of `nextMessage` and `accept`, `SendAUX`, `SendCONF`, `FinishCONF`, `Return`, `NextRound` the code between wait loops. `SendCONF` overwrites `conf` as line 181 does |
| `ABARounds` | what `runABA` promises: a wait ends when enough nodes have sent what it waits for | the same phases with `Absorb` for any set of readings; `ABA` implements it |
| `PD` | `runPDInstance` of one leader, with the cancellation by `runEquivalent` | stripes, locks, shares per node; `OnStore`, `OnStored`, `OnLock`, `OnLocked`, `PullTimer`, `Quit`, `Crash` |
| `RC` (extends `PD`) | `runRCSubprotocol` on what `PD` left behind | `Enter`, `OnRCLock`, `OnRCStore`, `Pull`, `AnswerPull` |
| `QuitPD` | `runQuitPD` | `OnDone`, `OnReady`, `OnFinish`; which leaders complete is a parameter |
| `APDB` | lock and recovery of a payload | the holder store, offers, lock shares, both request waves, direct payloads, loss of a response, crash |
| `HolderService` | one member that serves requests | router queue, `Dispatch`, recovery queue, workers that build a response once, outbound queue, cancellation, `Close` |
| `Transport` | `Send` of the TCP transport and its readers | pool of connections, their locks and states; write, evict, dial, put back |
| `EpochBarrier` | series of epochs with marker files | ready markers, result markers, the scan that stops at the first difference |
| `Coin` | `runCoin` and the dispatch of coin shares, one invocation | `Enter`, `Retry`, `OnCoinShare`, `OnFaultyShare`, `RecoverCoin` |
| `PoolCert` | the slot of one proposer up to its contributor coin | `CertifyPool`, `RetryOffer`, `Recover` at the proposer; `LearnEligibility`, `OnOffer`, `DropOffer`, `OnCertificate`, `StartCoin` at members |
| `Validation` | certification of the aggregate of one proposer | request waves, one-shot reservation, recovery that may fail, signatures, results |
| `ProposerSlots` | slots of all sampled proposers at all members, and candidates | `Start`, `LaunchBackups`, `SlotEnds`, `ReturnCandidate`, `GiveUp`; `Certify`, `Send`, `Accept`, `Drop`, `StopFanout` |
| `Decision` | finalization, handoff and acceptance, with restarts | `Persist`, `Release`, `OnShare`, `Finish`, `OnHandoff`, `Accept`, `Leave`, `GiveUp`, `Crash` |
| `ScalarExchange` | the scalar exchange of the new committee | `PersistOnce`, `Release`, `Repeat`, `OnOutput`, `ExchangeEnds`, `ContextEnds`, `CloseService` (the end of `RunCVEpochScalar`: at once after an error, after a grace otherwise), `CrashReceiver` |
| `LaneAcks`, `ComponentLock`, `Materialize`, `Receipts` | the earlier services: collection of lane ACKs; lock and retrieval of a component; pools, ReadyCerts, materialization and its certificate; exchange of receipts | one variable per map or channel of the service that another goroutine reads |
| `Field`, `Group` | a small prime field; group elements as formal combinations of independent bases | operators only |
| `Sharing` | sharing, chunked encryption, proofs, aggregation, decryption and key of the earlier provider | one action per verification, decryption, receipt and interpolation |
| `CompactProofs` | range proof with its inner-product argument, link proof, comparator | one action per move of prover and verifier |
| `LeafEvidence` | the scalar and the structural leaf: ACKed and fallback lanes, aggregate, share, output, key | `AskReceiver`, building, judging and forging a leaf, `Aggregated`, `DecryptAggregate`, `PublishOutput`, `RecoverKey` |
| `DXTDealing`, `PracticalDispersal`, `Recast`, `PartialVerify`, `CompKeys`, `PracticalCoin` | the stages of Practical-ADKR of section 1.3 | one action per handler, sender and wait, with deadlines and closing services |
| `QuorumLemmas` | - | counting facts used by the proofs |
| `ABARoundsProofs`, `ABAProofs` | - | theorems about the module of that name |
| `DispersalProofs`, `ExchangesProofs`, `ServicesProofs`, `PracticalProofs`, `NodeProofs` | - | theorems about the components that `MCDispersal`, `MCExchanges`, `MCServices`, `MCPractical` and `MCRuntime` put side by side; `NodeProofs` also about `ProposerSlots` on its own |

How they compose: `RC` extends `PD`; `ABA` implements `ABARounds`; `QuitPD` takes
from `PD` which leaders complete; `PoolCert.StartCoin` is `Coin.Enter` of the
contributor coin and `PoolCert.LearnEligibility` is `Coin.RecoverCoin` of the
eligibility coin; `Validation` begins with the aggregate whose recovery is `APDB`,
and its end is `ProposerSlots.Certify`; `Decision` begins where agreement on a
candidate ends, `ScalarExchange` where the handoff is accepted, with the values of
`LeafEvidence`.  `HolderService` is the inside of `APDB.Serve`, and `Transport` of
every delivery.  In Practical-ADKR each stage starts from any state the one before
may leave, given as a parameter.

## 3. Runs

The MC modules put components that do not share state side by side: a variable
`scenario`, chosen in the initial state, says which one moves, and the others stay
in one of their initial states.  A run is thus the disjoint union of the state
graphs of its components; a property of a component is about the states of its
scenario and holds trivially in the others.  What one run checks under one name
(`EvidenceOpens`, say) is the conjunction of named properties of the components,
each defined and explained in its own module.

| run | instance | bounds, and why they are enough |
|---|---|---|
| `aba` | 3 live nodes of 4, `ABA` against `ABARounds` | two internal rounds, the fourth node silent. The refinement is per step and the same in all rounds; two rounds let messages be early and late |
| `aba_rounds` | 4 nodes, one Byzantine | a match in round 0 and its effect in round 1. A node enters a round when the others are at the coin of the one before, and at most one input differs; the proof has neither bound |
| `dispersal` | 4 nodes: recast under a faulty leader with two values; leaving; a correct leader with a peer that stops | all nodes have left dispersal before RC starts, which fixes what RC finds; the faulty node sends stripes of its second value to one node only. Fanout 3 of 4, so that the pull timer is needed. Just enough leaders complete, or one too few |
| `candidates` | sharings, proofs and leaves over a field of 11 elements | the values include both ways to write a scalar, digits beyond the base, and sums at the bound of the solver |
| `exchanges` | pool, validation, scalar exchange, receipts | a correct or faulty proposer, two pools or statements, all repetitions of the pool offer, one failed recovery, one crash of a receiver, one silent host. Two correct receivers and a faulty one share a key of threshold two, so that each needs the other or the faulty one, and either may close before the other comes; the third of its rounds is like the second. 48 thousand states |
| `services` | APDB, component lock, lanes, materialization, decision | two roots or statements of a faulty dealer, one crash, unreachable holders or receivers from none to one too many, a faulty receiver that acknowledges its lane four times, enough to fill the channel alone, one place in each bounded cache, two values of which agreement may give each restarted run another |
| `practical` | the six stages of Practical-ADKR with 4 members | one correct and one faulty dealer, one invalid lane or shard, enough holders that answer or one too few, one member that ends early where the code lets it; a channel small enough to be full |
| `runtime` | a holder with queues of one place and two workers; four senders to two destinations; two epochs of three processes; slots of a primary and a backup proposer at three members; the coin with a faulty fourth member | one place makes every queue full, a connection breaks once, one process deviates. A coin share is repeated once: repetitions are alike |
| `aba_termination`, `rc_retained`, `dxt_ack`, `apdb_lost` (violations) | one component each | as small as the disagreement of section 4 allows |

What each run shows:

* `aba`: `ImplementsRounds` — reading message by message does nothing that the
  quorum-level waits do not allow; `FirstRoundConfirms` — all live nodes get past
  EST and AUX.
* `aba_rounds`: `MatchLocksOutcome`, `Validity`.
* `dispersal`: `RCAgreement`; `CertifiedRootHolds` (`CertificateUnique`,
  `LockRecoverable`, `DoneLocksEnough`); `QuitJustified`; `DispersalSettles`
  (`QuitTotality`, `QuitReached`, `LeaderFinishes`).
* `candidates`: `EvidenceOpens` (`AcceptedOpens`, `RangeExact`, `FoldKeepsOpening`,
  `LaneOpens`, `AcceptedLanesOpen`, `CorrectLeafStands`); `KeyIsOne` (`OneKey`,
  `SolverExact`, `SharesExact`, `OneThresholdKey`).
* `exchanges`: `CertifiedPoolUnique`, `CertifiedPoolBacked`,
  `CoinAfterCertificate`, `CertifiedSound`; `SignersEndUp` (`SignersJoin`,
  `SignersLearn`); `OutputsStand` (`ReleasedPersisted`, `EchoBounded`,
  `FailsAlone`); `ExchangesFinish` (`ProposerCertifies`, `AggregateCertified`,
  `ExchangeCompletes`, `FirstsFinish`). Members leave the scalar exchange, and
  nothing keeps a timer from being faster than the answers: `FailsAlone` says what
  giving up nevertheless implies, `ExchangeCompletes` what is bound to happen when
  messages are prompt.
* `services`: `CertifiedIsKept` (`LockAvailable`, `RecoveryAgreement`,
  `CertifiedStored`, `SignedValid`); `DealersKept` (`OneComponent`,
  `NoLostCaller`, `AcksNotLost`, `NoneCrowdedOut`); `HandoffAgreement`,
  `CertificateDurable`; `ServicesSettle` (`LockedRecovered`, `LanesEnd`,
  `CertifiedIsOffered`, `AllFinalize`).
* `practical`: `KeysOpen` (`CorrectDealersOpen`, `SignersStored`,
  `VerifiedSound`); `StagesAgree` (`SameCommitments`,
  `DecidedStored`, `RecoveredAgree`, `BarrierWitnessed`, `AnsweredIsHeld`);
  `StagesEnd` (`SomeoneVerifies`, `DispersalEnds`, `RecipientsRecover`,
  `KeysArrive`, `KeysAreShared`, `CoinsArrive`).
* `runtime`: `HandledOnce` (`AtMostOnce`, `LostOnlyByBreak`, `EntryHasOneJob`);
  `PassersAgree`; `RuntimeSettles` (`DispatchResumes`, `HolderCloses`,
  `SendEnds`); `RuntimeServes` (`OpenStaysPooled`, `StoredIsServed`,
  `SeriesEnds`); `ProposerKeepsCandidate`, `GivesUpOnResultsOnly`;
  `CandidatesSettle` (`CandidateSpreads`, `CoinReached`); `TrafficEnds`.

The MC modules of these runs fix what is specific to an instance by CONSTANTS
only (`MCDispersal` takes the sets of leaders that complete as `Outcomes`), so that
the proofs of section 5 are about the very specifications that the runs check.
`apdb_lost` checks `APDB` itself, with `AllReachable`.

Symmetry.  `aba_rounds` uses the permutations of the correct nodes, and a view
that leaves out messages of rounds all have left.  The decision in `services`
breaks its symmetry by hand (`DecisionCases`): of the correct members it is
member 1 that crashes, and member 3 is not given the second value, which renaming
members and values can always achieve.

Deadlock checking is off: these protocols end, and bounded rounds, repetitions
and crashes end them earlier.

### Fairness

Weak fairness of the steps a live process takes by itself and of the delivery
between live correct nodes, never of faulty nodes, of crashes, of the moment a
member starts, or of timers unless named.  Properties are stated in one of two
ways.

*At rest.*  Where every behaviour of a component is finite in its instance, weak
fairness of its `...Progress` means that it stops only where no such step is
left.  What must have happened by then is the invariant `...AtRest => goal`:
equivalent to the liveness property as no step can go on for ever, cheaper to check,
and open to proof.  `...AtRest` spells out that no step of `...Progress` is left; that
it says exactly this was checked by TLC in the instances of the runs, with
`...AtRest <=> ~ENABLED ...Progress` as the invariant.  `CandidatesSettle`,
`SignersEndUp`, `DispersalSettles`, `ServicesSettle`, `StagesEnd` and `RuntimeSettles`
are of this kind.

*Temporal.*  Where a behaviour may be infinite (tickers, answers to answers,
requests that come again): `FirstRoundConfirms`, `TrafficEnds`,
`ExchangesFinish`, `RuntimeServes`.

What is bound to happen:

* `ABA`: every goroutine runs, the network delivers, the coin is answered (the
  router of `mvba.go` keeps messages for a node that is behind).
* `PD`: in addition the pull timer, which is re-armed until it is empty.
* `QuitPD`: delivery of what correct nodes broadcast. That a faulty leader's
  proof reaches everybody is not assumed.
* `APDB`: storing, asking and serving at correct members, the grace of the first
  wave; a response may be lost, and a crash may come at any time.
* `Coin`: delivery and recovery. The retry timer is not fair: one fan-out and
  the answers have to be enough.
* `PoolCert`, `Validation`: delivery and the timers of their bounded retries; not
  the eligibility coin.
* `ProposerSlots`: workers and senders; neither timers nor certification.
* `Decision`: `FinalizeDecision` is called, a member that still answers is heard
  (the caller repeats its request), a handoff that was broadcast arrives. A
  share that nobody repeats may be lost.
* `ScalarExchange`: timers fire, calls that can end do and outputs between correct
  members arrive; nobody's context has to end and no service has to close. With no
  more than this a member may use up its rounds before any answer is there, in the
  code too. `ExchangeCompletes` is therefore about the scenario `prompt`, in which a
  member repeats its output only when what it has sent to the members it misses has
  arrived and their answers have (`Prompt`): what holds where a round trip takes less
  than the shortest retry delay, 250 ms (`cvControlRetryIntervalScalar`). The code
  does not enforce it, and no other property assumes it.
* `Receipts`: hosts go on, tickers recur, links are reliable.
* `LaneAcks`: sends return, correct receivers that were reached acknowledge, the
  grace ends.
* `HolderService`, `Transport`, `EpochBarrier`: goroutines and processes run; the
  deviating process need not.
* Practical-ADKR: goroutines run and exchanges between correct members that are
  both up take place; deadlines need not expire.

Delivery rests on the transport, which dials once more after a failed write;
`LostOnlyByBreak` says what remains: a message whose write succeeded is lost only
with its connection.

## 4. Findings

* `aba_termination`: when a node sends its own CONF, line 181 of
  `aba_equivalent.go` replaces the votes it holds for the same values by its own,
  so that votes of faster peers are forgotten; with `n-f` live nodes it waits for
  ever. The ACS tests expect all live nodes to finish with one silent peer.
* `rc_retained`: `runEquivalent` cancels dispersal workers when QuitPD returns and
  drops what they hold, against the comment that they "continue retaining shards
  and locks for RC"; with the default fanout fewer than `n-2f` stripes of a locked
  value may be left without any fault.
* `dxt_ack`: `handleLane` stores a second lane of a dealer over the one it has
  acknowledged, against "an ACK must imply that this receiver can later recover
  its own plaintext lane locally". It takes a faulty dealer that sends two lanes.
* `apdb_lost`: a requester counts a holder as asked once a request has been sent,
  so a lost response is never asked for again, against "the sender's normal retry
  path remains responsible for retransmission if the first response is lost".

Observations without a run of their own:

* The thresholds of the scalar path (`cvDeriveScalarParams`,
  `cv_sapvss_scalar_params.go:34`) are accepted for every `n >= 3f+1`, with a lock
  of `2f+1` signatures whatever `n` is (line 69 and on). For `n > 3f+1` two such
  sets need not share a correct member: with `n = 5`, `f = 1` a faulty dealer can
  lock two roots, and two members that recover, each under another lock, get
  different payloads. Each recovery agrees with the lock it was asked for; that all
  recoveries of a dealer agree (`RecoveryAgreement`) is proved, and holds, for
  `n = 3f+1` only.
* A faulty receiver that repeats its acknowledgement can fill the channel of
  `CollectAPVSSLaneACKs`, which has one place per receiver and is not read until all
  offers have returned: the acknowledgements of correct receivers are then dropped
  and never sent again, and a dealer left with too few waits until its context ends.
  The run `services` reaches such states. What holds, and is proved, is that receivers
  are crowded out only by as many repetitions (`NoneCrowdedOut`) and that a dealer
  waits for no other reason (`LanesEnd`). No doc or comment claims more.
* A member that has its key keeps its service for twice the send timeout, 600 ms by
  default (`cvRecoverServiceGraceScalar`), while another may still be repeating its
  output, over 3.75 s, or yet recovering the aggregate; the comment at
  `cv_sapvss_epoch_scalar.go:203` calls the grace one for "stragglers" without a
  promise. Who comes too late for a threshold of open services fails, however
  reliable the links are: `FailsAlone` allows exactly that.
* The fan-out of a proposer's own candidate is cancelled when its epoch takes
  that candidate from its channel (`fanoutCandidateScalar`), so peers may be left
  unserved; `CandidateSpreads` therefore starts from the first other member that
  has accepted.
* In another proposer's slot a validator ends with an error as soon as the
  validation result arrives, because `publishLocallyCertifiedCandidateScalar` is
  for the proposer itself. If the results of all proposers come before all
  candidates the member aborts the epoch (`GiveUp`); `GivesUpOnResultsOnly` says
  that nothing less makes it abort.
* The comment on `cvDecisionRetryBudgetScalar` says that the same setting widens
  the linger of members that have decided; the linger is
  `cvDecisionResponderGraceScalar`, zero by default. `AllFinalize` holds all the
  same, because handoffs carry the certificate to latecomers.
* Every decision share is answered with the local one, a repeated one too
  (`handleDecisionShare`), and so is every scalar output; the coin keeps a record
  of whom it has answered, which is what `TrafficEnds` depends on. `EchoBounded`
  says that outputs at least do not multiply.
* The first process to accept in partial verification cancels its sends, so only
  `SomeoneVerifies` holds, not that everybody does. For the same reason the last
  hosts that register for receipts may wait for good (`FirstsFinish`).

## 5. Proofs

For all committees with `n >= 3f+1`, any set of at most `f` faulty members, and any
bounds on rounds, repetitions, crashes, queues and channels: the theorems are
about the specifications that the runs check, with no constant fixed and without
the state constraints of the runs; the theorems about the decision are about
`Decision`'s own `Spec`, without the case distinction by which `services` breaks
symmetry.

### 5.1 Assumptions

Each module states what it takes of its constants, and TLC evaluates all of it in
the runs.

* Who is faulty: `RoundsAssumption` and `ABAAssumption` (a finite set of nodes,
  thresholds), `PDAssumption` (in addition, nodes that stop count among the `f`, which
  is why `MCDispersal` gives `MaxCrash` of the leader's scenario the value `F`),
  `CommitteeAssumption` for both programs' committees, `BarrierAssumption` (more
  processes than `2f`), `ReceiptAssumption` (more than `t` hosts take part),
  `LaneAssumption` (at most `Degree` faulty receivers, fewer than all, and how many
  acknowledgements a leaf needs), `ExchangeAssumption` (a finite new committee),
  `CoinAssumption` (a finite committee; no bound on who is faulty in it).
* `ValidationAssumption`: the faulty validators of the sample are fewer than a
  certificate needs. Sampling makes this likely and does not guarantee it.
* Shapes and bounds: `RCAssumption` and `OutcomesAssumption` (fanouts; which leaders
  complete), `PoolAssumption`, `SlotsAssumption`, `DecisionAssumption`,
  `APDBAssumption`, `ComponentAssumption`, `MaterializeAssumption`,
  `DealingAssumption`, `PartialAssumption`, `DispersalAssumption`, `KeysAssumption`,
  `RecastAssumption`, `PracticalCoinAssumption`, `HolderAssumption`,
  `TransportAssumption`: samples are parts of the committee, a roster names every
  member once, a correct dealer's value is one of the values, counters are numbers,
  markers such as `None` are no value, and a holder has a worker and room in its
  queues (`cv_sapvss_apdb_network_scalar.go:655`).

Some theorems have hypotheses of their own.

* `CertifiedIsKeptCorrect` asks for `n = 3f+1` (section 4; `StoredForEveryCommittee`
  is the part of it that needs no such thing).
* `StagesArriveCorrect` and `StagesEndCorrect` ask for `StagesFit`: what a
  Practical-ADKR run needs of its configuration in order to end. A dealer can get
  `n-f` receipts, the services of the recast outlive their runs, the channel of coin
  shares has room for what faulty members send in addition and for answers that got
  lost (`PracticalCoin`), and `f+1` correct members give their sends the time.
  `StagesEndCorrect` also asks for `InterpolationExact`: interpolating any `n-f` shares
  of the polynomial gives its value at 0 and all shares. The prover cannot see this of
  a fold. TLC evaluates both for the instance of the run, as the assumption
  `InstanceFits` of `MCPractical`.

### 5.2 Theorems and inductive invariants

* `ABARoundsProofs`: `TypeCorrect`, `LockCorrect`, `AgreementCorrect`,
  `ValidityCorrect`. Neither agreement nor the lock is inductive: a decision of an
  earlier round constrains later ones only through the messages in between. `Inv`
  adds where messages come from: nodes send one CONF per round (`OneCONF`), bins
  and CONFs name values that a correct node proposed, a single outcome has a
  quorum of CONFs (`OutcomeJustified`), an EST of a later round comes from the
  coin or from such a quorum of the round before (`EstOrigin`), and every proposed
  value was proposed in all earlier rounds (`EstChain`). Two quorums meet in a
  correct node (`QuorumsMeet`), so one value per round is confirmed alone
  (`ConfUnique`), and once it equals the coin nothing else is ever proposed
  (`NothingElseLater`).
* `ABAProofs`: `TypeCorrect` and `ImplementsRoundsCorrect`, the refinement of
  `ABARounds` by the loop of `runABA`: initial states map to initial states, and
  each turn of the loop is one step of the quorum-level waits or none. The mapping
  needs `CountsClaims` (whom a node counts in the current round has sent the
  message or is faulty), which is what makes a local count an `Absorb` of the
  abstract specification, and `CoinDecided` (who asks for the coin has confirmed
  values), which is what the outcome is computed from. Agreement and validity of
  `ABA` follow with `ABARoundsProofs`; the prover cannot cite a theorem of an
  instantiated module, so this last step is not a theorem of its own.
* `DispersalProofs`: `PDTypeCorrect`, `CertifiedRootHoldsCorrect`, `RCTypeCorrect`,
  `RCAgreementCorrect` for one leader; `TypesOKCorrect` and `QuitJustifiedCorrect`
  for the three scenarios of `MCDispersal`. `PDInv` says that a node signs what it
  holds (`SharesHeld`), that collected shares exist (`SharesExist`) and that behind
  every lock stands a STORED certificate (`LocksCertified`); `RCInv` carries the
  certificate to the value a node returns (`RCRootsCertified`). Two certificates
  share a correct node, which signs one root. `QuitInv` says that behind a
  FINISH stands a correct READY and behind that `n-f` proofs.
  `DispersalSettlesCorrect` needs in addition who gets things going: a leader has
  served its ring as far as its timer has run, collections end at `n-f`, and a worker
  that returns has stripe and lock (`LeaderInv`); who has enough proofs or READYs has
  passed them on, and nobody leaves without a FINISH (`QuitCounts`).
* `ExchangesProofs`: `CertifiedPoolUniqueCorrect`, `CertifiedPoolBackedCorrect`,
  `CoinAfterCertificateCorrect` (`PoolInv`: a member has signed only the pool it
  holds, certificates, also those kept unverified, are signed by `n-f` if they
  verify, the coin is joined only with a certificate); `CertifiedSoundCorrect`,
  `ValidationTypeCorrect` (`ValidationInv`: what a correct validator signed it has
  verified, and behind every result on its way and every kept certificate stand
  enough signers); `OutputsStandCorrect` and `TypesOKCorrect`. That outputs do not
  multiply (`EchoBounded`) is not inductive, as it does not know who may still
  send: `WireBudget` bounds what two members have under way by the rounds each has
  sent of its own accord in the runs between crashes. `OutputOnItsWay`: a pending
  member has the output of every open one, or something is under way between the two;
  so whoever gives up has the outputs of all with which nothing is (`QuietHeard`), and
  `FailsAlone` is proved as a property of that step (`GivesUpStep`). `SignersJoinCorrect`, `SignersLearnCorrect` and, from both,
  `SignersEndUpCorrect`: `CertificatesKept` and `RecordsKept` say that the one
  certificate of a correct proposer is on its way to a member or has been taken there,
  that who has pool and certificate has looked at it, and that a validator in a
  certificate has the result before it or has kept the certificate.
* `ServicesProofs`: `CertifiedIsKeptCorrect`, `StoredForEveryCommittee`,
  `DealersKeptCorrect`, `HandoffAgreementCorrect`, `CertificateDurableCorrect`,
  `DecisionTypeCorrect`, `TypesOKCorrect`. What survives a crash is the disk, so
  each invariant ties signatures to it: `SharesStored`, `LocksSigned`,
  `ResultsDecoded` for a payload; `SignersKeep`, `CertsKept`, `AcksOnce`,
  `CallsUnderWay` for components; `SharesOnDisk`, `AttemptsSeen` for aggregates;
  `SignedRecorded`, with `ValueRecorded` to carry it from the record to the
  signature, for decisions. `AcksOnce` bounds the channel of a component by the
  members that may still write into it. `AcksCounted` bounds the channel of the lanes by
  the receivers that have acknowledged and the repetitions, less what was dropped. `ServicesSettleCorrect`: while no response is
  lost, a requester that collects has `f+1` shards in hand or to come
  (`ShardsComing`); until the dealer ends, the acknowledgement of a correct receiver
  that was reached is under way, in the channel, counted or dropped (`AcksComing`); an aggregate
  that a member has verified and knows to be certified has been offered to its loop
  (`OfferedOrTaken`); and while nobody crashes, the handoffs under way are those of the
  members that have finished (`HandedOff`).
* `PracticalProofs`: `TypesOKCorrect`, `KeysOpenCorrect`, `StagesAgreeCorrect` for the
  six stages, one invariant each (`StagesInv` is their conjunction). `DealingInv`
  says that a correct dealer has one vector and that signatures stand for stored
  shares; `PartialInv` that an accepted result of a correct verifier is the bit it
  has found; `RecastInv` that a recipient has nothing or the certified transcript;
  `DispersalInv` that a certificate of a correct dealer is of its root and stored by
  `n-2f` correct members, and that the decision names a dealer once; `CoinInv` that
  an answered share is in the channel, or was taken or is no longer needed.
  `StagesArriveCorrect` and `StagesEndCorrect` add, stage by stage, why nobody waits in
  vain (`StagesSettling`). In partial verification the windows of a ring cover every
  lane (`LanesCovered`, from the arithmetic of `ModRange`, `NoMultiple`, `ModOne` and
  `ModWrap`), and with valid transcripts nobody times out before somebody has verified
  (`PartialSettling`). In recast the `n-f` holders that are active for a recipient
  (`ActiveHolders`) and the certified ones share enough correct members, whose
  listeners stay open (`RecastSettling`); dispersals take certificates up to a quorum,
  a dealer's own included unless there is no room (`CertificatesTaken`); a collector
  has its own key share, and who has derived its keys has ended its sends
  (`KeysSettling`). For the coin, `SharesCounted` bounds what is in a member's channel
  and collector by who was answered, `SendersStay` says that who is through has
  answered whoever still needs shares, and `OwnIsHeld` where the own share is
  (`CoinSettling`); the bound leaves room in the channel until there are enough.
* `NodeProofs`: `TypesOKCorrect`, `HandledOnceCorrect`, `PassersAgreeCorrect`,
  `OpenStaysPooledCorrect`, `RuntimeSettlesCorrect` for what the protocols run on,
  `ProposerKeepsCandidateCorrect`, `GivesUpOnResultsOnlyCorrect` for the proposer
  slots, and `CandidatesSettleCorrect` for candidates and the coin. `HolderInv`
  counts, for every request, the jobs in the queues and at the workers and equates
  them with the entry of the table, whatever the order of requests, cancellations and
  answers; `TransportInv` says that a message is on one
  wire at most, put there when its `Send` is about to succeed, and gone when it
  has arrived; `ConnsInUse` that who evicts a connection has closed it;
  `BarrierInv` that a scan has counted markers that are there, and that a barrier
  was passed with more than half of the markers. Only the barrier needs a bound on
  how many deviate. At rest, `LocksHeld` says that a lock of the transport has an
  owner that waits for no lock behind it, and `BuildersThere` that what a holder builds
  has a worker that builds it. `AcknowledgedKept` says that an acknowledged candidate is queued,
  dropped or accepted; `SharesComing` that of two members that have entered the coin
  the one that still collects has the other's share, or it is under way, or the other
  has yet to answer its own: the record of who was answered holds back no share that
  is needed.
* `QuorumLemmas`: quorums meet in a correct node; maxima of finite sets of numbers;
  the first elements of a set; counting along injections and images.

### 5.3 Only model-checked

* Everything temporal (fairness is out of the prover's reach):
  `FirstRoundConfirms`, `TrafficEnds`, `ExchangesFinish`, and `StoredIsServed` and
  `SeriesEnds` of `RuntimeServes`. Likewise that the components at rest do come to
  rest, and that `...AtRest` is where `...Progress` is not ENABLED.
* What recursive functions and folds compute (induction over data is out of reach
  too): `Field`, `Group`, `Sharing`, `CompactProofs` and `LeafEvidence`, that is
  `EvidenceOpens`, `KeyIsOne` and the `TypesOK` of `candidates`, whose types contain
  computed elements; and `InterpolationExact`.

## 6. What is not modelled

* Hashes, signatures, subgroup checks, Paillier and byte encodings: they are taken
  to be sound and unforgeable. The verification equations of sharings, range
  proofs and leaves are modelled over formal group elements, with a prover that
  knows no relation between the bases and cannot predict a challenge.
* Key generation, setup bundles and sampling: that a sample contains enough correct
  members is a probability bound; samples are parameters.
* The MVBA loop over views, its router's buffers and RC-prepare, the share
  collection of its coin, and the ACS: the sub-protocols are modelled, and they take
  ordered, buffered mailboxes from the router. The adapters of both programs to it.
* Prewarming, caches of recovered payloads, the pull of a whole aggregate, the
  catalog of components and the crypto queue of the network service.
* The sequence of phases of an epoch, or of a Practical-ADKR run, as one model: each
  phase is checked from every state its predecessor may leave instead.
* `cv_sapvss_m4.go`, which runs the earlier services in one process; benchmark
  command lines, statistics, deployment.
* Framing and partial reads of a connection. A frame of which a part was written
  before an error, and a leader's STORED share over another root that spoils a
  recovery (`pd_equivalent.go:199`), are hazards without a property: no statement
  of the repository says what should happen.
* Further exposures without a run: the echo of decision shares
  (`cv_sapvss_apdb_network_scalar.go:4160`); in the earlier services, claims that
  are only in memory (`cv_sapvss_component_service.go:944`) and members that wait
  for the signatures of a superseded pool (`cv_sapvss_aggregate_service.go:1017`).

## 7. Plan

1. `MVBALoop` with `QuitPD`, `ABARounds` and `RC` as parts, and an abstract
   specification of validated agreement.
2. The epoch as a whole over the promises of its phases.
