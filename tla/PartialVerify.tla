---------------------------- MODULE PartialVerify ----------------------------
(***************************************************************************)
(* The distributed verification of the recovered transcripts:              *)
(* runPartialVerificationMulticast of                                      *)
(* src/experiments/practical-adkr/core/partial_verify_multicast.go.        *)
(*                                                                         *)
(* A verifier checks the lanes of its window, 2f+1 consecutive members,    *)
(* of every selected transcript and multicasts one signed bit for each of  *)
(* them.  A process accepts the transcripts when every lane has f+1        *)
(* positive votes, and then cancels whatever it still has to send.         *)
(***************************************************************************)
EXTENDS Committee, Sequences

CONSTANTS Ring,      \* the new committee in its order
          Selected,  \* the dealers the coin has selected
          BadLanes   \* which lanes may be invalid: sets of dealer and lane

\* The roster names every member once.
ASSUME PartialAssumption ==
    /\ BadLanes \subseteq SUBSET (Selected \X Old)
    /\ Ring \in Seq(Old) /\ Len(Ring) = Cardinality(Old)
    /\ \A p \in Old : \E k \in 1 .. Len(Ring) : Ring[k] = p

VARIABLES
    pvBad,    \* the invalid lanes of the transcripts recovered
    pvStage,  \* how far the verification of a process is
    pvSent,   \* who has written its results to whom
    pvSeen    \* results accepted: seen and positive of a process

partialVars == <<pvBad, pvStage, pvSent, pvSeen>>

RingPlaces == 1 .. Len(Ring)

\* partialLaneIDs: the window of each verifier.
Windows ==
    [p \in Old |->
        LET i == CHOOSE k \in RingPlaces : Ring[k] = p
        IN  {Ring[((i + k - 1) % Len(Ring)) + 1] : k \in 0 .. 2 * F}]

Window(p) == Windows[p]

\* The check before anything is sent: each lane is in 2f+1 windows.
Covered == \A lane \in Old : Cardinality({p \in Old : lane \in Window(p)}) >= 2 * F + 1

\* partialVerifyLanesPrevalidated: the bit verifier p signs for a dealer.
LanesValid(p, dealer) == \A lane \in Window(p) : <<dealer, lane>> \notin pvBad

\* positive[dealer][lane] of a process.
Positive(p, dealer, lane) ==
    Cardinality({m \in pvSeen[p] : m[2] = dealer /\ m[3] /\ lane \in Window(m[1])})

\* complete.
AllLanesVoted(p) ==
    \A dealer \in Selected, lane \in Old : Positive(p, dealer, lane) >= F + 1

PartialInit ==
    /\ pvBad \in BadLanes
    /\ pvStage = [p \in Correct |-> "before"]
    /\ pvSent = {} /\ pvSeen = [p \in Correct |-> {}]

\* Mutant: a process does not count its own results.
VerifyWindowForOthers(p) ==
    /\ pvStage[p] = "before" /\ Covered
    /\ pvStage' = [pvStage EXCEPT ![p] = "multicast"]
    /\ UNCHANGED <<pvBad, pvSent, pvSeen>>

\* A process verifies its windows and accepts its own results.
VerifyWindow(p) ==
    /\ pvStage[p] = "before" /\ Covered
    /\ pvStage' = [pvStage EXCEPT ![p] = "multicast"]
    /\ pvSeen' = [pvSeen EXCEPT ![p] =
         {<<p, dealer, LanesValid(p, dealer)>> : dealer \in Selected}]
    /\ UNCHANGED <<pvBad, pvSent>>

\* A send goroutine of p has written p's results to q.
SendResults(p, q) ==
    /\ pvStage[p] = "multicast" /\ q # p /\ <<p, q>> \notin pvSent
    /\ pvSent' = pvSent \cup {<<p, q>>}
    /\ UNCHANGED <<pvBad, pvStage, pvSeen>>

\* The signed results in the channel of process q: those of the correct
\* verifiers that have written to it, and any result of a faulty one.
Results(q) ==
    {m \in Correct \X Selected \X BOOLEAN :
        <<m[1], q>> \in pvSent /\ m[3] = LanesValid(m[1], m[2])}
    \cup (Faulty \X Selected \X BOOLEAN)

\* acceptSingle: the first result of a verifier on a dealer counts.
Accept(q, m) ==
    /\ pvStage[q] = "multicast" /\ m \in Results(q)
    /\ \A s \in pvSeen[q] : s[1] # m[1] \/ s[2] # m[2]
    /\ pvSeen' = [pvSeen EXCEPT ![q] = @ \cup {m}]
    /\ UNCHANGED <<pvBad, pvStage, pvSent>>

\* The loop ends, and cancel() ends the send goroutines that have not
\* written yet.
Complete(p) ==
    /\ pvStage[p] = "multicast" /\ AllLanesVoted(p)
    /\ pvStage' = [pvStage EXCEPT ![p] = "verified"]
    /\ UNCHANGED <<pvBad, pvSent, pvSeen>>

\* The context of the stage expires: it is long enough for what the correct
\* processes still send and read.
StageTimeout(p) ==
    /\ pvStage[p] = "multicast" /\ ~AllLanesVoted(p)
    /\ \A q, r \in Correct :
         /\ pvStage[q] # "before"
         /\ pvStage[q] = "multicast" /\ q # r => <<q, r>> \in pvSent
         /\ pvStage[q] = "multicast" /\ <<r, q>> \in pvSent
              => \A dealer \in Selected : \E s \in pvSeen[q] : s[1] = r /\ s[2] = dealer
    /\ pvStage' = [pvStage EXCEPT ![p] = "timeout"]
    /\ UNCHANGED <<pvBad, pvSent, pvSeen>>

PartialNext ==
    \/ \E p \in Correct : VerifyWindow(p) \/ Complete(p) \/ StageTimeout(p)
    \/ \E p, q \in Correct : SendResults(p, q)
    \/ \E q \in Correct, m \in Old \X Selected \X BOOLEAN : Accept(q, m)

\* What is bound to happen: processes run, and results that correct processes
\* send each other arrive.
PartialProgress ==
    \/ \E p \in Correct : VerifyWindow(p) \/ Complete(p)
    \/ \E p, q \in Correct : SendResults(p, q)
    \/ \E q, p \in Correct, dealer \in Selected :
          Accept(q, <<p, dealer, LanesValid(p, dealer)>>)

\* No step of PartialProgress is left: what can be sent and accepted is.
PartialAtRest ==
    \A p \in Correct :
        /\ pvStage[p] = "before" => ~Covered
        /\ pvStage[p] = "multicast" =>
              /\ ~AllLanesVoted(p) /\ \A q \in Correct \ {p} : <<p, q>> \in pvSent
              /\ \A q \in Correct, dealer \in Selected :
                    <<q, p>> \in pvSent => \E s \in pvSeen[p] : s[1] = q /\ s[2] = dealer

-----------------------------------------------------------------------------
\* Types of the variables; a verifier has one accepted result on a dealer.
PartialTypeOK ==
    /\ pvBad \in SUBSET (Selected \X Old)
    /\ pvStage \in [Correct -> {"before", "multicast", "verified", "timeout"}]
    /\ pvSent \subseteq Correct \X Correct
    /\ pvSeen \in [Correct -> SUBSET (Old \X Selected \X BOOLEAN)]
    /\ \A p \in Correct : \A a, b \in pvSeen[p] : a[1] = b[1] /\ a[2] = b[2] => a = b

\* A process that ends the stage has a correct verifier behind every lane:
\* all lanes of the selected transcripts are valid, whatever the faulty
\* verifiers have signed.
VerifiedSound == (\E p \in Correct : pvStage[p] = "verified") => pvBad = {}

\* When the transcripts are valid, some correct process gets through: the
\* cancellations of the ones that finish early never leave everybody waiting
\* with nothing left to happen.
SomeoneVerifies ==
    pvBad = {} /\ PartialAtRest => \E p \in Correct : pvStage[p] = "verified"
=============================================================================
