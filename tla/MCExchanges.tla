----------------------------- MODULE MCExchanges -----------------------------
(***************************************************************************)
(* The exchanges of an epoch, each on its own: the certification of a pool *)
(* and of an aggregate (four members, f = 1), the scalar exchange of the   *)
(* new committee and the exchange of receipts.  A behaviour is one of one  *)
(* exchange; the scalar exchange runs with timers of any speed and, apart, *)
(* with prompt messages.                                                   *)
(***************************************************************************)
EXTENDS PoolCert, Validation, ScalarExchange, Receipts

VARIABLE scenario

allVars == <<scenario, vars, validationVars, exchangeVars, receiptVars>>

In(s) == scenario = s

\* A component that is not the scenario stays in one of its initial states.
MCInit ==
    /\ scenario \in {"pool", "validation", "scalars", "prompt", "receipts"}
    /\ Init /\ ValidationInit /\ ExchangeInit /\ ReceiptInit
    /\ ~In("pool") => proposer \in Correct
    /\ ~In("validation") => vProposer \in Correct

\* Messages are prompt: a member repeats its output only when what it has sent
\* to the members it misses has arrived, and their answers have.
Prompt ==
    \A i, j \in NewCorrect :
        xAttempt'[i] > xAttempt[i] /\ j \notin xOutputs[i] => Quiet(i, j)

\* The scalar exchange, with timers of any speed or with prompt messages.
Exchanging == In("scalars") \/ In("prompt")

MCNext ==
    /\ UNCHANGED scenario
    /\ \/ /\ In("pool") /\ Next
          /\ UNCHANGED <<validationVars, exchangeVars, receiptVars>>
       \/ /\ In("validation") /\ ValidationNext
          /\ UNCHANGED <<vars, exchangeVars, receiptVars>>
       \/ /\ Exchanging /\ ExchangeNext /\ (In("prompt") => Prompt)
          /\ UNCHANGED <<vars, validationVars, receiptVars>>
       \/ /\ In("receipts") /\ ReceiptNext
          /\ UNCHANGED <<vars, validationVars, exchangeVars>>

-----------------------------------------------------------------------------
\* Outputs between correct members arrive, timers fire and calls that can end
\* do.
ExchangeFairness ==
    /\ WF_exchangeVars(/\ Exchanging /\ \E i \in NewCorrect : ExchangeEnds(i) \/ Repeat(i)
                       /\ (In("prompt") => Prompt))
    /\ \A i, j \in NewCorrect : WF_exchangeVars(Exchanging /\ OnOutput(i, j))

\* Hosts get through their steps, ticks recur and links are reliable.
ReceiptFairness ==
    /\ WF_receiptVars(/\ In("receipts")
                      /\ \E p \in LiveHosts :
                            \/ PrepareReceipts(p) \/ RegisterExchange(p)
                            \/ StartExchange(p) \/ FinishExchange(p)
                            \/ \E q \in Hosts : ShardRecovered(p, q))
    /\ \A p \in LiveHosts :
          /\ WF_receiptVars(In("receipts") /\ Rebroadcast(p))
          /\ \A q \in LiveHosts : WF_receiptVars(In("receipts") /\ ReceiptArrives(p, q))

MCSpec ==
    /\ MCInit /\ [][MCNext]_allVars
    /\ WF_vars(In("pool") /\ PoolProgress)
    /\ WF_validationVars(In("validation") /\ ValidationProgress)
    /\ ExchangeFairness /\ ReceiptFairness

-----------------------------------------------------------------------------
TypesOK == TypeOK /\ ValidationTypeOK /\ ExchangeTypeOK /\ ReceiptTypeOK

\* Results are sent once.  Who has signed a pool nevertheless ends up with its
\* certificate and joins the coin, also when the certificate overtook the
\* offer, and a validator whose signature counted learns that it did.
SignersEndUp == SignersJoin /\ SignersLearn

\* The scalar exchange survives crashes and members that leave: what has been
\* released is on disk, the answers to repeated outputs do not multiply, and
\* who comes late gives up only if those that answer have become too few.
OutputsStand == [](ReleasedPersisted /\ EchoBounded) /\ FailsAlone

\* Enough members to share the key, all there: each has finished or has a
\* repetition left.
EnoughMembers == {S \in SUBSET NewCorrect : Cardinality(S) >= ShareThreshold}
AllThere(S) == \A j \in S : j \in xUp /\ (xEnded[j] = "done" \/ xAttempt[j] < MaxSends)

\* One of them has stopped, was cancelled, or has closed its service.
OneLeft(S) == \E j \in S : j \notin xUp /\ xEnded[j] # "failed"

\* With prompt messages a pending member gets the key from any members that are
\* enough and stay.
ExchangeCompletes ==
    \A S \in EnoughMembers : \A i \in S :
        In("prompt") /\ i \in xPending /\ AllThere(S) ~> xEnded[i] = "done" \/ OneLeft(S)

\* Every exchange with a bounded number of attempts gets to its end when an
\* attempt is left once its peers are ready: pool and aggregate certificates,
\* the scalar exchange, and the receipts, for all but the last t hosts.
ExchangesFinish ==
    ProposerCertifies /\ AggregateCertified /\ ExchangeCompletes /\ FirstsFinish
=============================================================================
