------------------------ MODULE PracticalDispersal ------------------------
(***************************************************************************)
(* Dispersal of the transcripts in Practical-ADKR, up to the agreement on  *)
(* a set of them: startNetworkAPDBService, runNetworkRSAPDB and their      *)
(* handlers (src/experiments/practical-adkr/core/apdb_network.go), and the *)
(* two phases of RunPracticalADKR (adkr.go) around them.                   *)
(*                                                                         *)
(* A request is repeated until it is answered, so an exchange is a step of *)
(* both ends.  A commitment root stands for the transcript dispersed under *)
(* it; a faulty dealer may disperse several.                               *)
(***************************************************************************)
EXTENDS Committee

CONSTANTS CommitRoots, \* commitments a faulty dealer may disperse
          DealtRoot,   \* the one of a correct dealer's transcript
          Answering,   \* sets of holders that may answer a dealer first
          MaxSpoiled   \* correct dealers that get a bad threshold share

ASSUME DispersalAssumption ==
    /\ IsFiniteSet(CommitRoots) /\ DealtRoot \in CommitRoots
    /\ Answering \subseteq SUBSET Old
    /\ \A S \in SUBSET (Old \X CommitRoots) : S # None

VARIABLES
    dPhase,     \* how far RunPracticalADKR of a process is
    dStored,    \* persisted shards of a holder, by dealer and root
    dSpoiled,   \* dealers that got a bad threshold share
    dCertified, \* certificates that exist
    dCerts,     \* certificates a process has: dealer and root
    dDecided    \* certificates in the decided payload of the MVBA

dispersalVars == <<dPhase, dStored, dSpoiled, dCertified, dCerts, dDecided>>

\* apdbCertificateThreshold and need: n-f.
ReceiptThreshold == Cardinality(Old) - F

\* apdbFinishedSetThreshold.
FinishedThreshold == IF 2 * F + 1 > Cardinality(Old) THEN Cardinality(Old) ELSE 2 * F + 1

DispersalInit ==
    /\ dPhase = [p \in Correct |-> "deal"]
    /\ dStored = [h \in Correct |-> {}]
    /\ dSpoiled = {} /\ dCertified = {}
    /\ dCerts = [p \in Correct |-> {}] /\ dDecided = None

\* The persistent service of a process listens.
ServiceOpen(p) == p \in Correct => dPhase[p] \in {"probe", "disperse", "agree"}

\* startNetworkAPDBService.
StartDispersal(p) ==
    /\ dPhase[p] = "deal" /\ dPhase' = [dPhase EXCEPT ![p] = "probe"]
    /\ UNCHANGED <<dStored, dSpoiled, dCertified, dCerts, dDecided>>

\* waitNetworkAPDBReady: n-f services answer.
ServicesReady(p) ==
    /\ dPhase[p] = "probe" /\ Cardinality({q \in Old : ServiceOpen(q)}) >= ReceiptThreshold
    /\ dPhase' = [dPhase EXCEPT ![p] = "disperse"]
    /\ UNCHANGED <<dStored, dSpoiled, dCertified, dCerts, dDecided>>

\* acceptNetworkAPDBShard: every holder of a set persists its shard before
\* it signs the receipt for it.
AcceptShard(Q, c) ==
    dStored' = [h \in Correct |-> IF h \in Q THEN dStored[h] \cup {c} ELSE dStored[h]]

\* The receipts a certificate is made of: of n-f holders.
EnoughReceipts(Q) == Cardinality(Q) >= ReceiptThreshold

\* The shards of a faulty dealer, for holders that are in reach.
FaultyDeals(Q, c) ==
    /\ EnoughReceipts(Q) /\ \A h \in Q : ServiceOpen(h)
    /\ \A h \in Correct : c \notin dStored[h]
    /\ AcceptShard(Q, c)
    /\ UNCHANGED <<dPhase, dSpoiled, dCertified, dCerts, dDecided>>

\* The loop of runNetworkRSAPDB takes certificates until there are 2f+1.
Taken(certs, c) == IF Cardinality(certs) < FinishedThreshold THEN certs \cup {c} ELSE certs

\* disperseNetworkAPDBDealer: the first n-f receipts of a correct dealer.
\* It verifies their signatures, but not the threshold shares they carry:
\* a bad one spoils the recovered signature, and the dealer has none.
Disperse(d, Q, spoiled) ==
    /\ dPhase[d] = "disperse" /\ d \notin dSpoiled /\ <<d, DealtRoot>> \notin dCertified
    /\ EnoughReceipts(Q) /\ \A h \in Q : ServiceOpen(h)
    /\ AcceptShard(Q, <<d, DealtRoot>>)
    /\ IF spoiled
       THEN /\ Q \cap Faulty # {} /\ Cardinality(dSpoiled) < MaxSpoiled
            /\ dSpoiled' = dSpoiled \cup {d} /\ UNCHANGED <<dCertified, dCerts>>
       ELSE /\ dCertified' = dCertified \cup {<<d, DealtRoot>>} /\ UNCHANGED dSpoiled
            /\ dCerts' = [dCerts EXCEPT ![d] = Taken(@, <<d, DealtRoot>>)]
    /\ UNCHANGED <<dPhase, dDecided>>

\* The receipts a faulty dealer can show for a root.
Certifiable(d, r) ==
    d \in Faulty /\ EnoughReceipts({h \in Correct : <<d, r>> \in dStored[h]} \cup Faulty)

\* Certificates a process can be shown: a correct dealer repeats its own
\* until its service closes.
Shown(c) ==
    \/ Certifiable(c[1], c[2])
    \/ c \in dCertified /\ c[1] \in Correct /\ dPhase[c[1]] \in {"disperse", "agree"}

\* Mutant: every certificate of a dealer is kept.
CertArrivesAgain(p, c) ==
    /\ dPhase[p] = "disperse" /\ Shown(c) /\ c[1] # p
    /\ Cardinality(dCerts[p]) < FinishedThreshold
    /\ dCerts' = [dCerts EXCEPT ![p] = @ \cup {c}]
    /\ UNCHANGED <<dPhase, dStored, dSpoiled, dCertified, dDecided>>

\* serveNetworkAPDB, cert: the first certificate of a dealer is kept until
\* there are 2f+1.
CertArrives(p, c) ==
    /\ dPhase[p] = "disperse" /\ Shown(c) /\ c[1] # p
    /\ \A e \in dCerts[p] : e[1] # c[1]
    /\ Cardinality(dCerts[p]) < FinishedThreshold
    /\ dCerts' = [dCerts EXCEPT ![p] = @ \cup {c}]
    /\ UNCHANGED <<dPhase, dStored, dSpoiled, dCertified, dDecided>>

\* runNetworkRSAPDB returns and the process proposes what it has.
Propose(p) ==
    /\ dPhase[p] = "disperse" /\ Cardinality(dCerts[p]) = FinishedThreshold
    /\ dPhase' = [dPhase EXCEPT ![p] = "agree"]
    /\ UNCHANGED <<dStored, dSpoiled, dCertified, dCerts, dDecided>>

\* Payloads validateMVBASetPayload admits: 2f+1 dealers, a valid
\* certificate of each.
ValidPayloads ==
    {S \in SUBSET (dCertified \cup {c \in Faulty \X CommitRoots : Certifiable(c[1], c[2])}) :
        /\ Cardinality(S) = FinishedThreshold
        /\ Cardinality({c[1] : c \in S}) = FinishedThreshold}

\* The certificates of the decision replace those a process has of the
\* same dealers.
Adopt(mine, decided) ==
    decided \cup {c \in mine : \A e \in decided : e[1] # c[1]}

\* Who takes part in the MVBA; a faulty member may.
Participants == Faulty \cup {q \in Correct : dPhase[q] \in {"agree", "agreed"}}

\* The MVBA, an external service here, decides one valid payload once n-f
\* nodes take part; the process adopts its certificates and closes the
\* dispersal service.
Agreed(p) ==
    /\ dPhase[p] = "agree"
    /\ Cardinality(Participants) >= ReceiptThreshold
    /\ \E S \in IF dDecided = None THEN ValidPayloads ELSE {dDecided} :
         dDecided' = S /\ dCerts' = [dCerts EXCEPT ![p] = Adopt(@, S)]
    /\ dPhase' = [dPhase EXCEPT ![p] = "agreed"]
    /\ UNCHANGED <<dStored, dSpoiled, dCertified>>

DispersalNext ==
    \/ \E p \in Correct : StartDispersal(p) \/ ServicesReady(p) \/ Propose(p) \/ Agreed(p)
    \/ \E Q \in Answering, c \in Faulty \X CommitRoots : FaultyDeals(Q, c)
    \/ \E d \in Correct, Q \in Answering, spoiled \in BOOLEAN : Disperse(d, Q, spoiled)
    \/ \E p \in Correct, c \in Old \X CommitRoots : CertArrives(p, c)

\* What is bound to happen: processes run, a dealer gets the receipts of some
\* set of holders, and its certificate arrives.
DispersalProgress ==
    \/ \E p \in Correct : StartDispersal(p) \/ ServicesReady(p) \/ Propose(p) \/ Agreed(p)
    \/ \E d \in Correct, Q \in Answering : Disperse(d, Q, FALSE)
    \/ \E p, d \in Correct : CertArrives(p, <<d, DealtRoot>>)

\* No step of DispersalProgress is left: who is still at it waits for
\* services, receipts, certificates or participants that do not come.
DispersalAtRest ==
    \A p \in Correct :
        /\ dPhase[p] # "deal"
        /\ dPhase[p] = "probe" => Cardinality({q \in Old : ServiceOpen(q)}) < ReceiptThreshold
        /\ dPhase[p] = "disperse" =>
              /\ Cardinality(dCerts[p]) # FinishedThreshold
              /\ \/ p \in dSpoiled \/ <<p, DealtRoot>> \in dCertified
                 \/ \A Q \in Answering : EnoughReceipts(Q) => \E h \in Q : ~ServiceOpen(h)
              /\ \/ Cardinality(dCerts[p]) > FinishedThreshold
                 \/ \A d \in Correct \ {p} :
                       Shown(<<d, DealtRoot>>) => \E e \in dCerts[p] : e[1] = d
        /\ dPhase[p] = "agree" =>
              \/ Cardinality(Participants) < ReceiptThreshold
              \/ dDecided = None /\ ValidPayloads = {}

-----------------------------------------------------------------------------
\* Types of the variables; a process never has two certificates of a dealer.
DispersalTypeOK ==
    /\ dPhase \in [Correct -> {"deal", "probe", "disperse", "agree", "agreed"}]
    /\ \A p \in Correct : \A c, e \in dCerts[p] : c[1] = e[1] => c = e

\* The processes that are past the agreement recover every decided dealer
\* under one and the same commitment, also when the dealer has certificates
\* of several.
SameCommitments ==
    \A p, q \in Correct : dPhase[p] = "agreed" /\ dPhase[q] = "agreed" =>
        \A c \in dCerts[p], e \in dCerts[q] :
            c[1] = e[1] /\ (\E x \in dDecided : x[1] = c[1]) => c = e

\* Of every decided commitment n-2f correct holders have their shard on disk.
DecidedStored ==
    dDecided # None => \A c \in dDecided :
        Cardinality({h \in Correct : c \in dStored[h]}) >= Cardinality(Old) - 2 * F

\* Nothing goes wrong for a correct dealer, and no process holds a
\* certificate of a faulty one.
OnlyCorrectDealers ==
    dSpoiled = {} /\ \A p \in Correct : \A c \in dCerts[p] : c[1] \in Correct

\* As long as only the correct dealers count, some correct process gets
\* through the dispersal and the agreement.
DispersalEnds ==
    OnlyCorrectDealers /\ DispersalAtRest =>
        \E p \in Correct : dPhase[p] = "agreed"
=============================================================================
