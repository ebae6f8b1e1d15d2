----------------------------- MODULE DXTDealing -----------------------------
(***************************************************************************)
(* The dealing phase of Practical-ADKR: DXTBackend.Deal and                *)
(* VerifyTranscript of src/experiments/practical-adkr/core/pvss_dxt.go,    *)
(* the receiver side of dxt_network.go, and the use compProve              *)
(* (comp_proof.go) makes of the shares it stored.                          *)
(*                                                                         *)
(* Process i hosts old node i, a dealer, and new node i, a receiver.  A    *)
(* receiver stores the share of a lane before it signs the lane's          *)
(* commitment; the dealer puts the signatures it collects into its         *)
(* transcript and an encrypted share for everybody else.  A commitment     *)
(* vector that passes the degree check is one value; a faulty dealer may   *)
(* deal several.                                                           *)
(***************************************************************************)
EXTENDS Committee

CONSTANTS Dealers,     \* processes whose dealing is modelled
          Vectors,     \* commitment vectors
          OwnVector,   \* the vector of a correct dealer
          Deriving,    \* processes whose key derivation is modelled
          MaxFaultyLanes, \* bound on the lanes a faulty dealer sends
          Unreliable   \* receivers that start late

ASSUME DealingAssumption ==
    /\ Dealers \subseteq Old /\ Deriving \subseteq Correct
    /\ OwnVector \in Vectors /\ None \notin Vectors

VARIABLES
    dUp,         \* processes whose DXT listeners are open (at first all but the late)
    dStage,      \* how far the dealing of a dealer is
    dShare,      \* service.shares and the files behind it
    dSigned,     \* lanes whose handler goes on to sign
    dAcks,       \* signatures a dealer has verified
    dTranscript, \* transcripts that exist
    dSnapshot,   \* shareSnapshot a process took after its own dealing
    dDerived     \* dealers whose lane compProve could not open

dealingVars == <<dUp, dStage, dShare, dSigned, dAcks, dTranscript,
                 dSnapshot, dDerived>>

\* requiredAcks, and the receivers that must answer the readiness probe.
RequiredAcks == 2 * F + 1

Transcript == [dealer : Dealers, vector : Vectors, signers : SUBSET Old]

DealingInit ==
    /\ dUp = Old \ Unreliable /\ dSigned = {} /\ dTranscript = {}
    /\ dStage = [d \in Dealers |-> "start"]
    /\ dShare = [r \in Correct |-> [d \in Dealers |-> None]]
    /\ dAcks = [d \in Dealers \cap Correct |-> {}]
    /\ dSnapshot = [r \in Deriving |-> None]
    /\ dDerived = [r \in Deriving |-> None]

\* startDXTNetworkService.
StartService(p) ==
    /\ p \notin dUp /\ dUp' = dUp \cup {p}
    /\ UNCHANGED <<dStage, dShare, dSigned, dAcks, dTranscript,
                   dSnapshot, dDerived>>

\* waitForReceiverQuorum: 2f+1 receivers answer the probe of a dealer.
ReceiversReady(d) ==
    /\ dStage[d] = "start" /\ d \in dUp /\ Cardinality(dUp) >= RequiredAcks
    /\ dStage' = [dStage EXCEPT ![d] = "dealing"]
    /\ UNCHANGED <<dUp, dShare, dSigned, dAcks, dTranscript,
                   dSnapshot, dDerived>>

\* storeLocalShare and the map of the service: the newest share of a dealer
\* replaces what was stored.
StoreShare(r, d, v) == [dShare EXCEPT ![r][d] = v]

\* The lane of receiver r under vector v leaves the dealer, once r's listener
\* takes it: a correct dealer has one vector.
CanSendLane(d, r, v) ==
    /\ r \in dUp \cap Correct /\ <<d, r, v>> \notin dSigned
    /\ IF d \in Correct THEN v = OwnVector /\ dStage[d] = "dealing"
       ELSE Cardinality({m \in dSigned : m[1] = d}) < MaxFaultyLanes

\* handleLane: the opened share matches its commitment, so it is written to
\* the disk and to the map, over whatever the dealer sent before, and the
\* signature leaves.
HandleLane(d, r, v) ==
    /\ CanSendLane(d, r, v)
    /\ dSigned' = dSigned \cup {<<d, r, v>>}
    /\ dShare' = StoreShare(r, d, v)
    /\ UNCHANGED <<dUp, dStage, dAcks, dTranscript, dSnapshot, dDerived>>

\* The collector of Deal takes a verified signature (a faulty receiver signs
\* whatever it likes).
CollectAck(d, r) ==
    /\ d \in Correct /\ dStage[d] = "dealing" /\ r \notin dAcks[d]
    /\ r \in Faulty \/ <<d, r, OwnVector>> \in dSigned
    /\ dAcks' = [dAcks EXCEPT ![d] = @ \cup {r}]
    /\ UNCHANGED <<dUp, dStage, dShare, dSigned, dTranscript,
                   dSnapshot, dDerived>>

\* The collector stops: at once when it has enough signatures or after
\* PRACTICAL_DEALING_DELTA_MS, at the latest with everybody's.  Receivers
\* that have not signed get an encrypted share.
Assemble(d) ==
    /\ d \in Correct /\ dStage[d] = "dealing"
    /\ Cardinality(dAcks[d]) >= RequiredAcks
    /\ dStage' = [dStage EXCEPT ![d] = "dealt"]
    /\ dTranscript' = dTranscript \cup
         {[dealer |-> d, vector |-> OwnVector, signers |-> dAcks[d]]}
    /\ UNCHANGED <<dUp, dShare, dSigned, dAcks, dSnapshot, dDerived>>

\* The deadline of the collector comes first; in a strict network there are
\* no local acknowledgements to fall back on.
DealTimeout(d) ==
    /\ d \in Correct /\ dStage[d] = "dealing"
    /\ Cardinality(dAcks[d]) < RequiredAcks
    /\ Cardinality(Unreliable \cup Faulty) > Cardinality(Old) - RequiredAcks
    /\ dStage' = [dStage EXCEPT ![d] = "failed"]
    /\ UNCHANGED <<dUp, dShare, dSigned, dAcks, dTranscript,
                   dSnapshot, dDerived>>

\* VerifyTranscript: at least 2f+1 signatures, each of them of its receiver
\* over this commitment, and a provably encrypted share on every other lane.
VerifyTranscript(t) ==
    /\ Cardinality(t.signers) >= RequiredAcks
    /\ \A r \in t.signers \cap Correct : <<t.dealer, r, t.vector>> \in dSigned

\* A faulty dealer puts together any transcript that verifies, with the
\* signatures of the faulty receivers.
AssembleAny(t) ==
    /\ t.dealer \in Faulty /\ Faulty \subseteq t.signers /\ t \notin dTranscript /\ VerifyTranscript(t)
    /\ \A u \in dTranscript : u.dealer # t.dealer
    /\ dTranscript' = dTranscript \cup {t}
    /\ UNCHANGED <<dUp, dStage, dShare, dSigned, dAcks, dSnapshot,
                   dDerived>>

\* loadOrComputeDistributedDXTCache returns the shares of this moment.
TakeSnapshot(p) ==
    /\ p \in Deriving /\ dSnapshot[p] = None
    /\ p \in Dealers => dStage[p] = "dealt"
    /\ dSnapshot' = [dSnapshot EXCEPT ![p] = dShare[p]]
    /\ UNCHANGED <<dUp, dStage, dShare, dSigned, dAcks, dTranscript,
                   dDerived>>

\* Mutant: the keys are derived from the snapshot.
SharesAtDeriveStale(p) == dSnapshot[p]

\* RunPracticalADKR reads the live store again before the key derivation.
SharesAtDerive(p) == dShare[p]

\* compProve on one transcript: a signed lane needs the stored opening of
\* exactly this commitment, an encrypted one is decrypted.
LaneOpens(shares, p, t) ==
    p \in t.signers => shares[t.dealer] = t.vector

\* The agreement has fixed the transcripts, here all of them; a process
\* derives.
Derive(p) ==
    /\ p \in Deriving /\ dSnapshot[p] # None /\ dDerived[p] = None
    /\ dTranscript # {}
    /\ dDerived' = [dDerived EXCEPT ![p] =
         {t.dealer : t \in {u \in dTranscript : ~LaneOpens(SharesAtDerive(p), p, u)}}]
    /\ UNCHANGED <<dUp, dStage, dShare, dSigned, dAcks, dTranscript,
                   dSnapshot>>

DealingNext ==
    \/ \E p \in Old : StartService(p)
    \/ \E d \in Dealers : ReceiversReady(d) \/ Assemble(d) \/ DealTimeout(d)
    \/ \E d \in Dealers, r \in Old :
         CollectAck(d, r) \/ \E v \in Vectors : HandleLane(d, r, v)
    \/ \E t \in Transcript : AssembleAny(t)
    \/ \E p \in Deriving : TakeSnapshot(p) \/ Derive(p)

DealingSpec == DealingInit /\ [][DealingNext]_dealingVars

-----------------------------------------------------------------------------
\* Types of the variables.
DealingTypeOK ==
    /\ dUp \subseteq Old /\ dStage \in [Dealers -> {"start", "dealing", "dealt", "failed"}]
    /\ dSigned \subseteq Dealers \X Correct \X Vectors
    /\ dShare \in [Correct -> [Dealers -> Vectors \cup {None}]]
    /\ dAcks \in [Dealers \cap Correct -> SUBSET Old]
    /\ dTranscript \subseteq Transcript
    /\ dSnapshot \in [Deriving -> [Dealers -> Vectors \cup {None}] \cup {None}]
    /\ \A t, u \in dTranscript : t.dealer = u.dealer => t = u

\* Whatever the dealing windows of slow dealers still let in after a process
\* has taken its snapshot, and whatever a faulty dealer does meanwhile, a
\* correct process opens its lane of every transcript of a correct dealer:
\* compProve only fails when it uses the transcript of a faulty one.
CorrectDealersOpen ==
    \A p \in Deriving : dDerived[p] # None => dDerived[p] \subseteq Faulty

\* A correct receiver that a verified transcript names as a signer has signed
\* this very vector of the dealer, and holds a share of the dealer, though not
\* always the one of this vector: a later lane may have replaced it.
SignersStored ==
    \A t \in dTranscript, r \in Correct :
        r \in t.signers => dShare[r][t.dealer] # None /\ <<t.dealer, r, t.vector>> \in dSigned

\* "an ACK must imply that this receiver can later recover its own plaintext
\* lane locally" (pvss_dxt.go:429): whoever the dealer is, a correct
\* receiver named as a signer of a verified transcript can open its lane.
AckMeansShare ==
    \A t \in dTranscript, r \in Correct : LaneOpens(dShare[r], r, t)
=============================================================================
