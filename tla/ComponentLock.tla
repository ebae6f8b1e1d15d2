---------------------------- MODULE ComponentLock ----------------------------
(***************************************************************************)
(* The lock of a dealer's component and its retrieval, in the service of   *)
(* src/core/cv_sapvss_component_service.go (disperseComponentWire,         *)
(* handleInit, handleACK, handleGet, handleLeaf, retrieveComponentNetwork) *)
(* and getVerifiedComponent of cv_sapvss_aggregate_service.go.             *)
(*                                                                         *)
(* A holder claims one statement per dealer, stores its shard and signs;   *)
(* n-f signatures are the component's certificate.  Whoever needs the leaf *)
(* joins the one retrieval under way or starts it; it asks everybody and   *)
(* decodes n-2f shards.                                                    *)
(***************************************************************************)
EXTENDS Committee, Sequences

CONSTANTS LeafDealers,        \* dealers looked at, one at a time
          LeafStatements,     \* statements a faulty dealer may send
          OwnStatement,   \* statement of a correct dealer
          BadLeaves,      \* statements whose leaf does not verify
          Retriever,      \* the member whose retrievals are followed
          LeafCallers,    \* goroutines of that member that need a leaf
          CacheMode,      \* RLADKR_RECONSTRUCTED_LEAF_CACHE_MODE
          CacheRoom,      \* room of the writer's queue
          MaxAckCopies    \* signatures one faulty holder sends a dealer

ASSUME ComponentAssumption ==
    /\ LeafDealers \subseteq Old
    /\ OwnStatement \in LeafStatements /\ None \notin LeafStatements

VARIABLES
    clDealer,   \* the dealer of this behaviour
    clSent,     \* INITs sent: dealer, holder, statement
    clClaim,    \* componentStatementByDealer of a holder
    clShards,   \* shardStore of a holder
    clSigned,   \* signatures sent: dealer, holder, statement
    clBuffer,   \* channel of the dealer's pending ACKs
    clTaken,    \* accepted: holders whose ACK the handler has passed on
    clCopies,   \* ACKs of a faulty holder so far
    clLost,     \* holders whose ACK found the channel full
    clShares,   \* shares of the dealer
    clCert,     \* certified statements
    clCall,     \* componentRetrievals of the retriever
    clCaller,   \* state of each caller
    clLeaf,     \* verifiedLeaves of the retriever
    clQueue,    \* reconstructedCacheQueue
    clDisk      \* leaves in the retriever's store

claimVars == <<clDealer, clSent, clClaim, clShards, clSigned, clBuffer, clTaken, clCopies, clLost,
              clShares, clCert>>
leafVars == <<clCall, clCaller, clLeaf, clQueue, clDisk>>
componentVars == <<claimVars, leafVars>>

CorrectDealers == LeafDealers \ Faulty
Comps == {c \in LeafDealers \X LeafStatements : c[1] \in Correct => c[2] = OwnStatement}

ComponentInit ==
    /\ clDealer \in LeafDealers
    /\ clSent = {} /\ clClaim = [h \in Correct |-> [d \in LeafDealers |-> None]]
    /\ clShards = [h \in Correct |-> {}] /\ clSigned = {}
    /\ clBuffer = [d \in CorrectDealers |-> <<>>] /\ clTaken = [d \in CorrectDealers |-> {}]
    /\ clCopies = [d \in CorrectDealers |-> 0] /\ clLost = [d \in CorrectDealers |-> {}]
    /\ clShares = [d \in CorrectDealers |-> {}] /\ clCert = {}
    /\ clCall = [c \in Comps |-> "none"] /\ clCaller = [x \in LeafCallers |-> <<"idle", None>>]
    /\ clLeaf = {} /\ clQueue = <<>> /\ clDisk = {}

-----------------------------------------------------------------------------
(* The lock.                                                               *)

\* disperseComponentWire: the dealer keeps leaf and shard, claims its own
\* statement and signs it; then its INITs go out one by one.
Disperse(d) ==
    /\ d \in CorrectDealers /\ d = clDealer /\ clClaim[d][d] = None
    /\ clClaim' = [clClaim EXCEPT ![d][d] = OwnStatement]
    /\ clShards' = [clShards EXCEPT ![d] = @ \cup {<<d, OwnStatement>>}]
    /\ clShares' = [clShares EXCEPT ![d] = {d}]
    /\ UNCHANGED <<clDealer, clSent, clSigned, clBuffer, clTaken, clCopies, clLost, clCert, leafVars>>

SendInit(d, h, s) ==
    /\ d = clDealer /\ <<d, s>> \in Comps /\ h \in Correct \ {d} /\ <<d, h, s>> \notin clSent
    /\ d \in CorrectDealers => clClaim[d][d] # None
    /\ clSent' = clSent \cup {<<d, h, s>>}
    /\ UNCHANGED <<clDealer, clClaim, clShards, clSigned, clBuffer, clTaken, clCopies, clLost,
                   clShares, clCert, leafVars>>

\* claimComponentStatement: one statement per dealer.
Claims(h, d, s) == clClaim[h][d] \in {None, s}

\* handleInit: the shard is stored before the signature leaves; a copy gets
\* the same answer.
HandleInit(h, d, s) ==
    /\ <<d, h, s>> \in clSent /\ <<d, h, s>> \notin clSigned
    /\ Claims(h, d, s)
    /\ clClaim' = [clClaim EXCEPT ![h][d] = s]
    /\ clShards' = [clShards EXCEPT ![h] = @ \cup {<<d, s>>}]
    /\ clSigned' = clSigned \cup {<<d, h, s>>}
    /\ UNCHANGED <<clDealer, clSent, clBuffer, clTaken, clCopies, clLost, clShares, clCert, leafVars>>

\* Only the first ACK of a holder goes to the channel.
FirstAck(d, h) == h \notin clTaken[d]

Collecting(d) == clShares[d] # {} /\ <<d, OwnStatement>> \notin clCert

\* handleACK.
HandleAck(d, h) ==
    /\ d \in CorrectDealers /\ Collecting(d) /\ FirstAck(d, h)
    /\ IF h \in Faulty THEN clCopies[d] < MaxAckCopies
       ELSE <<d, h, OwnStatement>> \in clSigned
    /\ clCopies' = [clCopies EXCEPT ![d] = IF h \in Faulty THEN @ + 1 ELSE @]
    /\ clTaken' = [clTaken EXCEPT ![d] = @ \cup {h}]
    /\ IF Len(clBuffer[d]) < Cardinality(Old)
       THEN clBuffer' = [clBuffer EXCEPT ![d] = Append(@, h)] /\ UNCHANGED clLost
       ELSE clLost' = [clLost EXCEPT ![d] = @ \cup {h}] /\ UNCHANGED clBuffer
    /\ UNCHANGED <<clDealer, clSent, clClaim, clShards, clSigned, clShares, clCert, leafVars>>

\* The ACKs are read once all INITs have been sent.
TakeComponentAck(d) ==
    /\ d \in CorrectDealers /\ Collecting(d) /\ clBuffer[d] # <<>>
    /\ \A h \in Correct \ {d} : <<d, h, OwnStatement>> \in clSent
    /\ Cardinality(clShares[d]) < ControlThreshold
    /\ clShares' = [clShares EXCEPT ![d] = @ \cup {Head(clBuffer[d])}]
    /\ clBuffer' = [clBuffer EXCEPT ![d] = Tail(@)]
    /\ UNCHANGED <<clDealer, clSent, clClaim, clShards, clSigned, clTaken, clCopies, clLost, clCert, leafVars>>

\* The signatures a dealer has: a faulty one keeps what it is sent.
LockShares(d, s) ==
    IF d \in Correct THEN clShares[d]
    ELSE Faulty \cup {h \in Correct : <<d, h, s>> \in clSigned}

CertifyComponent(d, s) ==
    /\ <<d, s>> \in Comps \ clCert
    /\ Cardinality(LockShares(d, s)) >= ControlThreshold
    /\ clCert' = clCert \cup {<<d, s>>}
    /\ UNCHANGED <<clDealer, clSent, clClaim, clShards, clSigned, clBuffer, clTaken, clCopies, clLost,
                   clShares, leafVars>>

-----------------------------------------------------------------------------
(* The leaf of a certified component.                                      *)

Joins(c) == clCall[c] # "none"

\* getVerifiedComponent: a verified leaf is returned; otherwise the caller
\* joins the retrieval under way or starts one.
GetComponent(x, c) ==
    /\ c \in clCert /\ clCaller[x][1] = "idle"
    /\ IF c \in clLeaf
       THEN clCaller' = [clCaller EXCEPT ![x] = <<"ok", c>>] /\ UNCHANGED clCall
       ELSE /\ clCaller' = [clCaller EXCEPT ![x] = <<"waits", c>>]
            /\ IF Joins(c) THEN UNCHANGED clCall
               ELSE clCall' = [clCall EXCEPT ![c] =
                      IF c \in clDisk \/ c[1] = Retriever THEN "stored" ELSE "asks"]
    /\ UNCHANGED <<claimVars, clLeaf, clQueue, clDisk>>

\* handleGet and handleLeaf: the holders that can answer with a shard that
\* matches the descriptor.
ShardHolders(c) == {h \in Correct : c \in clShards[h]}

\* All that wait for the retrieval of c are released with its outcome.
ReleaseCall(c, outcome) ==
    /\ clCall' = [clCall EXCEPT ![c] = "none"]
    /\ clCaller' = [x \in LeafCallers |->
         IF clCaller[x] = <<"waits", c>> THEN <<outcome, c>> ELSE clCaller[x]]

\* The leaf does not verify: nothing is cached.
RetrievalFails(c) ==
    /\ clCall[c] = "asks" /\ c[2] \in BadLeaves
    /\ Cardinality(ShardHolders(c)) >= Cardinality(Old) - 2 * F
    /\ ReleaseCall(c, "error")
    /\ UNCHANGED <<claimVars, clLeaf, clQueue, clDisk>>

\* cacheReconstructedLeaf: the leaf is written at once, queued for the writer
\* if there is room, or not written.
CacheReconstructed(c) ==
    /\ clDisk' = IF CacheMode = "sync" THEN clDisk \cup {c} ELSE clDisk
    /\ clQueue' = IF CacheMode = "async" /\ clCall[c] = "asks" /\ Len(clQueue) < CacheRoom
                  THEN Append(clQueue, c) ELSE clQueue

\* n-2f shards decode to a leaf that verifies.
Retrieved(c) ==
    /\ \/ clCall[c] = "stored"
       \/ /\ clCall[c] = "asks" /\ c[2] \notin BadLeaves
          /\ Cardinality(ShardHolders(c)) >= Cardinality(Old) - 2 * F
    /\ clLeaf' = clLeaf \cup {c}
    /\ ReleaseCall(c, "ok")
    /\ CacheReconstructed(c)
    /\ UNCHANGED <<claimVars>>

\* runReconstructedLeafCacheWriter.
WriteLeaf ==
    /\ clQueue # <<>>
    /\ clDisk' = clDisk \cup {Head(clQueue)} /\ clQueue' = Tail(clQueue)
    /\ UNCHANGED <<claimVars, clCall, clCaller, clLeaf>>

\* A caller's context ends; the retrieval goes on without it.
CallerLeaves(x) ==
    /\ clCaller[x][1] = "waits"
    /\ clCaller' = [clCaller EXCEPT ![x] = <<"left", None>>]
    /\ UNCHANGED <<claimVars, clCall, clLeaf, clQueue, clDisk>>

ComponentNext ==
    \/ \E d \in CorrectDealers : Disperse(d) \/ TakeComponentAck(d)
    \/ \E d \in LeafDealers, h \in Correct, s \in LeafStatements : SendInit(d, h, s) \/ HandleInit(h, d, s)
    \/ \E d \in CorrectDealers, h \in Old : HandleAck(d, h)
    \/ \E d \in LeafDealers, s \in LeafStatements : CertifyComponent(d, s)
    \/ \E x \in LeafCallers, c \in Comps : GetComponent(x, c)
    \/ \E c \in Comps : RetrievalFails(c) \/ Retrieved(c)
    \/ WriteLeaf
    \/ \E x \in LeafCallers : CallerLeaves(x)

ComponentSpec == ComponentInit /\ [][ComponentNext]_componentVars

-----------------------------------------------------------------------------
ComponentTypeOK ==
    /\ clCert \subseteq Comps /\ clLeaf \subseteq clCert /\ clDisk \subseteq clLeaf
    /\ \A d \in CorrectDealers : clShares[d] \subseteq Old /\ clTaken[d] \subseteq Old
    /\ \A x \in LeafCallers : clCaller[x][1] \in {"idle", "waits", "ok", "error", "left"}

(* A dealer has at most one certified component, however it mixes its      *)
(* INITs, and the certified one can be retrieved from correct holders.     *)
OneComponent ==
    \A c \in clCert :
        /\ \A e \in clCert : c[1] = e[1] => c = e
        /\ Cardinality(ShardHolders(c)) >= Cardinality(Old) - 2 * F

(* A faulty holder that repeats its signature does not crowd out a correct *)
(* one while the dealer is still sending.                                  *)
AcksNotLost == \A d \in CorrectDealers : clLost[d] \subseteq Faulty

(* Whoever waits for a leaf waits for a retrieval that is under way, also  *)
(* when it joined that of a caller that has left.                          *)
NoLostCaller ==
    \A x \in LeafCallers :
        clCaller[x][1] = "waits" => clCall[clCaller[x][2]] # "none"
=============================================================================
