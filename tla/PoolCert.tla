------------------------------ MODULE PoolCert ------------------------------
(***************************************************************************)
(* The pool of one sampled proposer and its certificate: CertifyPool,      *)
(* AwaitCertifiedPool, ContributorCoin, handlePoolOffer,                   *)
(* handlePoolCertificateShare and handlePoolCertificate of                 *)
(* src/core/cv_sapvss_apdb_network_scalar.go with the slot state of        *)
(* src/core/cv_sapvss_pool.go.                                             *)
(*                                                                         *)
(* The proposer offers its pool to the old committee, repeats the offer a  *)
(* few times for members whose share is missing, recovers a certificate    *)
(* from n-f shares and sends it once.  A member signs one pool per         *)
(* proposer, and only once it knows from the eligibility coin who the      *)
(* proposers are: an earlier offer is dropped.  A certificate that         *)
(* overtakes its offer is kept, unverified, until the offer comes.  Who    *)
(* has the certificate releases its share of the coin that selects the     *)
(* contributors from the pool; f+1 shares are the coin.                    *)
(***************************************************************************)
EXTENDS Committee

CONSTANTS Sample,      \* the members whose slot may be the one modelled
          Pools,       \* pools a faulty proposer may build
          Built,       \* what cvBuildPoolScalar gives a correct one
          MaxAttempts  \* cvControlRetryMaxAttemptsScalar

ASSUME PoolAssumption ==
    /\ Sample \subseteq Old /\ Built \in Pools
    /\ None \notin Pools /\ None \notin [pool : Pools, valid : BOOLEAN]
    /\ MaxAttempts \in Nat

Threshold == Cardinality(Old) - F

VARIABLES
    proposer,  \* whose slot this is
    elig,      \* members that know the eligibility sample
    call,      \* CertifyPool of a correct proposer
    attempt,   \* offers it has repeated
    offers,    \* members with an offer in their inbox
    pool,      \* state.poolDigest of each member; signed with it
    signed,    \* shares released: member and pool
    shares,    \* slot.shares of a correct proposer
    certs,     \* members with the certificate in their inbox
    certWire,  \* slot.certWire: a certificate, perhaps not verified
    certSeen,  \* members with state.certSeen
    coin       \* members that have released their contributor-coin share

vars == <<proposer, elig, call, attempt, offers, pool, signed, shares, certs,
          certWire, certSeen, coin>>

Cert(p, ok) == [pool |-> p, valid |-> ok]

Signers(p) == {i \in Correct : <<i, p>> \in signed} \cup Faulty

\* n-f shares over p are to be had.
Certifiable(p) == Cardinality(Signers(p)) >= Threshold

Others == Correct \ {proposer}

-----------------------------------------------------------------------------
\* EligibilityCoin returns at member i (setEligibilityCoin).
LearnEligibility(i) ==
    /\ i \notin elig
    /\ elig' = elig \cup {i}
    /\ UNCHANGED <<proposer, call, attempt, offers, pool, signed, shares,
                   certs, certWire, certSeen, coin>>

\* CertifyPool up to its first wait.
CertifyPool ==
    /\ proposer \in elig /\ call = "before"
    /\ call' = "offering"
    /\ pool' = [pool EXCEPT ![proposer] = Built]
    /\ signed' = signed \cup {<<proposer, Built>>}
    /\ shares' = {proposer}
    /\ offers' = Others
    /\ UNCHANGED <<proposer, elig, attempt, certs, certWire, certSeen, coin>>

\* The retry timer: members whose share is missing get the offer again.  It
\* may win the select although the shares are there.
RetryOffer ==
    /\ call = "offering" /\ attempt < MaxAttempts
    /\ attempt' = attempt + 1
    /\ offers' = offers \cup (Others \ shares)
    /\ UNCHANGED <<proposer, elig, call, pool, signed, shares, certs, certWire,
                   certSeen, coin>>

\* What member i finds in its inbox from the proposer.
Offered(i, p) == IF proposer \in Correct THEN i \in offers /\ p = pool[proposer]
                 ELSE TRUE

\* An offer before the eligibility coin is dropped.
DropOffer(i) ==
    /\ i \in offers \ elig
    /\ offers' = offers \ {i}
    /\ UNCHANGED <<proposer, elig, call, attempt, pool, signed, shares, certs,
                   certWire, certSeen, coin>>

\* Mutant: a later pool of the same proposer is signed as well.
OnOfferAgain(i, p) ==
    /\ i \in elig \ {proposer} /\ Offered(i, p)
    /\ offers' = offers \ {i}
    /\ pool' = [pool EXCEPT ![i] = p]
    /\ signed' = signed \cup {<<i, p>>}
    /\ certSeen' = IF certWire[i] = Cert(p, TRUE) THEN certSeen \cup {i}
                   ELSE certSeen
    /\ UNCHANGED <<proposer, elig, call, attempt, shares, certs, certWire,
                   coin>>

\* Mutant: a certificate that was kept is not looked at again.
OnOfferNoDeferred(i, p) ==
    /\ i \in elig \ {proposer} /\ Offered(i, p) /\ pool[i] \in {None, p}
    /\ offers' = offers \ {i}
    /\ pool' = [pool EXCEPT ![i] = p]
    /\ signed' = signed \cup {<<i, p>>}
    /\ UNCHANGED <<proposer, elig, call, attempt, shares, certs, certWire,
                   certSeen, coin>>

\* The first pool of the proposer, or the same again: sign it, answer with the
\* share, and take the certificate that came before it.
OnOffer(i, p) ==
    /\ i \in elig \ {proposer} /\ Offered(i, p) /\ pool[i] \in {None, p}
    /\ offers' = offers \ {i}
    /\ pool' = [pool EXCEPT ![i] = p]
    /\ signed' = signed \cup {<<i, p>>}
    /\ certSeen' = IF certWire[i] = Cert(p, TRUE) THEN certSeen \cup {i}
                   ELSE certSeen
    /\ UNCHANGED <<proposer, elig, call, attempt, shares, certs, certWire,
                   coin>>

\* handlePoolCertificateShare: a valid share over the proposer's own pool.
OnShare(j) ==
    /\ proposer \in Correct /\ call # "before" /\ j \notin shares
    /\ j \in Signers(pool[proposer])
    /\ shares' = shares \cup {j}
    /\ UNCHANGED <<proposer, elig, call, attempt, offers, pool, signed, certs,
                   certWire, certSeen, coin>>

\* sharesReady: recover the certificate and send it once.
Recover ==
    /\ call = "offering" /\ Cardinality(shares) >= Threshold
    /\ call' = "certified"
    /\ certSeen' = certSeen \cup {proposer}
    /\ certWire' = [certWire EXCEPT ![proposer] = Cert(pool[proposer], TRUE)]
    /\ certs' = Others
    /\ UNCHANGED <<proposer, elig, attempt, offers, pool, signed, shares,
                   coin>>

\* The certificate of a correct proposer, or whatever a faulty one sends.
CertOffered(i, c) ==
    IF proposer \in Correct THEN i \in certs /\ c = certWire[proposer]
    ELSE c.valid => Certifiable(c.pool)

\* Mutant: the signature is not verified.
OnCertificateUnverified(i, c) ==
    /\ i # proposer /\ CertOffered(i, c)
    /\ certs' = certs \ {i}
    /\ IF pool[i] = None
         THEN certWire' = [certWire EXCEPT ![i] = c] /\ UNCHANGED certSeen
         ELSE /\ c.pool = pool[i]
              /\ certWire' = [certWire EXCEPT ![i] = c]
              /\ certSeen' = certSeen \cup {i}
    /\ UNCHANGED <<proposer, elig, call, attempt, offers, pool, signed, shares,
                   coin>>

\* handlePoolCertificate: kept while there is no pool, verified otherwise.
OnCertificate(i, c) ==
    /\ i # proposer /\ CertOffered(i, c)
    /\ certs' = certs \ {i}
    /\ IF pool[i] = None
         THEN certWire' = [certWire EXCEPT ![i] = c] /\ UNCHANGED certSeen
         ELSE /\ c.pool = pool[i] /\ c.valid
              /\ certWire' = [certWire EXCEPT ![i] = c]
              /\ certSeen' = certSeen \cup {i}
    /\ UNCHANGED <<proposer, elig, call, attempt, offers, pool, signed, shares,
                   coin>>

\* Mutant: the coin is started on a pool that is merely offered.
StartCoinEarly(i) ==
    /\ pool[i] # None /\ i \notin coin
    /\ coin' = coin \cup {i}
    /\ UNCHANGED <<proposer, elig, call, attempt, offers, pool, signed, shares,
                   certs, certWire, certSeen>>

\* AwaitCertifiedPool (CertifyPool, at the proposer) has returned and
\* ContributorCoin sends its share.
StartCoin(i) ==
    /\ i \in certSeen \ coin
    /\ coin' = coin \cup {i}
    /\ UNCHANGED <<proposer, elig, call, attempt, offers, pool, signed, shares,
                   certs, certWire, certSeen>>

Certs == [pool : Pools, valid : BOOLEAN]

Init ==
    /\ proposer \in Sample
    /\ elig = {} /\ attempt = 0 /\ offers = {} /\ signed = {} /\ shares = {}
    /\ call = IF proposer \in Correct THEN "before" ELSE "none"
    /\ pool = [i \in Correct |-> None]
    /\ certs = {} /\ certSeen = {} /\ coin = {}
    /\ certWire = [i \in Correct |-> None]

Next ==
    \/ \E i \in Correct :
          \/ LearnEligibility(i) \/ DropOffer(i) \/ StartCoin(i)
          \/ \E p \in Pools : OnOffer(i, p)
          \/ \E c \in Certs : OnCertificate(i, c)
    \/ CertifyPool \/ RetryOffer \/ Recover
    \/ \E j \in Old : OnShare(j)

Spec == Init /\ [][Next]_vars

\* What is bound to happen: messages between correct members arrive and timers
\* fire.  When a member learns the eligibility sample, and what faulty members
\* do, is open.
PoolProgress ==
    \/ RetryOffer \/ Recover
    \/ \E i \in Correct :
          \/ DropOffer(i) \/ OnShare(i) \/ StartCoin(i)
          \/ /\ proposer \in Correct
             /\ \/ \E p \in Pools : OnOffer(i, p)
                \/ \E c \in Certs : OnCertificate(i, c)

\* No step of PoolProgress is left: what members have for a correct proposer, and
\* it for them, has been handled, and the retries are spent.
PoolAtRest ==
    /\ call = "offering" => attempt = MaxAttempts /\ Cardinality(shares) < Threshold
    /\ offers \subseteq elig /\ certSeen \subseteq coin
    /\ proposer \in Correct => \A i \in Correct :
          /\ call # "before" /\ i \in Signers(pool[proposer]) => i \in shares
          /\ i \in (elig \cap offers) \ {proposer} => pool[i] \notin {None, pool[proposer]}
          /\ \A c \in Certs : i # proposer /\ CertOffered(i, c) =>
                pool[i] # None /\ ~(c.pool = pool[i] /\ c.valid)

-----------------------------------------------------------------------------
TypeOK ==
    /\ proposer \in Sample /\ elig \subseteq Correct
    /\ call \in {"none", "before", "offering", "certified"}
    /\ attempt \in 0 .. MaxAttempts
    /\ offers \subseteq Correct /\ certs \subseteq Correct
    /\ pool \in [Correct -> Pools \cup {None}]
    /\ signed \subseteq Correct \X Pools
    /\ shares \subseteq Old
    /\ certWire \in [Correct -> Certs \cup {None}]
    /\ certSeen \subseteq Correct /\ coin \subseteq Correct

\* Whatever a faulty proposer offers to whom and in which order, all members
\* that have a certified pool of a proposer have the same one, so that the
\* contributor coin selects from one pool.
CertifiedPoolUnique ==
    \A i, j \in certSeen : pool[i] = pool[j]

\* A certified pool has been signed by n-2f correct members, the f+1 or more
\* that can run the contributor coin for it.
CertifiedPoolBacked ==
    \A i \in certSeen :
        Cardinality({j \in Correct : pool[j] = pool[i]}) >= Threshold - F

\* Somebody can compute the contributor coin of pool p.
CoinRevealed(p) ==
    Cardinality({i \in coin : pool[i] = p} \cup Faulty) >= F + 1

\* Nobody can know what the coin selects from a pool before the pool is
\* certified, and never for two pools of one proposer: a faulty proposer cannot
\* choose its pool by what will be selected from it.
CoinAfterCertificate ==
    /\ \A p \in Pools : CoinRevealed(p) => Certifiable(p)
    /\ \A p, q \in Pools : CoinRevealed(p) /\ CoinRevealed(q) => p = q

\* A correct proposer that still has an offer to repeat when the last correct
\* member learns the eligibility sample gets its certificate, although earlier
\* offers were dropped.
ProposerCertifies ==
    call = "offering" /\ attempt < MaxAttempts /\ Correct \subseteq elig
        ~> call = "certified"

\* A member that signed the pool of a correct proposer ends up with the
\* certificate, also when the certificate overtook the offer, and joins the coin.
SignersJoin ==
    proposer \in Correct /\ call = "certified" /\ PoolAtRest =>
        \A i \in Correct : pool[i] # None => i \in coin
=============================================================================
