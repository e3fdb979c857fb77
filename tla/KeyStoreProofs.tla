--------------------------- MODULE KeyStoreProofs ---------------------------
(* The revocation and expiry bounds of KeyStore, for every set of keys and
   requests and every value of the time limits. *)
EXTENDS KeyStore, FiniteSetTheorems, TLAPS

\* KeyStoreInit establishes the inductive invariant.
LEMMA InitInv == KeyStoreInit => IndInv
  BY KeyStoreAssumption DEF KeyStoreInit, IndInv, TypeOK, Phases, RequestInv, CacheInv, HistoryInv,
     RevocationBound, ExpiryBound, Window

\* Time passing keeps deadlines because ClockTick waits for every request that is
\* due, and moves cacheExp <= wallClock + CacheTTL the right way.
LEMMA TickInv == IndInv /\ ClockTick => IndInv'
  <1> SUFFICES ASSUME IndInv, ClockTick PROVE IndInv'
    OBVIOUS
  <1> USE KeyStoreAssumption DEF IndInv, ClockTick, tableVars, cacheVars, requestVars
  <1>1. TypeOK'
    BY DEF TypeOK
  <1>2. RequestInv'
    BY DEF TypeOK, RequestInv, Due
  <1>3. CacheInv'
    BY DEF TypeOK, CacheInv, Window
  <1>4. HistoryInv' /\ RevocationBound' /\ ExpiryBound'
    BY DEF TypeOK, HistoryInv, RevocationBound, ExpiryBound, Window
  <1> QED BY <1>1, <1>2, <1>3, <1>4

\* A key that has just been issued is not cached, not accepted and not the key
\* of a row that was read, so its expiry constrains nothing yet.
LEMMA IssueInv == ASSUME NEW k \in Keys, IndInv, IssueKey(k) PROVE IndInv'
  <1> USE KeyStoreAssumption DEF IndInv, IssueKey, cacheVars, requestVars
  <1>1. TypeOK'
    BY DEF TypeOK
  <1>2. RequestInv'
    BY DEF TypeOK, RequestInv
  <1>3. CacheInv'
    BY DEF TypeOK, CacheInv, Window
  <1>4. HistoryInv'
    BY DEF TypeOK, HistoryInv
  <1>5. RevocationBound'
    BY DEF TypeOK, RevocationBound, Window
  <1>6. ExpiryBound'
    BY DEF TypeOK, HistoryInv, ExpiryBound, Window
  <1> QED BY <1>1, <1>2, <1>3, <1>4, <1>5, <1>6

\* When a key is revoked every row that was read of it was read by now, and
\* its cache entry dies within CacheTTL of now.
LEMMA RevokeInv == ASSUME NEW k \in Keys, IndInv, RevokeKey(k) PROVE IndInv'
  <1> USE KeyStoreAssumption DEF IndInv, RevokeKey, cacheVars, requestVars
  <1>1. TypeOK'
    BY DEF TypeOK
  <1>2. RequestInv'
    BY DEF TypeOK, RequestInv
  <1>3. CacheInv'
    BY DEF TypeOK, CacheInv, Window
  <1>4. HistoryInv'
    BY DEF TypeOK, HistoryInv
  <1>5. RevocationBound'
    BY DEF TypeOK, HistoryInv, RevocationBound, Window
  <1>6. ExpiryBound'
    BY DEF TypeOK, ExpiryBound, Window
  <1> QED BY <1>1, <1>2, <1>3, <1>4, <1>5, <1>6

\* A hit accepts a key whose entry is live, and the entry's own bound carries
\* over to the acceptance.
LEMMA HitInv ==
  ASSUME NEW r \in Validations, NEW k \in Keys, IndInv, CacheHit(r, k) PROVE IndInv'
  <1> USE KeyStoreAssumption
      DEF IndInv, CacheHit, LiveEntry, Accept, tableVars, cacheVars, requestVars
  <1>1. TypeOK'
    BY DEF TypeOK
  <1>2. RequestInv' /\ CacheInv'
    BY DEF TypeOK, RequestInv, CacheInv, Window
  <1>3. HistoryInv'
    BY DEF TypeOK, CacheInv, HistoryInv
  <1>4. RevocationBound'
    BY DEF TypeOK, CacheInv, RevocationBound, Window
  <1>5. ExpiryBound'
    BY DEF TypeOK, CacheInv, ExpiryBound, Window
  <1> QED BY <1>1, <1>2, <1>3, <1>4, <1>5

\* A miss only starts the request's deadline.
LEMMA MissInv ==
  ASSUME NEW r \in Validations, NEW k \in Keys, NEW g \in BOOLEAN, IndInv, CacheMiss(r, k, g)
  PROVE  IndInv'
  <1> USE KeyStoreAssumption DEF IndInv, CacheMiss, tableVars, cacheVars
  <1>1. TypeOK'
    BY DEF TypeOK, Phases
  <1>2. RequestInv'
    BY DEF TypeOK, RequestInv
  <1>3. CacheInv'
    BY DEF TypeOK, CacheInv, Window
  <1>4. HistoryInv' /\ RevocationBound' /\ ExpiryBound'
    BY DEF TypeOK, HistoryInv, RevocationBound, ExpiryBound, Window
  <1> QED BY <1>1, <1>2, <1>3, <1>4

\* A stale entry only sends the request to its second critical section.
LEMMA StaleInv == ASSUME NEW r \in Validations, NEW k \in Keys, IndInv, CacheStale(r, k) PROVE IndInv'
  <1> USE KeyStoreAssumption DEF IndInv, CacheStale, tableVars, cacheVars
  <1>1. TypeOK'
    BY DEF TypeOK, Phases
  <1>2. RequestInv'
    BY DEF TypeOK, RequestInv
  <1>3. CacheInv'
    BY DEF TypeOK, CacheInv, Window
  <1>4. HistoryInv' /\ RevocationBound' /\ ExpiryBound'
    BY DEF TypeOK, HistoryInv, RevocationBound, ExpiryBound, Window
  <1> QED BY <1>1, <1>2, <1>3, <1>4

\* The delete only removes from the cache, whichever entry it finds.
LEMMA EvictInv == ASSUME NEW r \in Validations, IndInv, Evict(r) PROVE IndInv'
  <1> USE KeyStoreAssumption DEF IndInv, Evict, tableVars
  <1>1. TypeOK'
    BY DEF TypeOK, Phases
  <1>2. RequestInv'
    BY DEF TypeOK, RequestInv
  <1>3. CacheInv'
    BY DEF TypeOK, CacheInv, Window
  <1>4. HistoryInv' /\ RevocationBound' /\ ExpiryBound'
    BY DEF TypeOK, HistoryInv, RevocationBound, ExpiryBound, Window
  <1> QED BY <1>1, <1>2, <1>3, <1>4

\* A row is read while it is live: neither revoked nor expired.
LEMMA SelectInv == ASSUME NEW r \in Validations, IndInv, Select(r) PROVE IndInv'
  <1> USE KeyStoreAssumption DEF IndInv, Select, RowSelected, tableVars, cacheVars
  <1>1. TypeOK'
    BY DEF TypeOK, Phases
  <1>2. RequestInv'
    BY DEF TypeOK, RequestInv
  <1>3. CacheInv'
    BY DEF TypeOK, CacheInv, Window
  <1>4. HistoryInv' /\ RevocationBound' /\ ExpiryBound'
    BY DEF TypeOK, HistoryInv, RevocationBound, ExpiryBound, Window
  <1> QED BY <1>1, <1>2, <1>3, <1>4

\* The row arrives within QueryTimeout of the read.
LEMMA ScanInv == ASSUME NEW r \in Validations, IndInv, ScanRow(r) PROVE IndInv'
  <1> USE KeyStoreAssumption DEF IndInv, ScanRow, tableVars, cacheVars
  <1>1. TypeOK'
    BY DEF TypeOK, Phases
  <1>2. RequestInv'
    BY DEF TypeOK, RequestInv
  <1>3. CacheInv'
    BY DEF TypeOK, CacheInv, Window
  <1>4. HistoryInv' /\ RevocationBound' /\ ExpiryBound'
    BY DEF TypeOK, HistoryInv, RevocationBound, ExpiryBound, Window
  <1> QED BY <1>1, <1>2, <1>3, <1>4

\* A call that refuses its key leaves the table, the cache and the history.
LEMMA RejectInv == ASSUME NEW r \in Validations, IndInv, ScanFails(r) \/ VerifyFails(r) PROVE IndInv'
  <1> USE KeyStoreAssumption DEF IndInv, ScanFails, VerifyFails, Return,
      tableVars, cacheVars
  <1>0. Return(r) /\ UNCHANGED <<wallClock, tableVars, cacheVars, lastAccept>>
    OBVIOUS
  <1>1. TypeOK'
    BY <1>0 DEF TypeOK, Phases
  <1>2. RequestInv'
    BY DEF TypeOK, RequestInv
  <1>3. CacheInv'
    BY DEF TypeOK, CacheInv, Window
  <1>4. HistoryInv' /\ RevocationBound' /\ ExpiryBound'
    BY DEF TypeOK, HistoryInv, RevocationBound, ExpiryBound, Window
  <1> QED BY <1>1, <1>2, <1>3, <1>4

\* The outcome of a lookup rests on a row read at most QueryTimeout + MaxVerify
\* ago; the entry it leaves lives CacheTTL longer.
LEMMA PutInv == ASSUME NEW r \in Validations, IndInv, VerifyAndPut(r) PROVE IndInv'
  <1> USE KeyStoreAssumption
      DEF IndInv, VerifyAndPut, Accept, Return, tableVars
  <1>0. key[r] \in Keys
    BY DEF TypeOK
  <1>1. TypeOK'
    BY <1>0 DEF TypeOK, Phases
  <1>2. RequestInv'
    BY <1>0 DEF TypeOK, RequestInv
  <1>3. wallClock <= selectAt[r] + QueryTimeout + MaxVerify
    BY DEF TypeOK, RequestInv
  <1>4. CacheInv'
    BY <1>0, <1>3 DEF TypeOK, RequestInv, CacheInv, Window
  <1>5. HistoryInv'
    BY <1>0 DEF TypeOK, RequestInv, HistoryInv
  <1>6. RevocationBound'
    BY <1>0, <1>3 DEF TypeOK, RequestInv, RevocationBound, Window
  <1>7. ExpiryBound'
    BY <1>0, <1>3 DEF TypeOK, RequestInv, ExpiryBound, Window
  <1> QED BY <1>1, <1>2, <1>4, <1>5, <1>6, <1>7

LEMMA StepInv == IndInv /\ [KeyStoreNext]_keyStoreVars => IndInv'
  <1> SUFFICES ASSUME IndInv, [KeyStoreNext]_keyStoreVars PROVE IndInv'
    OBVIOUS
  <1>1. CASE KeyStoreNext
    <2>1. CASE ClockTick
      BY <2>1, TickInv
    <2>2. CASE \E k \in Keys : IssueKey(k) \/ RevokeKey(k)
      BY <2>2, IssueInv, RevokeInv
    <2>3. CASE \E r \in Validations, k \in Keys :
                  \/ CacheHit(r, k) \/ CacheStale(r, k)
                  \/ \E g \in BOOLEAN : CacheMiss(r, k, g)
      BY <2>3, HitInv, StaleInv, MissInv
    <2>4. CASE \E r \in Validations : \/ Evict(r) \/ Select(r) \/ ScanRow(r) \/ ScanFails(r)
                                      \/ VerifyAndPut(r) \/ VerifyFails(r)
      BY <2>4, EvictInv, SelectInv, ScanInv, RejectInv, PutInv
    <2> QED BY <1>1, <2>1, <2>2, <2>3, <2>4 DEF KeyStoreNext
  <1>2. CASE UNCHANGED keyStoreVars
    BY <1>2 DEF keyStoreVars, tableVars, cacheVars, requestVars, IndInv, TypeOK, RequestInv,
       CacheInv, HistoryInv, RevocationBound, ExpiryBound
  <1> QED BY <1>1, <1>2

\* The inductive invariant holds of every behaviour.
THEOREM Invariance == KeyStoreSpec => []IndInv
  BY InitInv, StepInv, PTL DEF KeyStoreSpec

\* Type correctness of the key store and its cache.
THEOREM TypeCorrect == KeyStoreSpec => []TypeOK
  <1>1. IndInv => TypeOK
    BY DEF IndInv
  <1> QED BY <1>1, Invariance, PTL

\* A revoked key stops being accepted within QueryTimeout + MaxVerify +
\* CacheTTL of its revocation, for any number of keys and of concurrent
\* ValidateKeyWithMetadata calls and any cache size.
THEOREM RevocationBounded == KeyStoreSpec => []RevocationBound
  <1>1. IndInv => RevocationBound
    BY DEF IndInv
  <1> QED BY <1>1, Invariance, PTL

\* A key stops being accepted within the same window after its expires_at.
THEOREM ExpiryBounded == KeyStoreSpec => []ExpiryBound
  <1>1. IndInv => ExpiryBound
    BY DEF IndInv
  <1> QED BY <1>1, Invariance, PTL

\* put drops at least one entry before it adds one to a full cache.
LEMMA PutBounded ==
  ASSUME IsFiniteSet(cached), CacheBounded, NEW r \in Validations, VerifyAndPut(r)
  PROVE  IsFiniteSet(cached') /\ CacheBounded'
  <1> USE KeyStoreAssumption
  <1>1. PICK left \in SUBSET cached : RoomMade(left) /\ cached' = left \cup {key[r]}
    BY DEF VerifyAndPut
  <1>2. EvictCount \in Nat /\ EvictCount >= 1
    BY DEF EvictCount
  <1>3. IsFiniteSet(left) /\ Cardinality(cached) \in Nat /\ Cardinality(left) \in Nat
    BY FS_Subset, FS_CardinalityType
  <1>4. Cardinality(left) <= CacheSize - 1
    <2>1. CASE Cardinality(cached) >= CacheSize
      BY <1>1, <1>2, <1>3, <2>1 DEF RoomMade, CacheBounded
    <2>2. CASE ~(Cardinality(cached) >= CacheSize)
      <3>1. left = cached
        BY <1>1, <2>2 DEF RoomMade
      <3> QED BY <1>3, <2>2, <3>1
    <2> QED BY <2>1, <2>2
  <1>5. /\ IsFiniteSet(left \cup {key[r]})
        /\ \/ Cardinality(left \cup {key[r]}) = Cardinality(left)
           \/ Cardinality(left \cup {key[r]}) = Cardinality(left) + 1
    BY <1>3, FS_AddElement
  <1> QED BY <1>1, <1>3, <1>4, <1>5 DEF CacheBounded

\* Validations that evict and put under separate locks never bring the cache over
\* CacheSize, whatever their number.
THEOREM CacheStaysBounded == KeyStoreSpec => []CacheBounded
  <1> DEFINE Bounded == IsFiniteSet(cached) /\ CacheBounded
  <1>1. KeyStoreInit => Bounded
    BY FS_EmptySet, KeyStoreAssumption DEF KeyStoreInit, CacheBounded
  <1>2. Bounded /\ [KeyStoreNext]_keyStoreVars => Bounded'
    <2> SUFFICES ASSUME Bounded, [KeyStoreNext]_keyStoreVars PROVE Bounded'
      OBVIOUS
    <2>1. CASE UNCHANGED cached
      BY <2>1 DEF CacheBounded
    <2>2. CASE \E r \in Validations : VerifyAndPut(r)
      BY <2>2, PutBounded
    <2>3. CASE \E r \in Validations : Evict(r)
      <3>1. PICK r \in Validations : cached' = cached \ {key[r]}
        BY <2>3 DEF Evict
      <3>2. /\ IsFiniteSet(cached') /\ Cardinality(cached') <= Cardinality(cached)
            /\ Cardinality(cached) \in Nat /\ Cardinality(cached') \in Nat
        BY <3>1, FS_Subset, FS_CardinalityType
      <3> QED BY <3>2, KeyStoreAssumption DEF CacheBounded
    <2>4. CASE ClockTick \/ (\E k \in Keys : IssueKey(k) \/ RevokeKey(k)) \/ UNCHANGED keyStoreVars
      BY <2>1, <2>4 DEF ClockTick, IssueKey, RevokeKey, keyStoreVars, cacheVars
    <2>5. CASE \E r \in Validations, k \in Keys :
                  \/ CacheHit(r, k) \/ CacheStale(r, k)
                  \/ \E g \in BOOLEAN : CacheMiss(r, k, g)
      BY <2>1, <2>5 DEF CacheHit, CacheStale, CacheMiss, cacheVars
    <2>6. CASE \E r \in Validations : Select(r) \/ ScanRow(r) \/ ScanFails(r) \/ VerifyFails(r)
      BY <2>1, <2>6 DEF Select, ScanRow, ScanFails, VerifyFails, cacheVars
    <2> QED BY <2>2, <2>3, <2>4, <2>5, <2>6 DEF KeyStoreNext
  <1> QED BY <1>1, <1>2, PTL DEF KeyStoreSpec
=============================================================================
