------------------------------ MODULE KeyStore ------------------------------
(* pkg/auth/store_postgres.go: API keys kept in Postgres and validated through
   a TTL cache that lives in the validating process. Keys are issued and
   revoked by the tenant-api, another process, so a revocation reaches a
   gateway only through its next SELECT.

   A validation is a goroutine that reads the cache, deletes a stale entry
   after it has released the read lock, sends the SELECT, waits for the row
   and verifies the secret, and then stores the outcome: the tables and the
   cache may change between any two of these. Time is a counter shared by the
   database and the processes. *)
EXTENDS Naturals, FiniteSets

CONSTANTS
    Keys,          \* kids; each is issued at most once
    NoKey,         \* the key of a request that is not under way
    Validations,   \* concurrent calls of ValidateKeyWithMetadata
    CacheTTL, CacheSize,
    QueryTimeout,  \* the context deadline of the SELECT
    MaxVerify,     \* longest time verifyArgon2id takes
    Expiries,      \* the expires_at values that are asked for
    MaxClock       \* bound: the clock stops here

ASSUME KeyStoreAssumption ==
    /\ CacheTTL \in Nat /\ QueryTimeout \in Nat \ {0} /\ MaxVerify \in Nat \ {0}
    /\ CacheSize \in Nat \ {0} /\ MaxClock \in Nat /\ Expiries \subseteq Nat

VARIABLES
    wallClock,
    issued, expires, expiresAt,  \* the table's rows; expires: expires_at IS NOT NULL
    revoked, revokedAt,          \* revoked: revoked_at IS NOT NULL
    cached, cacheExp,            \* validationCache.entries: digests, expiresAt
    pc, key, genuine,            \* a request: where it is, its kid, is its secret right
    startAt, selectAt, scanAt,   \* when it set its deadline, was read, was answered
    lastAccept                   \* history: when a key was last accepted (0: never)

tableVars == <<issued, expires, expiresAt, revoked, revokedAt>>
cacheVars == <<cached, cacheExp>>
requestVars == <<pc, key, genuine, startAt, selectAt, scanAt>>
keyStoreVars == <<wallClock, tableVars, cacheVars, requestVars, lastAccept>>

Phases == {"idle", "evict", "query", "fetched", "verify"}

TypeOK ==
    /\ wallClock \in Nat
    /\ issued \subseteq Keys
    /\ expires \subseteq Keys /\ expiresAt \in [Keys -> Nat]
    /\ revoked \subseteq Keys /\ revokedAt \in [Keys -> Nat]
    /\ cached \subseteq Keys /\ cacheExp \in [Keys -> Nat]
    /\ pc \in [Validations -> Phases]
    /\ key \in [Validations -> Keys \cup {NoKey}] /\ genuine \in [Validations -> BOOLEAN]
    /\ \A r \in Validations : pc[r] # "idle" => key[r] \in Keys
    /\ startAt \in [Validations -> Nat] /\ selectAt \in [Validations -> Nat]
    /\ scanAt \in [Validations -> Nat]
    /\ lastAccept \in [Keys -> Nat]

KeyStoreInit ==
    /\ wallClock = 0
    /\ issued = {} /\ expires = {} /\ expiresAt = [k \in Keys |-> 0]
    /\ revoked = {} /\ revokedAt = [k \in Keys |-> 0]
    /\ cached = {} /\ cacheExp = [k \in Keys |-> 0]
    /\ pc = [r \in Validations |-> "idle"]
    /\ key = [r \in Validations |-> NoKey] /\ genuine = [r \in Validations |-> TRUE]
    /\ startAt = [r \in Validations |-> 0] /\ selectAt = [r \in Validations |-> 0]
    /\ scanAt = [r \in Validations |-> 0]
    /\ lastAccept = [k \in Keys |-> 0]

-----------------------------------------------------------------------------
(* The control plane. *)

\* IssueKeyWithScopes, with an expiry (which may have passed already) or none.
IssueKey(k) ==
    /\ k \notin issued
    /\ issued' = issued \cup {k}
    /\ \/ UNCHANGED <<expires, expiresAt>>
       \/ \E t \in Expiries : /\ expires' = expires \cup {k}
                              /\ expiresAt' = [expiresAt EXCEPT ![k] = t]
    /\ UNCHANGED <<wallClock, revoked, revokedAt, cacheVars, requestVars, lastAccept>>

\* RevokeKey updates the row; no cache is told. A key that is already revoked
\* keeps its first revoked_at (the caller gets ErrKeyRevoked).
RevokeKey(k) ==
    /\ k \in issued /\ k \notin revoked
    /\ revoked' = revoked \cup {k}
    /\ revokedAt' = [revokedAt EXCEPT ![k] = wallClock]
    /\ UNCHANGED <<wallClock, issued, expires, expiresAt, cacheVars, requestVars, lastAccept>>

-----------------------------------------------------------------------------
(* ValidateKeyWithMetadata *)

\* The cache is keyed by a digest of the whole wire key, so only the genuine
\* secret can hit. An entry is live while the clock is not after its expiresAt.
LiveEntryLate(k) == k \in cached /\ wallClock <= cacheExp[k] + 1
LiveEntry(k) == k \in cached /\ wallClock <= cacheExp[k]

\* The call returns and its locals are gone.
Return(r) ==
    /\ pc' = [pc EXCEPT ![r] = "idle"]
    /\ key' = [key EXCEPT ![r] = NoKey]
    /\ genuine' = [genuine EXCEPT ![r] = TRUE]
    /\ startAt' = [startAt EXCEPT ![r] = 0]
    /\ selectAt' = [selectAt EXCEPT ![r] = 0]
    /\ scanAt' = [scanAt EXCEPT ![r] = 0]

Accept(k) == lastAccept' = [lastAccept EXCEPT ![k] = wallClock]

CacheHit(r, k) ==
    /\ pc[r] = "idle" /\ LiveEntry(k)
    /\ Accept(k)
    /\ UNCHANGED <<wallClock, tableVars, cacheVars, requestVars>>

\* A lookup that is sent without the kid of the wire key.
CacheMissNoKid(r, k, g) ==
    /\ pc[r] = "idle"
    /\ g => k \notin cached
    /\ pc' = [pc EXCEPT ![r] = "query"]
    /\ genuine' = [genuine EXCEPT ![r] = g]
    /\ startAt' = [startAt EXCEPT ![r] = wallClock]
    /\ UNCHANGED <<wallClock, tableVars, cacheVars, key, selectAt, scanAt, lastAccept>>

\* The entry is gone or was never there: send the SELECT under its deadline.
CacheMiss(r, k, g) ==
    /\ pc[r] = "idle"
    /\ g => k \notin cached
    /\ pc' = [pc EXCEPT ![r] = "query"]
    /\ key' = [key EXCEPT ![r] = k]
    /\ genuine' = [genuine EXCEPT ![r] = g]
    /\ startAt' = [startAt EXCEPT ![r] = wallClock]
    /\ UNCHANGED <<wallClock, tableVars, cacheVars, selectAt, scanAt, lastAccept>>

\* get found an entry past its time; it deletes in a second critical section.
CacheStale(r, k) ==
    /\ pc[r] = "idle"
    /\ k \in cached /\ ~LiveEntry(k)
    /\ pc' = [pc EXCEPT ![r] = "evict"]
    /\ key' = [key EXCEPT ![r] = k]
    /\ genuine' = [genuine EXCEPT ![r] = TRUE]
    /\ UNCHANGED <<wallClock, tableVars, cacheVars, startAt, selectAt, scanAt, lastAccept>>

\* The delete takes whatever the digest maps to by now, then the SELECT is sent.
Evict(r) ==
    /\ pc[r] = "evict"
    /\ cached' = cached \ {key[r]}
    /\ cacheExp' = [cacheExp EXCEPT ![key[r]] = 0]
    /\ pc' = [pc EXCEPT ![r] = "query"]
    /\ startAt' = [startAt EXCEPT ![r] = wallClock]
    /\ UNCHANGED <<wallClock, tableVars, key, genuine, selectAt, scanAt, lastAccept>>

\* The WHERE clause of the SELECT, evaluated by the database.
RowIgnoringExpiry(k) == k \in issued /\ k \notin revoked
RowSelected(k) ==
    /\ k \in issued
    /\ k \notin revoked
    /\ k \in expires => expiresAt[k] > wallClock

Select(r) ==
    /\ pc[r] = "query" /\ RowSelected(key[r])
    /\ pc' = [pc EXCEPT ![r] = "fetched"]
    /\ selectAt' = [selectAt EXCEPT ![r] = wallClock]
    /\ UNCHANGED <<wallClock, tableVars, cacheVars, key, genuine, startAt, scanAt, lastAccept>>

\* row.Scan returns the row, or an error: there is no such row, the database
\* failed or the deadline passed, and the key is refused.
ScanRow(r) ==
    /\ pc[r] = "fetched"
    /\ pc' = [pc EXCEPT ![r] = "verify"]
    /\ scanAt' = [scanAt EXCEPT ![r] = wallClock]
    /\ UNCHANGED <<wallClock, tableVars, cacheVars, key, genuine, startAt, selectAt, lastAccept>>

ScanFails(r) ==
    /\ pc[r] \in {"query", "fetched"}
    /\ Return(r)
    /\ UNCHANGED <<wallClock, tableVars, cacheVars, lastAccept>>

\* cache.put: at CacheSize entries it first drops size/10 of them, at least
\* one, in the map's random order.
EvictCount == IF CacheSize \div 10 > 1 THEN CacheSize \div 10 ELSE 1

RoomWithoutEviction(left) == left = cached
RoomMade(left) ==
    IF Cardinality(cached) >= CacheSize
    THEN left \subseteq cached /\ Cardinality(cached) - Cardinality(left) = EvictCount
    ELSE left = cached

\* The secret matches: remember the key for CacheTTL from now and accept it.
VerifyAndPut(r) ==
    /\ pc[r] = "verify" /\ genuine[r]
    /\ \E left \in SUBSET cached :
          /\ RoomMade(left)
          /\ cached' = left \cup {key[r]}
          /\ cacheExp' = [k \in Keys |-> IF k = key[r] THEN wallClock + CacheTTL
                                         ELSE IF k \in left THEN cacheExp[k] ELSE 0]
    /\ Accept(key[r])
    /\ Return(r)
    /\ UNCHANGED <<wallClock, tableVars>>

VerifyFails(r) ==
    /\ pc[r] = "verify" /\ ~genuine[r]
    /\ Return(r)
    /\ UNCHANGED <<wallClock, tableVars, cacheVars, lastAccept>>

-----------------------------------------------------------------------------
(* Time passes unless a deadline is due: the context's timer ends a query that
   has run for QueryTimeout, and the verification ends within MaxVerify. *)
Due(r) == \/ pc[r] \in {"query", "fetched"} /\ wallClock >= startAt[r] + QueryTimeout
          \/ pc[r] = "verify" /\ wallClock >= scanAt[r] + MaxVerify

ClockTick ==
    /\ wallClock < MaxClock
    /\ \A r \in Validations : ~Due(r)
    /\ wallClock' = wallClock + 1
    /\ UNCHANGED <<tableVars, cacheVars, requestVars, lastAccept>>

KeyStoreNext ==
    \/ ClockTick
    \/ \E k \in Keys : IssueKey(k) \/ RevokeKey(k)
    \/ \E r \in Validations, k \in Keys :
          \/ CacheHit(r, k) \/ CacheStale(r, k)
          \/ \E g \in BOOLEAN : CacheMiss(r, k, g)
    \/ \E r \in Validations : \/ Evict(r) \/ Select(r) \/ ScanRow(r) \/ ScanFails(r)
                              \/ VerifyAndPut(r) \/ VerifyFails(r)

KeyStoreSpec == KeyStoreInit /\ [][KeyStoreNext]_keyStoreVars

-----------------------------------------------------------------------------
(* Properties *)

\* The longest time between the read of a row and the end of the last
\* validation that can rest on it.
Window == QueryTimeout + MaxVerify + CacheTTL

\* A revoked key is accepted at most Window after its revocation, however
\* lookups, evictions and the revocation interleave: RevokeKey evicts nothing,
\* and a SELECT that ran before the revocation may fill the cache after it.
RevocationBound == \A k \in revoked : lastAccept[k] <= revokedAt[k] + Window

\* A key is accepted for less than Window past its expires_at: get compares
\* with the cache entry's expiry, never with the key's own.
ExpiryBound == \A k \in expires : lastAccept[k] < expiresAt[k] + Window

\* put keeps the cache within CacheSize entries although requests that
\* interleave delete and add entries under separate locks.
CacheBounded == Cardinality(cached) <= CacheSize

\* RevokeKey's comment: "Worst-case window: CacheTTL (default 5s)".
RevokedWithinTTL == \A k \in revoked : lastAccept[k] <= revokedAt[k] + CacheTTL

-----------------------------------------------------------------------------
(* The inductive invariant behind the bounds. *)

\* A validation under way meets its deadlines, and the row it rests on was
\* live when it was read.
RequestInv == \A r \in Validations :
    /\ pc[r] \in {"query", "fetched"} => startAt[r] <= wallClock /\ wallClock <= startAt[r] + QueryTimeout
    /\ pc[r] \in {"fetched", "verify"} => startAt[r] <= selectAt[r] /\ selectAt[r] <= wallClock
    /\ pc[r] = "verify" => /\ scanAt[r] <= wallClock /\ wallClock <= scanAt[r] + MaxVerify
                           /\ scanAt[r] <= selectAt[r] + QueryTimeout
    /\ pc[r] \in {"fetched", "verify"} =>
          /\ key[r] \in issued
          /\ key[r] \in revoked => selectAt[r] <= revokedAt[key[r]]
          /\ key[r] \in expires => selectAt[r] < expiresAt[key[r]]

\* A cache entry dies at most CacheTTL from now, and at most Window after the
\* key did.
CacheInv == \A k \in cached :
    /\ k \in issued
    /\ cacheExp[k] <= wallClock + CacheTTL
    /\ k \in revoked => cacheExp[k] <= revokedAt[k] + Window
    /\ k \in expires => cacheExp[k] < expiresAt[k] + Window

\* The clock is past everything recorded, and keys that were never issued are
\* neither revoked nor accepted.
HistoryInv ==
    /\ \A k \in Keys : lastAccept[k] <= wallClock
    /\ revoked \subseteq issued /\ expires \subseteq issued
    /\ \A k \in Keys \ issued : lastAccept[k] = 0

IndInv == TypeOK /\ RequestInv /\ CacheInv /\ HistoryInv /\ RevocationBound /\ ExpiryBound
=============================================================================
