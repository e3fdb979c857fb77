-------------------------------- MODULE Oidc --------------------------------
(***************************************************************************)
(* The token validator of src/pkg/oidc: a set of signing keys fetched from *)
(* the identity provider by a ticker and, when a token names a key it does *)
(* not have, by the request itself.  Fetches overlap, and each installs    *)
(* what it was answered, however old.  The provider rotates its keys and   *)
(* may answer with an error or with an empty set.  Tokens are well formed, *)
(* meant for this service and in date: what varies is the key that signed  *)
(* them and the operator's groups.                                         *)
(***************************************************************************)
EXTENDS Integers, FiniteSets

CONSTANTS
    Tokens,       \* the requests with a token that arrive
    AdminGroups,  \* Config.AdminGroups
    Groups,       \* the groups an operator may be in
    MaxRotations, \* bound on the provider's rotations
    MaxFaults     \* bound on the answers that are errors or empty

ASSUME OidcAssumption == MaxRotations \in Nat /\ MaxFaults \in Nat

\* After its n-th rotation the provider publishes the new key and the last one.
Published(n) == {k \in 0 .. MaxRotations : k = n \/ k = n - 1}

VARIABLES
    rotation,   \* the provider's rotations so far
    jwks,       \* Validator.keys
    loop,       \* the refresh goroutine: waiting, or with an answer in hand
    check,      \* the requests in Validate
    faults

oidcVars == <<rotation, jwks, loop, check, faults>>

Unused == [pc |-> "unused", kid |-> 0, groups |-> {}, answer |-> {}]

\* NewValidator has fetched the keys once.
OidcInit ==
    /\ rotation = 0 /\ jwks = Published(0) /\ faults = 0
    /\ loop = [pc |-> "wait", answer |-> {}]
    /\ check = [q \in Tokens |-> Unused]

Rotate ==
    /\ rotation < MaxRotations
    /\ rotation' = rotation + 1
    /\ UNCHANGED <<jwks, loop, check, faults>>

\* The provider's answer: the keys it has now.
Good(answer) == answer = Published(rotation) /\ UNCHANGED faults

\* An answer with status 200 and no keys.
Empty(answer) == answer = {} /\ faults < MaxFaults /\ faults' = faults + 1

Fails == faults < MaxFaults /\ faults' = faults + 1

\* The ticker: refreshKeys is answered, or fails and is tried at the next tick.
LoopFetch ==
    /\ loop.pc = "wait"
    /\ \E answer \in {Published(rotation), {}} :
         /\ Good(answer) \/ Empty(answer)
         /\ loop' = [pc |-> "install", answer |-> answer]
    /\ UNCHANGED <<rotation, jwks, check>>

\* A mutant of LoopFails: the goroutine ends with the first error.
LoopEnds ==
    /\ loop.pc = "wait" /\ Fails
    /\ loop' = [loop EXCEPT !.pc = "ended"]
    /\ UNCHANGED <<rotation, jwks, check>>

LoopFails ==
    /\ loop.pc = "wait" /\ Fails
    /\ UNCHANGED <<rotation, jwks, loop, check>>

LoopInstall ==
    /\ loop.pc = "install"
    /\ jwks' = loop.answer
    /\ loop' = [pc |-> "wait", answer |-> {}]
    /\ UNCHANGED <<rotation, check, faults>>

----------------------------------------------------------------------------
(* Validate *)

\* A token without a key id is good if there is just one key.
lookupKey(set, kid) == kid \in set \/ (kid = -1 /\ Cardinality(set) = 1)

overlap(a, b) == a \intersect b # {}

\* The claims are checked with the key that was found.
Verdict(groups) ==
    IF AdminGroups # {} /\ ~overlap(groups, AdminGroups) THEN "forbidden" ELSE "accepted"

\* A token arrives, signed with some key published so far.
Present(q, kid, groups) ==
    /\ check[q].pc = "unused"
    /\ kid \in -1 .. rotation
    /\ check' = [check EXCEPT ![q] = [pc |-> IF lookupKey(jwks, kid) THEN Verdict(groups)
                                            ELSE "fetch",
                                      kid |-> kid, groups |-> groups, answer |-> {}]]
    /\ UNCHANGED <<rotation, jwks, loop, faults>>

\* The key is not known: fetch once.
MissFetch(q) ==
    /\ check[q].pc = "fetch"
    /\ \/ \E answer \in {Published(rotation), {}} :
            /\ Good(answer) \/ Empty(answer)
            /\ check' = [check EXCEPT ![q].pc = "install", ![q].answer = answer]
       \/ Fails /\ check' = [check EXCEPT ![q].pc = "rejected"]
    /\ UNCHANGED <<rotation, jwks, loop>>

MissInstall(q) ==
    /\ check[q].pc = "install"
    /\ jwks' = check[q].answer
    /\ check' = [check EXCEPT ![q].pc = "lookup", ![q].answer = {}]
    /\ UNCHANGED <<rotation, loop, faults>>

\* The second look sees what is installed by now.
MissLookup(q) ==
    /\ check[q].pc = "lookup"
    /\ check' = [check EXCEPT ![q].pc = IF lookupKey(jwks, check[q].kid)
                                        THEN Verdict(check[q].groups) ELSE "rejected"]
    /\ UNCHANGED <<rotation, jwks, loop, faults>>

OidcLoop == LoopFetch \/ LoopFails \/ LoopInstall
OidcRequest == \E q \in Tokens : MissFetch(q) \/ MissInstall(q) \/ MissLookup(q)

OidcNext ==
    \/ Rotate \/ LoopFetch \/ LoopFails \/ LoopInstall \/ OidcRequest
    \/ \E q \in Tokens, kid \in -1 .. MaxRotations, g \in SUBSET Groups : Present(q, kid, g)

----------------------------------------------------------------------------
(***************************************************************************)
(* When the provider has stopped rotating and failing, the validator ends  *)
(* up with its keys for good: no error stops the refresh goroutine, and    *)
(* what a slow request installs over newer keys is corrected.              *)
(***************************************************************************)
KeysCatchUp == <>[](jwks = Published(rotation))
=============================================================================
