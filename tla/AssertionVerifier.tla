--------------------------- MODULE AssertionVerifier ---------------------------
(***************************************************************************)
(* The backend's verification of the assertions a gateway mints            *)
(* (verify/verify.go) and the replay guard that admits each of them once:  *)
(* the bounded table of one process (MemoryReplayGuard) or the table       *)
(* several processes share (internal/replay/postgres.go).                  *)
(*                                                                         *)
(* A verification is several steps: the signature and the lifetime by the  *)
(* process's clock, the two lookups at the authorities, the clock read of  *)
(* the guard, and the claim.  Verifications interleave with each other,    *)
(* with the passing of time, with the authorities' changes and with the    *)
(* publication and retirement of keys.                                     *)
(***************************************************************************)
EXTENDS Integers, FiniteSets, Sequences, Functions

CONSTANTS
    Calls,          \* verifications that may be in progress together
    Tokens,         \* [key, iat, exp, credRev, policyRev, policyEpoch, claims, aud, scope, lane]
    Peers,          \* TLS clients [verified, spiffe, dns]
    SPIFFEIDs, DNSNames,    \* MTLSOptions
    Audience,       \* of this verifier
    Keys,           \* [kid, mat]
    Guards,         \* kinds of guard: "memory", "postgres"
    ClockOffset,    \* call -> its process's clock minus the shared one
    MaxTTL, Skew,   \* protocollimits
    MinPolicyRev, MinPolicyEpoch,
    Capacity,       \* of the memory guard
    MaxClock, MaxCalls, MaxRev      \* bounds

ASSUME VerifierAssumption ==
    /\ Guards \subseteq {"memory", "postgres"}
    /\ {MaxTTL, Skew, MinPolicyRev, MinPolicyEpoch, Capacity, MaxClock, MaxCalls, MaxRev} \subseteq Nat
    /\ ClockOffset \in [Calls -> Int]
    /\ \A t \in Tokens : t.claims \in Seq(STRING) /\ t.scope \in Seq(STRING)
    /\ \A t \in Tokens : {t.iat, t.exp} \subseteq Int
    /\ \A t \in Tokens : {t.credRev, t.policyRev, t.policyEpoch} \subseteq Nat
    /\ \A p \in Peers : p.verified \in BOOLEAN

VARIABLES
    clock,      \* time of the guard: of the process, or of the database
    guard,      \* which guard the deployment uses
    keys,       \* public keys the verifier holds
    credRev,    \* current revision of the credential
    epoch,      \* current policy activation epoch
    table,      \* claimed tokens
    call,       \* call -> verification in progress
    calls,      \* verifications started
    accepted    \* history: acceptances [tok, by, at, from]

verifierVars == <<clock, guard, keys, credRev, epoch, table, call, calls, accepted>>

(* KeySet.validate: at least one key, positive and distinct kids.          *)
ValidKeySet(set) ==
    /\ set # {}
    /\ \A k, l \in set : k.kid >= 1 /\ (k.kid = l.kid => k = l)

Idle == [pc |-> "idle"]

(* LoadKeySet, New and NewProduction: a valid publication, and a guard and *)
(* both authorities configured.                                            *)
VerifierInit ==
    /\ clock = 0
    /\ guard \in Guards
    /\ keys \in {set \in SUBSET Keys : ValidKeySet(set)}
    /\ credRev = 1 /\ epoch = 1
    /\ table = {}
    /\ call = [c \in Calls |-> Idle]
    /\ calls = 0
    /\ accepted = {}

-----------------------------------------------------------------------------
Tick ==
    /\ clock < MaxClock
    /\ clock' = clock + 1
    /\ UNCHANGED <<guard, keys, credRev, epoch, table, call, calls, accepted>>

(* PublishKey: a kid is never given other material.                        *)
PublishKey(k) ==
    /\ k.kid >= 1 /\ k \notin keys
    /\ \A l \in keys : l.kid # k.kid
    /\ keys' = keys \cup {k}
    /\ UNCHANGED <<clock, guard, credRev, epoch, table, call, calls, accepted>>

(* RetireKey: only with the fingerprint of the key that is held.           *)
RetireKey(k) ==
    /\ k \in keys
    /\ keys' = keys \ {k}
    /\ UNCHANGED <<clock, guard, credRev, epoch, table, call, calls, accepted>>

(* External: the credential and policy authorities move on.                *)
AuthorityMoves ==
    /\ \/ credRev < MaxRev /\ credRev' = credRev + 1 /\ UNCHANGED epoch
       \/ epoch < MaxRev /\ epoch' = epoch + 1 /\ UNCHANGED credRev
    /\ UNCHANGED <<clock, guard, keys, table, call, calls, accepted>>

-----------------------------------------------------------------------------
(***************************************************************************)
(* verifyEncodedContext.                                                   *)
(***************************************************************************)
(* The process's clock.  The memory guard belongs to one process.          *)
Now(c) == IF guard = "memory" THEN clock ELSE clock + ClockOffset[c]

(* mtlsTrust.Trusted: a verified certificate with a configured identity.   *)
Trusted(peer) ==
    /\ peer.verified
    /\ peer.spiffe \cap SPIFFEIDs # {} \/ peer.dns \cap DNSNames # {}

(* The fields of Claims.                                                   *)
ClaimNames ==
    {"iss", "sub", "cid", "ctx", "aud", "iat", "exp", "jti", "scope", "kid",
     "policy_rev", "policy_epoch", "cred_rev"}

(* rejectDuplicateKeys and decodeClaims: no name twice, none unknown.      *)
WellFormed(t) == IsInjective(t.claims) /\ Range(t.claims) \subseteq ClaimNames

(* The closed set of scopes, none twice; "LANE" only with a lane.          *)
ValidScope(t) ==
    /\ t.scope # <<>> /\ IsInjective(t.scope)
    /\ Range(t.scope) \subseteq {"inference", "REQUEST", "LANE", "CREDENTIAL", "ACCOUNT"}
    /\ "LANE" \in Range(t.scope) => t.lane # ""

(* Within the lifetime, which the verifier bounds itself.                  *)
InLifetime(t, now) ==
    /\ t.exp > t.iat /\ t.exp - t.iat <= MaxTTL
    /\ now < t.exp
    /\ now >= t.iat - Skew

Reject(c) == call' = [call EXCEPT ![c] = Idle]

Advance(c, pc) == call' = [call EXCEPT ![c].pc = pc]

(* Transport, form and signature first: a rejection so far has no effect.  *)
(* "from" is a history of what was current when the request arrived.       *)
Receive(c, t, peer) ==
    /\ call[c].pc = "idle" /\ calls < MaxCalls
    /\ Trusted(peer)
    /\ t.key \in keys
    /\ WellFormed(t) /\ t.aud = Audience /\ ValidScope(t)
    /\ t.policyRev >= 1 /\ t.credRev >= 1
    /\ InLifetime(t, Now(c))
    /\ calls' = calls + 1
    /\ call' = [call EXCEPT ![c] = [pc |-> "revision", tok |-> t,
                                    from |-> [credRev |-> credRev, epoch |-> epoch]]]
    /\ UNCHANGED <<clock, guard, keys, credRev, epoch, table, accepted>>

(* CredentialRevisionContext; the lookup may fail, which rejects.          *)
CheckRevision(c) ==
    /\ call[c].pc = "revision"
    /\ IF call[c].tok.credRev = credRev /\ call[c].tok.policyRev >= MinPolicyRev
       THEN Advance(c, "epoch") \/ Reject(c)
       ELSE Reject(c)
    /\ UNCHANGED <<clock, guard, keys, credRev, epoch, table, calls, accepted>>

(* Mutant: only the configured lower bound is compared.                    *)
CheckEpochBound(c) ==
    /\ call[c].pc = "epoch"
    /\ IF call[c].tok.policyEpoch >= MinPolicyEpoch THEN Advance(c, "replay") ELSE Reject(c)
    /\ UNCHANGED <<clock, guard, keys, credRev, epoch, table, calls, accepted>>

(* PolicyEpochContext.                                                     *)
CheckEpoch(c) ==
    LET e == call[c].tok.policyEpoch IN
    /\ call[c].pc = "epoch"
    /\ IF e # 0 /\ e >= MinPolicyEpoch /\ e = epoch
       THEN Advance(c, "replay") \/ Reject(c)
       ELSE Reject(c)
    /\ UNCHANGED <<clock, guard, keys, credRev, epoch, table, calls, accepted>>

(* The guard reads the time before it takes its lock, or before the        *)
(* statement runs; CURRENT_TIMESTAMP is the statement's start.             *)
ReadNow(c) ==
    /\ call[c].pc = "replay"
    /\ IF Now(c) < call[c].tok.exp
       THEN call' = [call EXCEPT ![c] = [pc |-> "claim", tok |-> @.tok, from |-> @.from, now |-> clock]]
       ELSE Reject(c)
    /\ UNCHANGED <<clock, guard, keys, credRev, epoch, table, calls, accepted>>

Live(claims, now) == {t \in claims : now < t.exp}

(* Mutant: a full table drops the claim that expires first.                *)
AcceptMemoryEvicting(t, now) ==
    LET claims == Live(table, now)
        first == {u \in claims : \A v \in claims : u.exp <= v.exp}
    IN
    /\ t \notin claims
    /\ table' = (IF Cardinality(claims) < Capacity THEN claims ELSE claims \ first) \cup {t}

(* MemoryReplayGuard.Accept under its lock: expired claims go, a claim in  *)
(* force or a full table rejects.                                          *)
AcceptMemory(t, now) ==
    LET claims == Live(table, now) IN
    /\ t \notin claims
    /\ Cardinality(claims) < Capacity
    /\ table' = claims \cup {t}

(* PostgresGuard.Accept: an upsert that replaces an expired claim only.    *)
AcceptPostgres(t, now) ==
    /\ now < t.exp
    /\ t \in table => t.exp <= now
    /\ table' = table \cup {t}

Accept(c) ==
    LET t == call[c].tok
        now == call[c].now
    IN
    /\ call[c].pc = "claim"
    /\ \/ /\ IF guard = "memory" THEN AcceptMemory(t, now) ELSE AcceptPostgres(t, now)
          /\ accepted' = accepted \cup {[tok |-> t, by |-> <<c, calls>>, at |-> clock, from |-> call[c].from]}
       \/ /\ guard = "memory"
          /\ t \in Live(table, now) \/ Cardinality(Live(table, now)) >= Capacity
          /\ table' = Live(table, now)
          /\ UNCHANGED accepted
       \/ /\ guard = "postgres"
          /\ UNCHANGED <<table, accepted>>
    /\ Reject(c)
    /\ UNCHANGED <<clock, guard, keys, credRev, epoch, calls>>

(* CleanupExpired: some of the expired rows.                               *)
CleanupExpired ==
    /\ guard = "postgres"
    /\ \E gone \in SUBSET {t \in table : t.exp <= clock} : gone # {} /\ table' = table \ gone
    /\ UNCHANGED <<clock, guard, keys, credRev, epoch, call, calls, accepted>>

VerifierNext ==
    \/ Tick \/ AuthorityMoves \/ CleanupExpired
    \/ \E k \in Keys : PublishKey(k) \/ RetireKey(k)
    \/ \E c \in Calls :
          \/ \E t \in Tokens, peer \in Peers : Receive(c, t, peer)
          \/ CheckRevision(c) \/ CheckEpoch(c) \/ ReadNow(c) \/ Accept(c)

VerifierSpec == VerifierInit /\ [][VerifierNext]_verifierVars

-----------------------------------------------------------------------------
(* Until it expires an assertion is accepted once, however many requests   *)
(* carry it at the same time, on how many processes, when the table is     *)
(* full, and while expired claims are removed ("Accept must return true    *)
(* exactly once for a JTI until expiresAt").                               *)
OncePerAssertion ==
    \A t \in Tokens : Cardinality({a \in accepted : a.tok = t /\ a.at < t.exp}) <= 1

(* What is accepted was not stale when its request arrived: neither a      *)
(* superseded revision of the credential nor an earlier policy activation  *)
(* is ever accepted later (the lookups of verifyEncodedContext).           *)
AcceptedWasCurrent ==
    \A a \in accepted : a.from.credRev <= a.tok.credRev /\ a.from.epoch <= a.tok.policyEpoch
=============================================================================
