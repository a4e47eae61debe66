------------------------------ MODULE Governor -------------------------------
(***************************************************************************)
(* internal/resource: the in-process resource governor.                    *)
(*                                                                         *)
(* An admission provisions every scope of its plan (SOURCE, ACCOUNT,       *)
(* CREDENTIAL, LANE, GLOBAL, in that order) all-or-nothing: one lease per  *)
(* scope's ConcurrencyPool, then one reservation per dimension and scope   *)
(* against a TokenBucket.  The objects are resolved under metaMu; each is  *)
(* then locked on its own, so admissions, releases, settlements, scope     *)
(* eviction and RemoveScope interleave between any two gauges.             *)
(*                                                                         *)
(* A scope's objects are deleted from the maps together, while requests    *)
(* may still point at them: an object is a scope key and a generation, and *)
(* gen[k] is the generation the maps hold.                                 *)
(***************************************************************************)
EXTENDS Integers, Sequences, FiniteSets

CONSTANTS
    Requests,           \* admissions, each made once
    Keys,               \* scope keys
    SourceKeys,         \* those of the SOURCE scope, kept in a bounded table
    sourceOverflowID,   \* SOURCE key -> the overflow key it hashes to
    Plans,              \* scope specs a request may be provisioned against
    NumDims,            \* token-bucket dimensions
    Estimates,          \* estimated usage, per dimension
    Actuals,            \* metered usage, per dimension
    Removable,          \* keys of scopes that RemoveScope is called for
    MaxSourceScopes, SourceIdle,
    MaxStall,           \* ticks from resolving the gauges to holding them
    MaxGen,             \* bound on the generations of a key
    MaxTime             \* bound on the clock

Dims == 1..NumDims

ScopeSpec ==
    [key : Keys, cap : Nat, burst : [Dims -> Nat], rate : [Dims -> Nat]]

ASSUME PlanAssumption ==
    /\ NumDims \in Nat
    /\ SourceKeys \subseteq Keys
    /\ sourceOverflowID \in [SourceKeys -> Keys \ SourceKeys]
    /\ Plans \subseteq Seq(ScopeSpec)
    /\ \A plan \in Plans :
          /\ plan # <<>>
          /\ \A i, j \in DOMAIN plan : i # j => plan[i].key # plan[j].key
          /\ \A i \in DOMAIN plan : i > 1 => plan[i].key \notin SourceKeys
          /\ \A k \in SourceKeys, i \in DOMAIN plan : plan[i].key # sourceOverflowID[k]

ASSUME UsageAssumption ==
    /\ IsFiniteSet(Requests)
    /\ Estimates \subseteq [Dims -> Nat] /\ Actuals \subseteq [Dims -> Nat]
    /\ Removable \subseteq Keys

ASSUME BoundAssumption ==
    /\ MaxSourceScopes \in Nat \ {0} /\ SourceIdle \in Nat /\ MaxStall \in Nat
    /\ MaxGen \in Nat \ {0} /\ MaxTime \in Nat

VARIABLES
    now,        \* wall clock
    gen,        \* key -> generation of the objects the maps hold
    made,       \* key -> gauges created in that generation (0: the pool)
    pools,      \* key -> generation -> ConcurrencyPool
    buckets,    \* key -> generation -> dimension -> TokenBucket
    sources,    \* SOURCE key -> last use, 0 when not in the table
    req,        \* request -> its MultiReservation and how far it got
    spent       \* history: usage committed per bucket

vars == <<now, gen, made, pools, buckets, sources, req, spent>>

Gens == 1..MaxGen

Objects == Keys \X Gens

AtLeastZero(n) == IF n < 0 THEN 0 ELSE n

-----------------------------------------------------------------------------
(***************************************************************************)
(* ConcurrencyPool and TokenBucket.  balance is the free slots of a pool   *)
(* and the spent amount of a bucket, as in the code.                       *)
(***************************************************************************)
NewConcurrencyPool(cap) == [capacity |-> cap, balance |-> cap]

InUse(k, g) == pools[k][g].capacity - pools[k][g].balance

(* Mutant of AcquireNCap: one slot too many.                               *)
AcquireNCapOffByOne(p, cap) ==
    LET effectiveCap == IF cap < p.capacity THEN cap ELSE p.capacity
    IN  effectiveCap >= 1 /\ p.capacity - p.balance <= effectiveCap

(* AcquireNCap(1, cap): the effective cap is the lesser of the pool's      *)
(* construction capacity and the caller's cap.                             *)
AcquireNCap(p, cap) ==
    LET effectiveCap == IF cap < p.capacity THEN cap ELSE p.capacity
    IN  /\ effectiveCap >= 1
        /\ p.capacity - p.balance <= effectiveCap - 1

NewTokenBucket(cap, rate) ==
    [capacity |-> cap, rate |-> rate, balance |-> 0, last |-> now]

(* refillLocked: elapsed time pays spent allowance back, never below 0.    *)
Refill(b) ==
    IF b.rate = 0 \/ now <= b.last THEN b
    ELSE [b EXCEPT !.balance = AtLeastZero(@ - (now - b.last) * b.rate), !.last = now]

(* Reconfigure credits elapsed time at the old rate; debt is kept.         *)
Reconfigure(b, cap, rate) ==
    [Refill(b) EXCEPT !.capacity = cap, !.rate = rate, !.last = now]

(* Reserve: all or nothing, and nothing at all from a bucket in debt.      *)
CanReserve(b, amount) ==
    LET avail == b.capacity - b.balance IN avail > 0 /\ amount <= avail

(* Mutant of SettleBucket: the overage is not charged.                     *)
SettleBucketNoDebt(b, amount, actual) ==
    [b EXCEPT !.balance = IF actual <= amount THEN @ - (amount - actual) ELSE @]

(* Reservation.Settle: refund the unused part, or charge the overage.      *)
SettleBucket(b, amount, actual) ==
    IF actual <= amount
    THEN [b EXCEPT !.balance = AtLeastZero(@ - (amount - actual))]
    ELSE [b EXCEPT !.balance = @ + (actual - amount)]

CancelBucket(b, amount) == [b EXCEPT !.balance = AtLeastZero(@ - amount)]

-----------------------------------------------------------------------------
(***************************************************************************)
(* The order of the gauges of a plan: the pools of all scopes, then for    *)
(* each dimension the buckets of all scopes.  Position p of a plan of n    *)
(* scopes is gauge Stage(p) (0 the pool, d the bucket of dimension d) of   *)
(* scope ScopeAt(p).                                                       *)
(***************************************************************************)
Stage(plan, p) == (p - 1) \div Len(plan)

ScopeAt(plan, p) == ((p - 1) % Len(plan)) + 1

LastPos(plan) == Len(plan) * (NumDims + 1)

(* A zero cap disables the pool when another gauge is authored; a zero     *)
(* burst disables the bucket of that dimension.                            *)
Enforced(spec, stage) ==
    IF stage = 0 THEN spec.cap > 0 \/ \A d \in Dims : spec.burst[d] = 0
    ELSE spec.burst[stage] > 0

Idle == [pc |-> "idle", plan |-> <<>>, gens |-> <<>>, est |-> [d \in Dims |-> 0],
         actual |-> [d \in Dims |-> 0], pos |-> 0, at |-> 0,
         leases |-> {}, holds |-> {}, forwarded |-> FALSE, settled |-> FALSE]

(* The request is over; whatever it still held would be held for ever.     *)
Done(q) == [Idle EXCEPT !.pc = "done", !.leases = q.leases, !.holds = q.holds]

Obj(q) == LET i == ScopeAt(q.plan, q.pos) IN <<q.plan[i].key, q.gens[i]>>

SpecOf(q) == q.plan[ScopeAt(q.plan, q.pos)]

AtStage(q) == Stage(q.plan, q.pos)

Init ==
    /\ now = 1
    /\ gen = [k \in Keys |-> 1]
    /\ made = [k \in Keys |-> {}]
    /\ pools = [k \in Keys |-> [g \in Gens |-> [capacity |-> 0, balance |-> 0]]]
    /\ buckets = [k \in Keys |-> [g \in Gens |-> [d \in Dims |->
                    [capacity |-> 0, rate |-> 0, balance |-> 0, last |-> 1]]]]
    /\ sources = [k \in SourceKeys |-> 0]
    /\ req = [r \in Requests |-> Idle]
    /\ spent = [k \in Keys |-> [g \in Gens |-> [d \in Dims |-> 0]]]

-----------------------------------------------------------------------------
(***************************************************************************)
(* ProvisionUsageContext, under metaMu: find or create every object.       *)
(***************************************************************************)
InTable == {k \in SourceKeys : sources[k] # 0}

(* Mutant of LeaseFree: eviction looks at the buckets only.                *)
LeaseFreeUnchecked(k) == TRUE

LeaseFree(k) == 0 \in made[k] => InUse(k, gen[k]) = 0

(* Evictable: no debt and no spent allowance, after refill.                *)
BucketsEvictable(k) ==
    \A d \in made[k] \cap Dims : Refill(buckets[k][gen[k]][d]).balance = 0

(* Sources the eviction scan does not skip at once: idle for long enough,  *)
(* and no lease held.                                                      *)
Scannable == {k \in InTable : now - sources[k] >= SourceIdle /\ LeaseFree(k)}

(* ensureSourceScopeLocked and evictSourceScopeLocked.  A new source in a  *)
(* full table evicts one replenished idle source, whichever the map yields *)
(* first, or is folded into its overflow scope.  The scan refills the      *)
(* buckets of the sources it looks at.                                     *)
EnsureSourceScope(plan) ==
    LET k       == plan[1].key
        victims == {v \in Scannable : BucketsEvictable(v)}
    IN  IF k \notin SourceKeys \/ sources[k] # 0 \/ Cardinality(InTable) < MaxSourceScopes
        THEN {[plan |-> plan, evicted |-> {}, scanned |-> {}]}
        ELSE IF victims = {}
        THEN {[plan |-> [plan EXCEPT ![1].key = sourceOverflowID[k]],
               evicted |-> {}, scanned |-> Scannable]}
        ELSE {[plan |-> plan, evicted |-> {v}, scanned |-> C] :
                 v \in victims, C \in SUBSET (Scannable \ victims)}

(* pool(): an existing pool keeps the capacity it was created with.        *)
ResolvePools(specAt, exists, at) ==
    [k \in Keys |->
        IF k \in DOMAIN specAt /\ Enforced(specAt[k], 0) /\ 0 \notin exists[k]
        THEN [pools[k] EXCEPT ![at[k]] = NewConcurrencyPool(specAt[k].cap)]
        ELSE pools[k]]

(* bucket(): an existing bucket is reconfigured to the current policy.     *)
ResolveBuckets(specAt, exists, at, scanned) ==
    [k \in Keys |->
        IF k \in DOMAIN specAt
        THEN [buckets[k] EXCEPT ![at[k]] = [d \in Dims |->
                IF ~Enforced(specAt[k], d) THEN @[d]
                ELSE IF d \in exists[k]
                THEN Reconfigure(@[d], specAt[k].burst[d], specAt[k].rate[d])
                ELSE NewTokenBucket(specAt[k].burst[d], specAt[k].rate[d])]]
        ELSE IF k \in scanned
        THEN [buckets[k] EXCEPT ![at[k]] = [d \in Dims |->
                IF d \in exists[k] THEN Refill(@[d]) ELSE @[d]]]
        ELSE buckets[k]]

(* What a resolution does, given the outcome of EnsureSourceScope.         *)
Resolved(r, out, est) ==
    LET keys   == {out.plan[i].key : i \in DOMAIN out.plan}
        specAt == [k \in keys |-> out.plan[CHOOSE i \in DOMAIN out.plan : out.plan[i].key = k]]
        at     == [k \in Keys |-> IF k \in out.evicted THEN gen[k] + 1 ELSE gen[k]]
        exists == [k \in Keys |-> IF k \in out.evicted THEN {} ELSE made[k]]
    IN  /\ gen' = at
        /\ made' = [k \in Keys |-> IF k \in keys
                       THEN exists[k] \cup {s \in 0..NumDims : Enforced(specAt[k], s)}
                       ELSE exists[k]]
        /\ pools' = ResolvePools(specAt, exists, at)
        /\ buckets' = ResolveBuckets(specAt, exists, at, out.scanned)
        /\ sources' = [k \in SourceKeys |-> IF k \in out.evicted THEN 0
                                            ELSE IF k \in keys THEN now ELSE sources[k]]
        /\ req' = [req EXCEPT ![r] =
              [Idle EXCEPT !.pc = "reserving", !.plan = out.plan, !.est = est,
                           !.gens = [i \in DOMAIN out.plan |-> at[out.plan[i].key]],
                           !.pos = 1, !.at = now]]

Resolve(r) ==
    /\ req[r].pc = "idle"
    /\ \E plan \in Plans, est \in Estimates :
          \E out \in EnsureSourceScope(plan) :
             /\ \A k \in out.evicted : gen[k] < MaxGen
             /\ Resolved(r, out, est)
    /\ UNCHANGED <<now, spent>>

-----------------------------------------------------------------------------
(***************************************************************************)
(* The two rounds, one gauge at a time.                                    *)
(***************************************************************************)
Reserving(r, pooled) ==
    /\ req[r].pc = "reserving"
    /\ (AtStage(req[r]) = 0) = pooled

Advance(q) == IF q.pos = LastPos(q.plan) THEN [q EXCEPT !.pc = "granted", !.at = 0]
              ELSE [q EXCEPT !.pos = @ + 1]

(* Mutant of Deny: what was acquired is abandoned.                         *)
DenyWithoutRelease(q) == [q EXCEPT !.pc = "unwinding", !.pos = 0, !.at = 0]

(* A denial unwinds what was acquired, last first.                         *)
Deny(q) == [q EXCEPT !.pc = "unwinding", !.pos = @ - 1, !.at = 0]

SkipGauge(r) ==
    /\ req[r].pc = "reserving"
    /\ ~Enforced(SpecOf(req[r]), AtStage(req[r]))
    /\ req' = [req EXCEPT ![r] = Advance(@)]
    /\ UNCHANGED <<now, gen, made, pools, buckets, sources, spent>>

AcquireLease(r) ==
    LET o == Obj(req[r])
    IN  /\ Reserving(r, TRUE)
        /\ Enforced(SpecOf(req[r]), 0)
        /\ IF AcquireNCap(pools[o[1]][o[2]], SpecOf(req[r]).cap)
           THEN /\ pools' = [pools EXCEPT ![o[1]][o[2]].balance = @ - 1]
                /\ req' = [req EXCEPT ![r] = [Advance(req[r]) EXCEPT !.leases = @ \cup {o}]]
           ELSE /\ req' = [req EXCEPT ![r] = Deny(@)]
                /\ UNCHANGED pools
        /\ UNCHANGED <<now, gen, made, buckets, sources, spent>>

ReserveTokens(r) ==
    LET o == Obj(req[r])
        d == AtStage(req[r])
        b == Refill(buckets[o[1]][o[2]][d])
        amount == req[r].est[d]
    IN  /\ Reserving(r, FALSE)
        /\ Enforced(SpecOf(req[r]), d)
        /\ IF CanReserve(b, amount)
           THEN /\ buckets' = [buckets EXCEPT ![o[1]][o[2]][d] = [b EXCEPT !.balance = @ + amount]]
                /\ req' = [req EXCEPT ![r] = [Advance(req[r]) EXCEPT !.holds = @ \cup {<<o, d>>}]]
           ELSE /\ buckets' = [buckets EXCEPT ![o[1]][o[2]][d] = b]
                /\ req' = [req EXCEPT ![r] = Deny(@)]
        /\ UNCHANGED <<now, gen, made, pools, sources, spent>>

-----------------------------------------------------------------------------
(* Mutant of releaseForwarded: a lease's slot comes back but the handle is *)
(* not marked released.                                                    *)
releaseForwardedUnmarked(r, forwarded, after) ==
    LET o == Obj(req[r])
    IN  /\ pools' = IF o \in req[r].leases
                    THEN [pools EXCEPT ![o[1]][o[2]].balance = @ + 1] ELSE pools
        /\ req' = [req EXCEPT ![r] = after]
        /\ UNCHANGED <<buckets, spent>>

(***************************************************************************)
(* Giving back.  singleAcquired.releaseForwarded on the gauge at pos: a    *)
(* lease returns its slot; a reservation that is not settled yet is        *)
(* cancelled, or consumed at its estimate once the request was forwarded.  *)
(***************************************************************************)
releaseForwarded(r, forwarded, after) ==
    LET q == req[r]
        o == Obj(q)
        d == AtStage(q)
    IN  \/ /\ d = 0 /\ o \in q.leases
           /\ pools' = [pools EXCEPT ![o[1]][o[2]].balance = @ + 1]
           /\ req' = [req EXCEPT ![r] = [after EXCEPT !.leases = @ \ {o}]]
           /\ UNCHANGED <<buckets, spent>>
        \/ /\ d # 0 /\ <<o, d>> \in q.holds
           /\ buckets' = IF forwarded THEN buckets
                         ELSE [buckets EXCEPT ![o[1]][o[2]][d] = CancelBucket(@, q.est[d])]
           /\ spent' = IF forwarded
                       THEN [spent EXCEPT ![o[1]][o[2]][d] = @ + q.est[d]] ELSE spent
           /\ req' = [req EXCEPT ![r] = [after EXCEPT !.holds = @ \ {<<o, d>>}]]
           /\ UNCHANGED pools
        \/ \* not acquired here, or already settled
           /\ IF d = 0 THEN o \notin q.leases ELSE <<o, d>> \notin q.holds
           /\ req' = [req EXCEPT ![r] = after]
           /\ UNCHANGED <<pools, buckets, spent>>

(* The deferred release of a failed ProvisionUsageContext.                 *)
Unwind(r) ==
    /\ req[r].pc = "unwinding"
    /\ \/ /\ req[r].pos = 0
          /\ req' = [req EXCEPT ![r] = Done(@)]
          /\ UNCHANGED <<pools, buckets, spent>>
       \/ /\ req[r].pos > 0
          /\ releaseForwarded(r, FALSE, [req[r] EXCEPT !.pos = @ - 1])
    /\ UNCHANGED <<now, gen, made, sources>>

(* MarkForwarded, just before the proxy's round trip.                      *)
MarkForwarded(r) ==
    /\ req[r].pc = "granted"
    /\ req' = [req EXCEPT ![r].pc = "forwarded", ![r].forwarded = TRUE]
    /\ UNCHANGED <<now, gen, made, pools, buckets, sources, spent>>

(* The response ended: SettleContext with the metered usage.               *)
BeginSettle(r) ==
    /\ req[r].pc = "forwarded"
    /\ \E actual \in Actuals :
          req' = [req EXCEPT ![r] = [@ EXCEPT !.pc = "settling", !.actual = actual, !.pos = 1]]
    /\ UNCHANGED <<now, gen, made, pools, buckets, sources, spent>>

Settle(r) ==
    LET q == req[r]
        o == Obj(q)
        d == AtStage(q)
        held == d # 0 /\ <<o, d>> \in q.holds
        after == IF q.pos = LastPos(q.plan)
                 THEN [q EXCEPT !.pc = "releasing", !.pos = 1, !.settled = TRUE]
                 ELSE [q EXCEPT !.pos = @ + 1]
    IN  /\ q.pc = "settling"
        /\ buckets' = IF held
              THEN [buckets EXCEPT ![o[1]][o[2]][d] = SettleBucket(@, q.est[d], q.actual[d])]
              ELSE buckets
        /\ spent' = IF held THEN [spent EXCEPT ![o[1]][o[2]][d] = @ + q.actual[d]] ELSE spent
        /\ req' = [req EXCEPT ![r] =
              [after EXCEPT !.holds = IF held THEN @ \ {<<o, d>>} ELSE @]]
        /\ UNCHANGED <<now, gen, made, pools, sources>>

(* The deferred Release without a settlement: assertion failure, a request *)
(* rejected before MarkForwarded, or a failed round trip after it.         *)
BeginRelease(r) ==
    /\ req[r].pc \in {"granted", "forwarded"}
    /\ req' = [req EXCEPT ![r].pc = "releasing", ![r].pos = 1]
    /\ UNCHANGED <<now, gen, made, pools, buckets, sources, spent>>

Release(r) ==
    LET q == req[r]
        after == IF q.pos = LastPos(q.plan) THEN Done(q)
                 ELSE [q EXCEPT !.pos = @ + 1]
    IN  /\ q.pc = "releasing"
        /\ releaseForwarded(r, q.forwarded /\ ~q.settled, after)
        /\ UNCHANGED <<now, gen, made, sources>>

(* RemoveScope, called when a lane row has disappeared.  A scope that is   *)
(* not idle stays, its buckets refilled by the check.                      *)
RemoveScope(k) ==
    /\ k \in Removable
    /\ gen[k] < MaxGen
    /\ made[k] # {}
    /\ IF LeaseFree(k) /\ BucketsEvictable(k)
       THEN /\ gen' = [gen EXCEPT ![k] = @ + 1]
            /\ made' = [made EXCEPT ![k] = {}]
            /\ sources' = IF k \in SourceKeys THEN [sources EXCEPT ![k] = 0] ELSE sources
            /\ UNCHANGED buckets
       ELSE /\ buckets' = IF ~LeaseFree(k) THEN buckets
                          ELSE [buckets EXCEPT ![k][gen[k]] = [d \in Dims |->
                                  IF d \in made[k] THEN Refill(@[d]) ELSE @[d]]]
            /\ UNCHANGED <<gen, made, sources>>
    /\ UNCHANGED <<now, pools, req, spent>>

Tick ==
    /\ now < MaxTime
    /\ \A r \in Requests : req[r].pc = "reserving" => now - req[r].at < MaxStall
    /\ now' = now + 1
    /\ UNCHANGED <<gen, made, pools, buckets, sources, req, spent>>

Next ==
    \/ Tick
    \/ \E k \in Keys : RemoveScope(k)
    \/ \E r \in Requests :
          \/ Resolve(r) \/ SkipGauge(r) \/ AcquireLease(r) \/ ReserveTokens(r)
          \/ Unwind(r) \/ MarkForwarded(r) \/ BeginSettle(r) \/ Settle(r)
          \/ BeginRelease(r) \/ Release(r)

Spec == Init /\ [][Next]_vars

-----------------------------------------------------------------------------
(***************************************************************************)
(* Properties.                                                             *)
(***************************************************************************)
LeaseHolders(k, g) == {r \in Requests : <<k, g>> \in req[r].leases}

Reservers(k, g, d) == {r \in Requests : <<<<k, g>>, d>> \in req[r].holds}

(* What is reserved of a bucket, as the number of units in the estimates   *)
(* of the requests that hold a reservation of it.                          *)
Held(k, g, d) ==
    Cardinality(UNION {{r} \X (1..req[r].est[d]) : r \in Reservers(k, g, d)})

(* The type invariant of the objects, the source table and the requests.   *)
TypeOK ==
    /\ now \in Nat \ {0}
    /\ gen \in [Keys -> Gens]
    /\ made \in [Keys -> SUBSET (0..NumDims)]
    /\ pools \in [Keys -> [Gens -> [capacity : Nat, balance : Int]]]
    /\ buckets \in [Keys -> [Gens -> [Dims ->
          [capacity : Nat, rate : Nat, balance : Nat, last : Nat]]]]
    /\ sources \in [SourceKeys -> Nat]
    /\ spent \in [Keys -> [Gens -> [Dims -> Nat]]]
    /\ req \in [Requests -> [pc : {"idle", "reserving", "unwinding", "granted",
                                   "forwarded", "settling", "releasing", "done"},
                             plan : Seq(ScopeSpec), gens : Seq(Gens),
                             est : [Dims -> Nat], actual : [Dims -> Nat],
                             pos : Nat, at : Nat, leases : SUBSET Objects,
                             holds : SUBSET (Objects \X Dims),
                             forwarded : BOOLEAN, settled : BOOLEAN]]

(* INV-15, pools: the slots in use are exactly the leases held, through    *)
(* denials that unwind, settlements and releases; balance is never         *)
(* negative (ConcurrencyPool, LeaseHandle.Release).                        *)
LeaseConservation ==
    \A k \in Keys, g \in Gens :
        /\ InUse(k, g) = Cardinality(LeaseHolders(k, g))
        /\ pools[k][g].balance >= 0

(* All or nothing: a request that is not being served holds nothing, so a  *)
(* denied ProvisionUsageContext leaves no lease and no reservation behind. *)
NothingLeftBehind ==
    \A r \in Requests : req[r].pc \in {"idle", "done"} =>
        req[r].leases = {} /\ req[r].holds = {}

(* INV-15, buckets: a bucket never charges more than the reservations held *)
(* plus the usage committed, and without refill charges exactly that: a    *)
(* cancelled, settled or forwarded reservation is accounted once.          *)
BucketLedger ==
    \A k \in Keys, g \in Gens, d \in Dims :
        LET b == buckets[k][g][d]
            owed == Held(k, g, d) + spent[k][g][d]
        IN  /\ b.balance <= owed
            /\ b.rate = 0 => b.balance = owed

(* The leases on the keys of S, and the reservations on them that can      *)
(* still be charged, are on objects the maps hold.                         *)
HoldsInMaps(S) ==
    \A r \in Requests :
        /\ \A o \in req[r].leases : o[1] \in S => o[2] = gen[o[1]]
        /\ req[r].pc \in {"reserving", "granted", "forwarded", "settling"} =>
              \A h \in req[r].holds : h[1][1] \in S => h[1][2] = gen[h[1][1]]

(* Evicting a source never discards live accounting                        *)
(* (evictSourceScopeLocked), whatever interleaves with it.                 *)
NoOrphanHolds == HoldsInMaps(Keys \ Removable)

(* Nor does RemoveScope, its comment says; it does, between a request's    *)
(* resolution of its gauges and their acquisition.                         *)
NoRemovedHolds == HoldsInMaps(Removable)

(* The cap of a scope that is not removed holds whatever interleaves: a    *)
(* grant under cap c leaves at most c leases on the scope, counting every  *)
(* object of its key.                                                      *)
ScopeCapHolds ==
    [][\A r \in Requests : req[r].pc = "reserving" =>
          \A o \in req'[r].leases \ req[r].leases :
             o[1] \notin Removable =>
                Cardinality({x \in Requests \X Gens :
                                <<o[1], x[2]>> \in req'[x[1]].leases}) <= SpecOf(req[r]).cap]_vars
=============================================================================
