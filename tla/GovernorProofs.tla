---------------------------- MODULE GovernorProofs ----------------------------
(***************************************************************************)
(* Proofs about Governor, for every finite set of requests and every set   *)
(* of plans: the leases of every pool, what a finished request leaves      *)
(* behind, the ledger of every bucket and, when requests reach their       *)
(* gauges before a source counts as idle (Timely), what the eviction of a  *)
(* source may discard.                                                     *)
(***************************************************************************)
EXTENDS Governor, TLAPS, FiniteSetTheorems, SequenceTheorems

Serving == {"reserving", "granted", "forwarded", "settling"}

Over == {"idle", "done"}

Request ==
    [pc : {"idle", "reserving", "unwinding", "granted", "forwarded", "settling", "releasing", "done"},
     plan : Seq(ScopeSpec), gens : Seq(Gens), est : [Dims -> Nat], actual : [Dims -> Nat],
     pos : Nat, at : Nat, leases : SUBSET Objects, holds : SUBSET (Objects \X Dims),
     forwarded : BOOLEAN, settled : BOOLEAN]

Bucket == [capacity : Nat, rate : Nat, balance : Nat, last : Nat]

Positions(q) == 1..LastPos(q.plan)

(* The scope and the object of the gauge at position p of a request.       *)
SpecAt(q, p) == q.plan[ScopeAt(q.plan, p)]

ObjAt(q, p) == <<q.plan[ScopeAt(q.plan, p)].key, q.gens[ScopeAt(q.plan, p)]>>

(* The gauge at position p may be held: it was passed on the way up, and   *)
(* not yet on the way back.                                                *)
Passed(q, p) ==
    /\ q.pc \notin Over
    /\ q.pc = "reserving" => p < q.pos
    /\ q.pc = "unwinding" => p <= q.pos
    /\ q.pc = "releasing" => p >= q.pos

PlanInv(q) ==
    /\ Len(q.plan) > 0 /\ Len(q.gens) = Len(q.plan)
    /\ \A i, j \in 1..Len(q.plan) : q.plan[i].key = q.plan[j].key => i = j
    /\ q.pc \in {"reserving", "settling", "releasing"} => q.pos \in Positions(q)
    /\ q.pc = "unwinding" => q.pos \in 0..LastPos(q.plan)

(* What a request holds is at positions it has passed.                     *)
HeldInv(q) ==
    /\ \A o \in q.leases : \E p \in Positions(q) :
          Passed(q, p) /\ Stage(q.plan, p) = 0 /\ ObjAt(q, p) = o /\ Enforced(SpecAt(q, p), 0)
    /\ \A h \in q.holds : \E p \in Positions(q) :
          Passed(q, p) /\ Stage(q.plan, p) # 0 /\ h = <<ObjAt(q, p), Stage(q.plan, p)>>

RequestInv(q) == (q.pc \notin Over => PlanInv(q)) /\ HeldInv(q)

RequestsInv == \A r \in Requests : RequestInv(req[r])

(* A request's objects are of a generation that was in the maps, and the   *)
(* gauges it resolved exist for as long as that generation is.             *)
KnownObjects(q) ==
    \A i \in 1..Len(q.plan) :
        LET k == q.plan[i].key IN
        /\ q.gens[i] <= gen[k]
        /\ q.gens[i] = gen[k] => \A s \in 0..NumDims : Enforced(q.plan[i], s) => s \in made[k]

ObjectsInv == \A r \in Requests : req[r].pc \notin Over => KnownObjects(req[r])

IInv == TypeOK /\ RequestsInv /\ ObjectsInv /\ LeaseConservation

-----------------------------------------------------------------------------
(* A request reaches its gauges before the source it comes from counts as  *)
(* idle, and the concurrency of every source is limited.                   *)
Timely ==
    /\ MaxStall < SourceIdle
    /\ \A plan \in Plans : plan[1].key \in SourceKeys => Enforced(plan[1], 0)

(* A request that is on its way up resolved its gauges a moment ago, so    *)
(* its objects are still in the maps.                                      *)
RecentInv(q) ==
    q.pc = "reserving" =>
        /\ q.at > 0 /\ q.at <= now /\ now - q.at <= MaxStall
        /\ \A i \in 1..Len(q.plan) : q.plan[i].key \notin Removable =>
              /\ q.gens[i] = gen[q.plan[i].key]
              /\ q.plan[i].key \in SourceKeys => sources[q.plan[i].key] >= q.at

(* It holds the leases of all pools it has passed.                         *)
LeasedInv(q) ==
    /\ q.pc \notin Over => \A i \in 1..Len(q.plan) : q.plan[i].key \in SourceKeys => Enforced(q.plan[i], 0)
    /\ q.pc \in Serving => \A p \in Positions(q) :
          Passed(q, p) /\ Stage(q.plan, p) = 0 /\ Enforced(SpecAt(q, p), 0) => ObjAt(q, p) \in q.leases

(* What it holds is in the maps.                                           *)
CurrentInv(q) ==
    /\ \A o \in q.leases : o[1] \notin Removable => o[2] = gen[o[1]]
    /\ q.pc \in Serving => \A h \in q.holds : h[1][1] \notin Removable => h[1][2] = gen[h[1][1]]

TInv == \A r \in Requests : RecentInv(req[r]) /\ LeasedInv(req[r]) /\ CurrentInv(req[r])

(* What every step keeps.                                                  *)
Kept == IInv' /\ (Timely /\ TInv => TInv')

-----------------------------------------------------------------------------
(***************************************************************************)
(* Positions.                                                              *)
(***************************************************************************)
LEMMA Division ==
    ASSUME NEW a \in Nat, NEW n \in Nat \ {0}
    PROVE  /\ a \div n \in Nat /\ a % n \in 0..(n - 1)
           /\ a = n * (a \div n) + (a % n)
  OBVIOUS

LEMMA Product ==
    ASSUME NEW n \in Nat \ {0}, NEW a \in Nat, NEW b \in Nat, a >= b
    PROVE  n * a >= n * b
  OBVIOUS

(* A grid of d + 1 rows of n.                                              *)
LEMMA Grid ==
    ASSUME NEW n \in Nat \ {0}, NEW d \in Nat
    PROVE  /\ n * (d + 1) \in Nat /\ n * (d + 1) >= n
           /\ \A p \in 1..(n * (d + 1)) :
                 /\ (p - 1) \div n \in 0..d /\ ((p - 1) % n) + 1 \in 1..n
                 /\ (p - 1) \div n = 0 => ((p - 1) % n) + 1 = p
           /\ \A i \in 1..n : (i - 1) \div n = 0 /\ ((i - 1) % n) + 1 = i
  <1> DEFINE m == n * (d + 1)
  <1>1. m \in Nat
    OBVIOUS
  <1>2. m >= n
    <2>1. n * (d + 1) >= n * 1
      BY Product
    <2>2. n * 1 = n
      OBVIOUS
    <2> QED
      BY <2>1, <2>2
  <1>3. ASSUME NEW p \in 1..m
        PROVE  /\ (p - 1) \div n \in 0..d /\ ((p - 1) % n) + 1 \in 1..n
               /\ (p - 1) \div n = 0 => ((p - 1) % n) + 1 = p
    <2>1. PICK a \in Nat : a = p - 1
      BY <1>1
    <2>2. a < m
      BY <1>1, <2>1
    <2>3. PICK s \in Nat : s = a \div n
      BY Division
    <2>4. PICK t \in 0..(n - 1) : t = a % n
      BY Division
    <2>5. a = n * s + t
      BY <2>3, <2>4, Division
    <2>6. s <= d
      <3> SUFFICES ASSUME s >= d + 1 PROVE FALSE
        OBVIOUS
      <3>1. n * s >= m
        BY Product
      <3> DEFINE u == n * s
      <3>2. u \in Nat
        OBVIOUS
      <3> HIDE DEF u, m
      <3> QED
        BY <1>1, <2>2, <2>5, <3>1, <3>2 DEF u
    <2>7. s = 0 => t = a
      <3>1. n * 0 = 0
        OBVIOUS
      <3> QED
        BY <2>5, <3>1
    <2> QED
      BY <2>1, <2>3, <2>4, <2>6, <2>7
  <1>4. ASSUME NEW i \in 1..n
        PROVE  (i - 1) \div n = 0 /\ ((i - 1) % n) + 1 = i
    OBVIOUS
  <1> QED
    BY <1>1, <1>2, <1>3, <1>4

LEMMA PositionFacts ==
    ASSUME NEW plan \in Seq(ScopeSpec), Len(plan) > 0
    PROVE  /\ LastPos(plan) \in Nat /\ LastPos(plan) >= Len(plan)
           /\ \A p \in 1..LastPos(plan) :
                 /\ ScopeAt(plan, p) \in 1..Len(plan) /\ Stage(plan, p) \in 0..NumDims
                 /\ Stage(plan, p) = 0 => ScopeAt(plan, p) = p
           /\ \A i \in 1..Len(plan) : Stage(plan, i) = 0 /\ ScopeAt(plan, i) = i
  <1>1. PICK n \in Nat \ {0} : n = Len(plan)
    OBVIOUS
  <1>2. PICK d \in Nat : d = NumDims
    BY PlanAssumption
  <1>3. LastPos(plan) = n * (d + 1)
    BY <1>1, <1>2 DEF LastPos
  <1>4. \A p : Stage(plan, p) = (p - 1) \div n /\ ScopeAt(plan, p) = ((p - 1) % n) + 1
    BY <1>1 DEF Stage, ScopeAt
  <1> QED
    BY <1>1, <1>2, <1>3, <1>4, Grid

-----------------------------------------------------------------------------
(***************************************************************************)
(* Buckets and requests.                                                   *)
(***************************************************************************)
LEMMA RefillType ==
    ASSUME NEW b \in Bucket, now \in Nat
    PROVE  Refill(b) \in Bucket
  <1>1. PICK t \in Int : t = (now - b.last) * b.rate
    BY DEF Bucket
  <1>2. AtLeastZero(b.balance - t) \in Nat
    BY DEF AtLeastZero, Bucket
  <1>3. Refill(b) = b \/ Refill(b) = [b EXCEPT !.balance = AtLeastZero(b.balance - t), !.last = now]
    BY <1>1 DEF Refill
  <1> QED
    BY <1>2, <1>3 DEF Bucket

LEMMA BucketTypes ==
    ASSUME now \in Nat
    PROVE  /\ \A cap, rate \in Nat : NewTokenBucket(cap, rate) \in Bucket
           /\ \A b \in Bucket : \A cap, rate \in Nat : Reconfigure(b, cap, rate) \in Bucket
           /\ \A b \in Bucket : \A a \in Nat : /\ CancelBucket(b, a) \in Bucket
                                               /\ [b EXCEPT !.balance = @ + a] \in Bucket
           /\ \A b \in Bucket : \A a, c \in Nat : SettleBucket(b, a, c) \in Bucket
  <1>1. ASSUME NEW cap \in Nat, NEW rate \in Nat PROVE NewTokenBucket(cap, rate) \in Bucket
    BY DEF NewTokenBucket, Bucket
  <1>2. ASSUME NEW b \in Bucket, NEW cap \in Nat, NEW rate \in Nat PROVE Reconfigure(b, cap, rate) \in Bucket
    <2>1. Refill(b) \in Bucket
      BY RefillType
    <2> QED
      BY <2>1 DEF Reconfigure, Bucket
  <1>3. ASSUME NEW b \in Bucket, NEW a \in Nat
        PROVE  CancelBucket(b, a) \in Bucket /\ [b EXCEPT !.balance = @ + a] \in Bucket
    BY DEF CancelBucket, AtLeastZero, Bucket
  <1>4. ASSUME NEW b \in Bucket, NEW a \in Nat, NEW c \in Nat PROVE SettleBucket(b, a, c) \in Bucket
    BY DEF SettleBucket, AtLeastZero, Bucket
  <1> QED
    BY <1>1, <1>2, <1>3, <1>4

LEMMA IdleFacts ==
    /\ Idle \in Request /\ Idle.pc = "idle" /\ Idle.leases = {} /\ Idle.holds = {}
    /\ \A q \in Request : /\ Done(q) \in Request /\ Done(q).pc = "done"
                          /\ Done(q).leases = q.leases /\ Done(q).holds = q.holds
  <1>1. <<>> \in Seq(ScopeSpec) /\ <<>> \in Seq(Gens)
    OBVIOUS
  <1> DEFINE none == [d \in Dims |-> 0]
  <1>2. none \in [Dims -> Nat]
    OBVIOUS
  <1>3. Idle = [pc |-> "idle", plan |-> <<>>, gens |-> <<>>, est |-> none, actual |-> none, pos |-> 0,
                at |-> 0, leases |-> {}, holds |-> {}, forwarded |-> FALSE, settled |-> FALSE]
    BY DEF Idle
  <1> HIDE DEF none
  <1>4. Idle \in Request /\ Idle.pc = "idle" /\ Idle.leases = {} /\ Idle.holds = {}
    BY <1>1, <1>2, <1>3 DEF Request
  <1>5. ASSUME NEW q \in Request
        PROVE  /\ Done(q) \in Request /\ Done(q).pc = "done"
               /\ Done(q).leases = q.leases /\ Done(q).holds = q.holds
    BY <1>4 DEF Done, Request
  <1> QED
    BY <1>4, <1>5

(* The gauge a request is at.                                              *)
LEMMA GaugeFacts ==
    ASSUME NEW q \in Request, PlanInv(q), NEW p \in Positions(q)
    PROVE  /\ ScopeAt(q.plan, p) \in 1..Len(q.plan) /\ Stage(q.plan, p) \in 0..NumDims
           /\ Stage(q.plan, p) # 0 => Stage(q.plan, p) \in Dims
           /\ SpecAt(q, p) \in ScopeSpec /\ ObjAt(q, p) \in Objects
           /\ ObjAt(q, p)[1] = SpecAt(q, p).key /\ ObjAt(q, p)[2] = q.gens[ScopeAt(q.plan, p)]
           /\ ObjAt(q, p)[1] \in Keys /\ ObjAt(q, p)[2] \in Gens
           /\ p \in Nat /\ p > 0 /\ p <= LastPos(q.plan) /\ LastPos(q.plan) \in Nat
  <1>1. q.plan \in Seq(ScopeSpec) /\ q.gens \in Seq(Gens) /\ Len(q.plan) > 0 /\ Len(q.gens) = Len(q.plan)
    BY DEF Request, PlanInv
  <1>2. /\ ScopeAt(q.plan, p) \in 1..Len(q.plan) /\ Stage(q.plan, p) \in 0..NumDims
        /\ LastPos(q.plan) \in Nat
    BY <1>1, PositionFacts DEF Positions
  <1> DEFINE i == ScopeAt(q.plan, p)
  <1> HIDE DEF i
  <1>3. i \in 1..Len(q.plan)
    BY <1>2 DEF i
  <1>4. q.plan[i] \in ScopeSpec /\ q.gens[i] \in Gens
    BY <1>1, <1>3
  <1>5. SpecAt(q, p) = q.plan[i] /\ ObjAt(q, p) = <<q.plan[i].key, q.gens[i]>>
    BY DEF SpecAt, ObjAt, i
  <1>6. q.plan[i].key \in Keys
    BY <1>4 DEF ScopeSpec
  <1>7. Stage(q.plan, p) # 0 => Stage(q.plan, p) \in Dims
    BY <1>2, PlanAssumption DEF Dims
  <1> QED
    BY <1>2, <1>4, <1>5, <1>6, <1>7 DEF Objects, Positions, i

(* Two pools of one plan are of different scopes.                          *)
LEMMA PoolsDiffer ==
    ASSUME NEW q \in Request, PlanInv(q), NEW p \in Positions(q), NEW u \in Positions(q),
           Stage(q.plan, p) = 0, Stage(q.plan, u) = 0, ObjAt(q, p) = ObjAt(q, u)
    PROVE  p = u
  <1>1. q.plan \in Seq(ScopeSpec) /\ Len(q.plan) > 0
    BY DEF Request, PlanInv
  <1>2. ScopeAt(q.plan, p) = p /\ ScopeAt(q.plan, u) = u
    BY <1>1, PositionFacts DEF Positions
  <1>3. p \in 1..Len(q.plan) /\ u \in 1..Len(q.plan)
    BY <1>2, GaugeFacts
  <1>4. q.plan[p].key = q.plan[u].key
    BY <1>2 DEF ObjAt
  <1> QED
    BY <1>3, <1>4 DEF PlanInv

LEMMA AdvanceFacts ==
    ASSUME NEW q \in Request, PlanInv(q), q.pc = "reserving"
    PROVE  LET x == Advance(q) IN
           /\ x \in Request /\ x.plan = q.plan /\ x.gens = q.gens /\ x.leases = q.leases
           /\ x.holds = q.holds /\ x.pc \in {"reserving", "granted"} /\ x.est = q.est
           /\ x.pc = "reserving" => x.at = q.at
           /\ PlanInv(x)
           /\ \A p \in Positions(q) : Passed(x, p) <=> Passed(q, p) \/ p = q.pos
  <1>1. /\ q.pos \in Nat /\ q.pos > 0 /\ q.pos <= LastPos(q.plan) /\ LastPos(q.plan) \in Nat
        /\ \A p \in Positions(q) : p \in Nat /\ p <= LastPos(q.plan)
    BY GaugeFacts DEF PlanInv
  <1>2. CASE q.pos = LastPos(q.plan)
    <2> DEFINE x == [q EXCEPT !.pc = "granted", !.at = 0]
    <2>1. /\ x \in Request /\ x.plan = q.plan /\ x.gens = q.gens /\ x.leases = q.leases
          /\ x.holds = q.holds /\ x.pc = "granted" /\ x.est = q.est
      BY DEF Request
    <2>2. Advance(q) = x
      BY <1>2 DEF Advance
    <2> HIDE DEF x
    <2>3. PlanInv(x)
      BY <2>1 DEF PlanInv
    <2>4. \A p \in Positions(q) : Passed(x, p) <=> Passed(q, p) \/ p = q.pos
      BY <1>1, <1>2, <2>1 DEF Passed, Over
    <2> QED
      BY <2>1, <2>2, <2>3, <2>4
  <1>3. CASE q.pos # LastPos(q.plan)
    <2>0. PICK w \in Nat : w = q.pos + 1
      BY <1>1
    <2> DEFINE x == [q EXCEPT !.pos = w]
    <2>1. /\ x \in Request /\ x.plan = q.plan /\ x.gens = q.gens /\ x.leases = q.leases
          /\ x.holds = q.holds /\ x.pc = "reserving" /\ x.at = q.at /\ x.pos = w /\ x.est = q.est
      BY DEF Request
    <2>2. Advance(q) = x
      BY <1>3, <2>0 DEF Advance
    <2> HIDE DEF x
    <2>3. PlanInv(x)
      BY <1>1, <1>3, <2>0, <2>1 DEF PlanInv, Positions
    <2>4. \A p \in Positions(q) : Passed(x, p) <=> Passed(q, p) \/ p = q.pos
      BY <1>1, <2>0, <2>1 DEF Passed, Over
    <2> QED
      BY <2>1, <2>2, <2>3, <2>4
  <1> QED
    BY <1>2, <1>3

LEMMA DenyFacts ==
    ASSUME NEW q \in Request, PlanInv(q), q.pc = "reserving"
    PROVE  LET x == Deny(q) IN
           /\ x \in Request /\ x.plan = q.plan /\ x.gens = q.gens /\ x.leases = q.leases
           /\ x.holds = q.holds /\ x.pc = "unwinding" /\ x.est = q.est
           /\ PlanInv(x)
           /\ \A p \in Positions(q) : Passed(q, p) => Passed(x, p)
  <1>1. /\ q.pos \in Nat /\ q.pos > 0 /\ q.pos <= LastPos(q.plan) /\ LastPos(q.plan) \in Nat
        /\ \A p \in Positions(q) : p \in Nat /\ p <= LastPos(q.plan)
    BY GaugeFacts DEF PlanInv
  <1>2. PICK w \in Nat : w = q.pos - 1
    BY <1>1
  <1> DEFINE x == [q EXCEPT !.pc = "unwinding", !.pos = w, !.at = 0]
  <1>3. /\ x \in Request /\ x.plan = q.plan /\ x.gens = q.gens /\ x.leases = q.leases
        /\ x.holds = q.holds /\ x.pc = "unwinding" /\ x.pos = w /\ x.est = q.est
    BY DEF Request
  <1>4. Deny(q) = x
    BY <1>2 DEF Deny
  <1> HIDE DEF x
  <1>5. PlanInv(x)
    BY <1>1, <1>2, <1>3 DEF PlanInv
  <1>6. \A p \in Positions(q) : Passed(q, p) => Passed(x, p)
    BY <1>1, <1>2, <1>3 DEF Passed, Over
  <1> QED
    BY <1>3, <1>4, <1>5, <1>6

(* A request keeps what it holds, except for gauges it gives back, and     *)
(* takes what it passes.                                                   *)
LEMMA HeldMono ==
    ASSUME NEW q, NEW x, x.plan = q.plan, x.gens = q.gens, HeldInv(q),
           \A p \in Positions(q) : Passed(q, p) =>
              \/ Passed(x, p)
              \/ /\ Stage(q.plan, p) = 0 => ObjAt(q, p) \notin x.leases
                 /\ Stage(q.plan, p) # 0 => <<ObjAt(q, p), Stage(q.plan, p)>> \notin x.holds,
           \A o \in x.leases : o \notin q.leases => \E p \in Positions(q) :
              Passed(x, p) /\ Stage(q.plan, p) = 0 /\ ObjAt(q, p) = o /\ Enforced(SpecAt(q, p), 0),
           \A h \in x.holds : h \notin q.holds => \E p \in Positions(q) :
              Passed(x, p) /\ Stage(q.plan, p) # 0 /\ h = <<ObjAt(q, p), Stage(q.plan, p)>>
    PROVE  HeldInv(x)
  <1>1. Positions(x) = Positions(q)
    BY DEF Positions
  <1>2. \A p : ObjAt(x, p) = ObjAt(q, p) /\ SpecAt(x, p) = SpecAt(q, p)
    BY DEF ObjAt, SpecAt
  <1>3. ASSUME NEW o \in x.leases
        PROVE  \E p \in Positions(x) :
                  Passed(x, p) /\ Stage(x.plan, p) = 0 /\ ObjAt(x, p) = o /\ Enforced(SpecAt(x, p), 0)
    BY <1>1, <1>2 DEF HeldInv
  <1>4. ASSUME NEW h \in x.holds
        PROVE  \E p \in Positions(x) :
                  Passed(x, p) /\ Stage(x.plan, p) # 0 /\ h = <<ObjAt(x, p), Stage(x.plan, p)>>
    BY <1>1, <1>2 DEF HeldInv
  <1> QED
    BY <1>3, <1>4 DEF HeldInv

-----------------------------------------------------------------------------
(***************************************************************************)
(* Leases.                                                                 *)
(***************************************************************************)
Pool == [capacity : Nat, balance : Int]

PoolTable == [Keys -> [Gens -> Pool]]

LEMMA HoldersFinite ==
    ASSUME NEW k, NEW g
    PROVE  /\ IsFiniteSet(LeaseHolders(k, g)) /\ Cardinality(LeaseHolders(k, g)) \in Nat
           /\ IsFiniteSet(LeaseHolders(k, g)')
  <1>1. LeaseHolders(k, g) \subseteq Requests /\ LeaseHolders(k, g)' \subseteq Requests
    BY DEF LeaseHolders
  <1>2. IsFiniteSet(Requests)
    BY UsageAssumption
  <1>3. IsFiniteSet(LeaseHolders(k, g)) /\ IsFiniteSet(LeaseHolders(k, g)')
    BY <1>1, <1>2, FS_Subset
  <1> QED
    BY <1>3, FS_CardinalityType

(* The pools and the leases stay as they are.                              *)
LEMMA SameLeases ==
    ASSUME LeaseConservation, pools' = pools, \A r \in Requests : req'[r].leases = req[r].leases
    PROVE  LeaseConservation'
  <1>1. \A k, g : LeaseHolders(k, g)' = LeaseHolders(k, g)
    BY DEF LeaseHolders
  <1> QED
    BY <1>1 DEF LeaseConservation, InUse

(* A slot of object o changes hands: the balance falls by t, and the       *)
(* holders of o become c more.                                             *)
LEMMA OneObject ==
    ASSUME LeaseConservation, NEW k \in Keys, NEW g \in Gens, pools \in PoolTable, NEW b \in Int,
           pools' = [pools EXCEPT ![k][g].balance = b],
           b >= 0, pools[k][g].capacity - b = Cardinality(LeaseHolders(k, g)'),
           \A r \in Requests : \A o \in Objects :
              o # <<k, g>> => (o \in req'[r].leases <=> o \in req[r].leases)
    PROVE  LeaseConservation' /\ pools' \in PoolTable
  <1>1. pools' \in PoolTable
    BY DEF PoolTable, Pool
  <1>2. /\ pools'[k][g].capacity = pools[k][g].capacity /\ pools'[k][g].balance = b
        /\ \A l \in Keys, h \in Gens : l # k \/ h # g => pools'[l][h] = pools[l][h]
    BY DEF PoolTable, Pool
  <1>3. ASSUME NEW l \in Keys, NEW h \in Gens
        PROVE  InUse(l, h)' = Cardinality(LeaseHolders(l, h)') /\ pools'[l][h].balance >= 0
    <2>1. CASE l = k /\ h = g
      BY <1>2, <2>1 DEF InUse
    <2>2. CASE l # k \/ h # g
      <3>1. <<l, h>> \in Objects /\ <<l, h>> # <<k, g>>
        BY <2>2 DEF Objects
      <3>2. LeaseHolders(l, h)' = LeaseHolders(l, h)
        BY <3>1 DEF LeaseHolders
      <3>3. InUse(l, h) = Cardinality(LeaseHolders(l, h)) /\ pools[l][h].balance >= 0
        BY DEF LeaseConservation
      <3>4. pools'[l][h] = pools[l][h]
        BY <1>2, <2>2
      <3>5. InUse(l, h)' = InUse(l, h)
        BY <3>4 DEF InUse
      <3> QED
        BY <3>2, <3>3, <3>4, <3>5
    <2> QED
      BY <2>1, <2>2
  <1> QED
    BY <1>1, <1>3 DEF LeaseConservation

LEMMA TakeLease ==
    ASSUME LeaseConservation, NEW o \in Objects, pools \in PoolTable, NEW r \in Requests,
           o \notin req[r].leases, req'[r].leases = req[r].leases \cup {o},
           \A x \in Requests : x # r => req'[x].leases = req[x].leases,
           pools' = [pools EXCEPT ![o[1]][o[2]].balance = @ - 1],
           pools[o[1]][o[2]].balance >= 1
    PROVE  LeaseConservation' /\ pools' \in PoolTable
  <1> DEFINE k == o[1]
             g == o[2]
  <1>1. k \in Keys /\ g \in Gens /\ o = <<k, g>>
    BY DEF Objects
  <1>2. PICK b \in Int : b = pools[k][g].balance - 1
    BY <1>1 DEF PoolTable, Pool
  <1>3. pools' = [pools EXCEPT ![k][g].balance = b] /\ b >= 0
    BY <1>1, <1>2 DEF PoolTable, Pool
  <1> HIDE DEF k, g
  <1>4. LeaseHolders(k, g)' = LeaseHolders(k, g) \cup {r} /\ r \notin LeaseHolders(k, g)
    BY <1>1 DEF LeaseHolders
  <1>5. Cardinality(LeaseHolders(k, g)') = Cardinality(LeaseHolders(k, g)) + 1
    BY <1>4, HoldersFinite, FS_AddElement
  <1>6. pools[k][g].capacity - pools[k][g].balance = Cardinality(LeaseHolders(k, g))
    BY <1>1 DEF LeaseConservation, InUse
  <1>7. pools[k][g].capacity - b = Cardinality(LeaseHolders(k, g)')
    <2>1. pools[k][g].capacity \in Int /\ pools[k][g].balance \in Int
      BY <1>1 DEF PoolTable, Pool
    <2> QED
      BY <1>2, <1>5, <1>6, <2>1
  <1>8. \A x \in Requests : \A p \in Objects :
              p # <<k, g>> => (p \in req'[x].leases <=> p \in req[x].leases)
    BY <1>1
  <1> QED
    BY <1>1, <1>3, <1>7, <1>8, OneObject

LEMMA ReturnLease ==
    ASSUME LeaseConservation, NEW o \in Objects, pools \in PoolTable, NEW r \in Requests,
           o \in req[r].leases, req'[r].leases = req[r].leases \ {o},
           \A x \in Requests : x # r => req'[x].leases = req[x].leases,
           pools' = [pools EXCEPT ![o[1]][o[2]].balance = @ + 1]
    PROVE  LeaseConservation' /\ pools' \in PoolTable
  <1> DEFINE k == o[1]
             g == o[2]
  <1>1. k \in Keys /\ g \in Gens /\ o = <<k, g>>
    BY DEF Objects
  <1>2. PICK b \in Int : b = pools[k][g].balance + 1
    BY <1>1 DEF PoolTable, Pool
  <1>3. pools[k][g].balance >= 0 /\ pools[k][g].balance \in Int /\ pools[k][g].capacity \in Int
    BY <1>1 DEF PoolTable, Pool, LeaseConservation
  <1>4. pools' = [pools EXCEPT ![k][g].balance = b] /\ b >= 0
    BY <1>1, <1>2, <1>3 DEF PoolTable, Pool
  <1> HIDE DEF k, g
  <1>5. LeaseHolders(k, g)' = LeaseHolders(k, g) \ {r} /\ r \in LeaseHolders(k, g)
    BY <1>1 DEF LeaseHolders
  <1>6. Cardinality(LeaseHolders(k, g)') = Cardinality(LeaseHolders(k, g)) - 1
    BY <1>5, HoldersFinite, FS_RemoveElement
  <1>7. pools[k][g].capacity - pools[k][g].balance = Cardinality(LeaseHolders(k, g))
    BY <1>1 DEF LeaseConservation, InUse
  <1>8. pools[k][g].capacity - b = Cardinality(LeaseHolders(k, g)')
    BY <1>2, <1>3, <1>6, <1>7
  <1>9. \A x \in Requests : \A p \in Objects :
              p # <<k, g>> => (p \in req'[x].leases <=> p \in req[x].leases)
    BY <1>1
  <1> QED
    BY <1>1, <1>4, <1>8, <1>9, OneObject

-----------------------------------------------------------------------------
(***************************************************************************)
(* A step of one request; x is the request afterwards.                     *)
(***************************************************************************)
BucketTable == [Keys -> [Gens -> [Dims -> Bucket]]]

SpentTable == [Keys -> [Gens -> [Dims -> Nat]]]

(* What is left to check of the request when the step is timely.           *)
TimelyStep(q, x) ==
    /\ x.pc = "reserving" => q.pc = "reserving" /\ x.at = q.at
    /\ x.pc \in Serving => \A p \in Positions(x) :
          Passed(x, p) /\ Stage(x.plan, p) = 0 /\ Enforced(SpecAt(x, p), 0) => ObjAt(x, p) \in x.leases
    /\ CurrentInv(x)

LEMMA OneRequest ==
    ASSUME IInv, NEW r \in Requests, NEW x \in Request, req' = [req EXCEPT ![r] = x],
           UNCHANGED <<now, gen, made, sources>>,
           pools' \in PoolTable, buckets' \in BucketTable, spent' \in SpentTable,
           x.pc \notin Over => x.plan = req[r].plan /\ x.gens = req[r].gens /\ req[r].pc \notin Over,
           x.pc \notin Over => PlanInv(x),
           HeldInv(x), LeaseConservation',
           Timely /\ TInv => TimelyStep(req[r], x)
    PROVE  Kept
  <1>1. \A s \in Requests : req'[s] = IF s = r THEN x ELSE req[s]
    BY DEF IInv, TypeOK
  <1>2. TypeOK'
    BY DEF IInv, TypeOK, Request, Bucket, Pool, PoolTable, BucketTable, SpentTable
  <1>3. RequestsInv'
    BY <1>1 DEF IInv, RequestsInv, RequestInv
  <1>4. ObjectsInv'
    <2> SUFFICES ASSUME NEW s \in Requests, req'[s].pc \notin Over PROVE KnownObjects(req[s])'
      BY DEF ObjectsInv
    <2>1. req'[s].plan = req[s].plan /\ req'[s].gens = req[s].gens /\ req[s].pc \notin Over
      BY <1>1
    <2> QED
      BY <2>1 DEF IInv, ObjectsInv, KnownObjects
  <1>5. ASSUME Timely, TInv PROVE TInv'
    <2>1. TimelyStep(req[r], x)
      BY <1>5
    <2> SUFFICES ASSUME NEW s \in Requests
                 PROVE  (RecentInv(req[s]) /\ LeasedInv(req[s]) /\ CurrentInv(req[s]))'
      BY DEF TInv
    <2>2. CASE s # r
      BY <1>1, <1>5, <2>2 DEF TInv, RecentInv, LeasedInv, CurrentInv
    <2>3. CASE s = r
      <3>1. req'[s] = x /\ RecentInv(req[s]) /\ LeasedInv(req[s])
        BY <1>1, <1>5, <2>3 DEF TInv
      <3>2. RecentInv(req[s])'
        BY <2>1, <2>3, <3>1 DEF TimelyStep, RecentInv, Over
      <3>3. LeasedInv(req[s])'
        BY <2>1, <2>3, <3>1 DEF TimelyStep, LeasedInv
      <3>4. CurrentInv(req[s])'
        BY <2>1, <3>1 DEF TimelyStep, CurrentInv
      <3> QED
        BY <3>2, <3>3, <3>4
    <2> QED
      BY <2>2, <2>3
  <1> QED
    BY <1>2, <1>3, <1>4, <1>5 DEF IInv, Kept

LEMMA Typed ==
    ASSUME IInv
    PROVE  /\ now \in Nat /\ now > 0 /\ pools \in PoolTable /\ buckets \in BucketTable /\ spent \in SpentTable
           /\ gen \in [Keys -> Gens] /\ made \in [Keys -> SUBSET (0..NumDims)]
           /\ sources \in [SourceKeys -> Nat] /\ req \in [Requests -> Request]
           /\ LeaseConservation
           /\ \A r \in Requests : /\ req[r] \in Request /\ HeldInv(req[r])
                                  /\ req[r].pc \notin Over => PlanInv(req[r])
                                  /\ req = [req EXCEPT ![r] = req[r]]
  <1>1. /\ now \in Nat /\ now > 0 /\ pools \in PoolTable /\ buckets \in BucketTable /\ spent \in SpentTable
        /\ gen \in [Keys -> Gens] /\ made \in [Keys -> SUBSET (0..NumDims)]
        /\ sources \in [SourceKeys -> Nat] /\ req \in [Requests -> Request]
    BY DEF IInv, TypeOK, Request, Bucket, Pool, PoolTable, BucketTable, SpentTable
  <1>2. LeaseConservation /\ \A r \in Requests : HeldInv(req[r]) /\ (req[r].pc \notin Over => PlanInv(req[r]))
    BY DEF IInv, RequestsInv, RequestInv
  <1> QED
    BY <1>1, <1>2

(* The gauge at which a request stands.                                    *)
LEMMA AtGauge ==
    ASSUME IInv, NEW r \in Requests,
           \/ req[r].pc \in {"reserving", "settling", "releasing"}
           \/ req[r].pc = "unwinding" /\ req[r].pos > 0
    PROVE  LET q == req[r] IN
           /\ q \in Request /\ PlanInv(q) /\ HeldInv(q)
           /\ q.pos \in Positions(q) /\ q.pos \in Nat
           /\ Obj(q) = ObjAt(q, q.pos) /\ SpecOf(q) = SpecAt(q, q.pos) /\ AtStage(q) = Stage(q.plan, q.pos)
           /\ Obj(q) \in Objects /\ Obj(q)[1] \in Keys /\ Obj(q)[2] \in Gens
           /\ SpecOf(q) \in ScopeSpec /\ AtStage(q) \in 0..NumDims
           /\ AtStage(q) # 0 => AtStage(q) \in Dims
           /\ Timely /\ TInv /\ q.pc = "reserving" => (Obj(q)[1] \notin Removable => Obj(q)[2] = gen[Obj(q)[1]])
  <1> DEFINE q == req[r]
  <1>1. q \in Request /\ HeldInv(q) /\ PlanInv(q)
    BY Typed DEF Over
  <1>2. q.pos \in Positions(q)
    <2>1. LastPos(q.plan) \in Nat
      BY <1>1, PositionFacts DEF PlanInv, Request
    <2> QED
      BY <1>1, <2>1 DEF PlanInv, Positions
  <1>3. Obj(q) = ObjAt(q, q.pos) /\ SpecOf(q) = SpecAt(q, q.pos) /\ AtStage(q) = Stage(q.plan, q.pos)
    BY DEF Obj, ObjAt, SpecOf, SpecAt, AtStage
  <1>4. TInv => RecentInv(q)
    BY DEF TInv
  <1> HIDE DEF q
  <1>5. /\ ScopeAt(q.plan, q.pos) \in 1..Len(q.plan) /\ Stage(q.plan, q.pos) \in 0..NumDims
        /\ Stage(q.plan, q.pos) # 0 => Stage(q.plan, q.pos) \in Dims
        /\ SpecAt(q, q.pos) \in ScopeSpec /\ ObjAt(q, q.pos) \in Objects
        /\ ObjAt(q, q.pos)[1] \in Keys /\ ObjAt(q, q.pos)[2] \in Gens /\ q.pos \in Nat
    BY <1>1, <1>2, GaugeFacts
  <1>6. TInv /\ q.pc = "reserving" =>
           (ObjAt(q, q.pos)[1] \notin Removable => ObjAt(q, q.pos)[2] = gen[ObjAt(q, q.pos)[1]])
    BY <1>4, <1>5 DEF RecentInv, ObjAt
  <1> QED
    BY <1>1, <1>2, <1>3, <1>5, <1>6 DEF q

(* A reserving request passes its gauge: x has the leases and holds it had,*)
(* and what it took there.                                                 *)
LEMMA UpStep ==
    ASSUME IInv, NEW r \in Requests, req[r].pc = "reserving",
           NEW x \in Request, req' = [req EXCEPT ![r] = x],
           UNCHANGED <<now, gen, made, sources>>,
           pools' \in PoolTable, buckets' \in BucketTable, spent' \in SpentTable, LeaseConservation',
           x.plan = req[r].plan, x.gens = req[r].gens, x.pc \in {"reserving", "granted"},
           x.pc = "reserving" => x.at = req[r].at, PlanInv(x),
           \A p \in Positions(req[r]) : Passed(x, p) <=> Passed(req[r], p) \/ p = req[r].pos,
           \/ x.leases = req[r].leases
           \/ x.leases = req[r].leases \cup {Obj(req[r])} /\ AtStage(req[r]) = 0 /\ Enforced(SpecOf(req[r]), 0),
           AtStage(req[r]) = 0 /\ Enforced(SpecOf(req[r]), 0) => Obj(req[r]) \in x.leases,
           \/ x.holds = req[r].holds
           \/ x.holds = req[r].holds \cup {<<Obj(req[r]), AtStage(req[r])>>} /\ AtStage(req[r]) # 0
    PROVE  Kept
  <1> DEFINE q == req[r]
  <1>1. /\ q \in Request /\ PlanInv(q) /\ HeldInv(q) /\ q.pos \in Positions(q)
        /\ Obj(q) = ObjAt(q, q.pos) /\ SpecOf(q) = SpecAt(q, q.pos) /\ AtStage(q) = Stage(q.plan, q.pos)
        /\ Timely /\ TInv => (Obj(q)[1] \notin Removable => Obj(q)[2] = gen[Obj(q)[1]])
    BY AtGauge
  <1>2. TInv => RecentInv(q) /\ LeasedInv(q) /\ CurrentInv(q)
    BY DEF TInv
  <1>3. q.pc = "reserving" /\ x.plan = q.plan /\ x.gens = q.gens
    OBVIOUS
  <1>4. \A p \in Positions(q) : Passed(x, p) <=> Passed(q, p) \/ p = q.pos
    OBVIOUS
  <1>5. /\ \/ x.leases = q.leases
           \/ x.leases = q.leases \cup {Obj(q)} /\ AtStage(q) = 0 /\ Enforced(SpecOf(q), 0)
        /\ AtStage(q) = 0 /\ Enforced(SpecOf(q), 0) => Obj(q) \in x.leases
        /\ \/ x.holds = q.holds
           \/ x.holds = q.holds \cup {<<Obj(q), AtStage(q)>>} /\ AtStage(q) # 0
        /\ x.pc = "reserving" => x.at = q.at
    OBVIOUS
  <1>6. HeldInv(x)
    <2> HIDE DEF q
    <2>1. \A o \in x.leases : o \notin q.leases => \E p \in Positions(q) :
              Passed(x, p) /\ Stage(q.plan, p) = 0 /\ ObjAt(q, p) = o /\ Enforced(SpecAt(q, p), 0)
      BY <1>1, <1>4, <1>5
    <2>2. \A h \in x.holds : h \notin q.holds => \E p \in Positions(q) :
              Passed(x, p) /\ Stage(q.plan, p) # 0 /\ h = <<ObjAt(q, p), Stage(q.plan, p)>>
      BY <1>1, <1>4, <1>5
    <2> QED
      BY <1>1, <1>3, <1>4, <2>1, <2>2, HeldMono
  <1>7. ASSUME Timely, TInv PROVE TimelyStep(q, x)
    <2> HIDE DEF q
    <2>1. ASSUME NEW p \in Positions(x), Passed(x, p), Stage(x.plan, p) = 0, Enforced(SpecAt(x, p), 0)
          PROVE  ObjAt(x, p) \in x.leases
      <3>1. /\ Positions(x) = Positions(q) /\ ObjAt(x, p) = ObjAt(q, p) /\ SpecAt(x, p) = SpecAt(q, p)
            /\ Stage(q.plan, p) = 0
        BY <1>3, <2>1 DEF Positions, ObjAt, SpecAt
      <3>2. CASE p = q.pos
        BY <1>1, <1>5, <2>1, <3>1, <3>2
      <3>3. CASE p # q.pos
        <4>1. Passed(q, p)
          BY <1>4, <2>1, <3>1, <3>3
        <4>2. ObjAt(q, p) \in q.leases
          BY <1>2, <1>3, <1>7, <2>1, <3>1, <4>1 DEF LeasedInv, Serving
        <4> QED
          BY <1>5, <3>1, <4>2
      <3> QED
        BY <3>2, <3>3
    <2>2. CurrentInv(x)
      <3>1. \A o \in x.leases : o[1] \notin Removable => o[2] = gen[o[1]]
        BY <1>1, <1>2, <1>5, <1>7 DEF CurrentInv
      <3>2. \A h \in q.holds : h[1][1] \notin Removable => h[1][2] = gen[h[1][1]]
        BY <1>2, <1>3, <1>7 DEF CurrentInv, Serving
      <3>3. \A h \in x.holds : h[1][1] \notin Removable => h[1][2] = gen[h[1][1]]
        BY <1>1, <1>5, <1>7, <3>2
      <3> QED
        BY <3>1, <3>3 DEF CurrentInv
    <2> QED
      BY <1>3, <1>5, <2>1, <2>2 DEF TimelyStep
  <1>8. q.pc \notin Over
    BY <1>3 DEF Over
  <1> QED
    BY <1>3, <1>6, <1>7, <1>8, OneRequest

LEMMA SkipGaugeStep ==
    ASSUME IInv, NEW r \in Requests, SkipGauge(r)
    PROVE  Kept
  <1> DEFINE q == req[r]
             x == Advance(q)
  <1>1. q.pc = "reserving" /\ ~Enforced(SpecOf(q), AtStage(q)) /\ req' = [req EXCEPT ![r] = x]
        /\ UNCHANGED <<now, gen, made, pools, buckets, sources, spent>>
    BY DEF SkipGauge
  <1>2. q \in Request /\ PlanInv(q)
    BY <1>1, AtGauge
  <1>3. /\ x \in Request /\ x.plan = q.plan /\ x.gens = q.gens /\ x.leases = q.leases
        /\ x.holds = q.holds /\ x.pc \in {"reserving", "granted"}
        /\ x.pc = "reserving" => x.at = q.at
        /\ PlanInv(x)
        /\ \A p \in Positions(q) : Passed(x, p) <=> Passed(q, p) \/ p = q.pos
    BY <1>1, <1>2, AdvanceFacts
  <1>4. pools' \in PoolTable /\ buckets' \in BucketTable /\ spent' \in SpentTable /\ req \in [Requests -> Request]
    BY <1>1, Typed
  <1>5. LeaseConservation'
    <2>1. \A s \in Requests : req'[s].leases = req[s].leases
      BY <1>1, <1>3, <1>4
    <2> QED
      BY <1>1, <2>1, SameLeases, Typed
  <1>6. ~(AtStage(q) = 0 /\ Enforced(SpecOf(q), 0))
    BY <1>1
  <1> HIDE DEF x
  <1> QED
    BY <1>1, <1>3, <1>4, <1>5, <1>6, UpStep

(* A denial.                                                               *)
LEMMA DenyStep ==
    ASSUME IInv, NEW r \in Requests, req[r].pc = "reserving", req' = [req EXCEPT ![r] = Deny(@)],
           UNCHANGED <<now, gen, made, pools, sources, spent>>, buckets' \in BucketTable
    PROVE  Kept
  <1> DEFINE q == req[r]
             x == Deny(q)
  <1>1. q \in Request /\ PlanInv(q) /\ HeldInv(q)
    BY AtGauge
  <1>2. /\ x \in Request /\ x.plan = q.plan /\ x.gens = q.gens /\ x.leases = q.leases
        /\ x.holds = q.holds /\ x.pc = "unwinding"
        /\ PlanInv(x)
        /\ \A p \in Positions(q) : Passed(q, p) => Passed(x, p)
    BY <1>1, DenyFacts
  <1>3. req' = [req EXCEPT ![r] = x]
    OBVIOUS
  <1> HIDE DEF x
  <1>4. HeldInv(x)
    <2> HIDE DEF q
    <2> QED
      BY <1>1, <1>2, HeldMono
  <1>5. pools' \in PoolTable /\ spent' \in SpentTable /\ req \in [Requests -> Request] /\ LeaseConservation
    BY Typed
  <1>6. LeaseConservation'
    <2>1. \A s \in Requests : req'[s].leases = req[s].leases
      BY <1>2, <1>3, <1>5
    <2> QED
      BY <1>5, <2>1, SameLeases
  <1>7. ASSUME TInv PROVE TimelyStep(q, x)
    <2>1. CurrentInv(q)
      BY <1>7 DEF TInv
    <2> QED
      BY <1>2, <2>1 DEF TimelyStep, CurrentInv, Serving
  <1>8. q.pc \notin Over
    BY DEF Over
  <1> QED
    BY <1>2, <1>3, <1>4, <1>5, <1>6, <1>7, <1>8, OneRequest

LEMMA AcquireLeaseStep ==
    ASSUME IInv, NEW r \in Requests, AcquireLease(r)
    PROVE  Kept
  <1> DEFINE q == req[r]
             o == Obj(q)
             cap == SpecOf(q).cap
  <1>1. /\ q.pc = "reserving" /\ AtStage(q) = 0 /\ Enforced(SpecOf(q), 0)
        /\ UNCHANGED <<now, gen, made, buckets, sources, spent>>
    BY DEF AcquireLease, Reserving
  <1>2. /\ q \in Request /\ PlanInv(q) /\ HeldInv(q) /\ q.pos \in Positions(q) /\ q.pos \in Nat
        /\ o = ObjAt(q, q.pos) /\ Stage(q.plan, q.pos) = 0
        /\ o \in Objects /\ o[1] \in Keys /\ o[2] \in Gens /\ SpecOf(q) \in ScopeSpec
    BY <1>1, AtGauge
  <1>3. /\ pools \in PoolTable /\ buckets' \in BucketTable /\ spent' \in SpentTable
        /\ req \in [Requests -> Request] /\ LeaseConservation
    BY <1>1, Typed
  <1>4. CASE ~AcquireNCap(pools[o[1]][o[2]], cap)
    <2>1. req' = [req EXCEPT ![r] = Deny(@)] /\ UNCHANGED pools
      BY <1>4 DEF AcquireLease
    <2> QED
      BY <1>1, <1>3, <2>1, DenyStep
  <1>5. CASE AcquireNCap(pools[o[1]][o[2]], cap)
    <2> DEFINE y == Advance(q)
               L == q.leases \cup {o}
               x == [y EXCEPT !.leases = L]
    <2>1. /\ pools' = [pools EXCEPT ![o[1]][o[2]].balance = @ - 1]
          /\ req' = [req EXCEPT ![r] = [y EXCEPT !.leases = y.leases \cup {o}]]
      BY <1>5 DEF AcquireLease
    <2>2. /\ y \in Request /\ y.plan = q.plan /\ y.gens = q.gens /\ y.leases = q.leases
          /\ y.holds = q.holds /\ y.pc \in {"reserving", "granted"}
          /\ y.pc = "reserving" => y.at = q.at
          /\ PlanInv(y)
          /\ \A p \in Positions(q) : Passed(y, p) <=> Passed(q, p) \/ p = q.pos
      BY <1>1, <1>2, AdvanceFacts
    <2>3. req' = [req EXCEPT ![r] = x]
      BY <2>1, <2>2
    <2>4. L \in SUBSET Objects
      BY <1>2 DEF Request
    <2> HIDE DEF y, L, o, cap
    <2>5. /\ x \in Request /\ x.plan = y.plan /\ x.gens = y.gens /\ x.leases = L /\ x.holds = y.holds
          /\ x.pc = y.pc /\ x.at = y.at /\ x.pos = y.pos
      BY <2>2, <2>4 DEF Request
    <2> HIDE DEF x
    <2>6. PlanInv(x) /\ \A p \in Positions(q) : Passed(x, p) <=> Passed(q, p) \/ p = q.pos
      BY <2>2, <2>5 DEF PlanInv, Passed, Positions
    <2>7. o \notin q.leases
      <3> SUFFICES ASSUME o \in q.leases PROVE FALSE
        OBVIOUS
      <3>1. PICK p \in Positions(q) : Passed(q, p) /\ Stage(q.plan, p) = 0 /\ ObjAt(q, p) = o
        BY <1>2 DEF HeldInv
      <3>2. p = q.pos
        BY <1>2, <3>1, PoolsDiffer
      <3> QED
        BY <1>1, <1>2, <3>1, <3>2 DEF Passed
    <2>8. pools[o[1]][o[2]].balance >= 1
      <3>1. pools[o[1]][o[2]] \in Pool /\ cap \in Nat
        BY <1>2, <1>3 DEF PoolTable, ScopeSpec, cap
      <3> QED
        BY <1>5, <3>1 DEF AcquireNCap, Pool
    <2>9. /\ req'[r].leases = req[r].leases \cup {o}
          /\ \A s \in Requests : s # r => req'[s].leases = req[s].leases
      BY <1>3, <2>3, <2>5 DEF L
    <2>10. LeaseConservation' /\ pools' \in PoolTable
      BY <1>2, <1>3, <2>1, <2>7, <2>8, <2>9, TakeLease
    <2>11. x.leases = req[r].leases \cup {Obj(req[r])} /\ AtStage(req[r]) = 0 /\ Enforced(SpecOf(req[r]), 0)
      BY <1>1, <2>5 DEF L, o
    <2>12. x.plan = req[r].plan /\ x.gens = req[r].gens /\ x.holds = req[r].holds
           /\ x.pc \in {"reserving", "granted"} /\ (x.pc = "reserving" => x.at = req[r].at)
      BY <2>2, <2>5
    <2> QED
      BY <1>1, <1>3, <2>3, <2>5, <2>6, <2>10, <2>11, <2>12, UpStep
  <1> QED
    BY <1>4, <1>5

(* One bucket of a table changes.                                          *)
LEMMA OneBucket ==
    ASSUME NEW t \in BucketTable, NEW k \in Keys, NEW g \in Gens, NEW d \in Dims
    PROVE  /\ t[k][g][d] \in Bucket
           /\ \A b \in Bucket : [t EXCEPT ![k][g][d] = b] \in BucketTable
  BY DEF BucketTable

LEMMA OneSpent ==
    ASSUME NEW t \in SpentTable, NEW k \in Keys, NEW g \in Gens, NEW d \in Dims
    PROVE  t[k][g][d] \in Nat /\ \A n \in Nat : [t EXCEPT ![k][g][d] = n] \in SpentTable
  BY DEF SpentTable

LEMMA ReserveTokensStep ==
    ASSUME IInv, NEW r \in Requests, ReserveTokens(r)
    PROVE  Kept
  <1> DEFINE q == req[r]
             o == Obj(q)
             d == AtStage(q)
             b == Refill(buckets[o[1]][o[2]][d])
             amount == q.est[d]
  <1>1. /\ q.pc = "reserving" /\ d # 0
        /\ UNCHANGED <<now, gen, made, pools, sources, spent>>
    BY DEF ReserveTokens, Reserving
  <1>2. /\ q \in Request /\ PlanInv(q)
        /\ o \in Objects /\ o[1] \in Keys /\ o[2] \in Gens /\ d \in Dims
    BY <1>1, AtGauge
  <1>3. /\ pools' \in PoolTable /\ buckets \in BucketTable /\ spent' \in SpentTable /\ now \in Nat
        /\ req \in [Requests -> Request] /\ LeaseConservation
    BY <1>1, Typed
  <1>4. b \in Bucket /\ amount \in Nat
    <2>1. buckets[o[1]][o[2]][d] \in Bucket
      BY <1>2, <1>3, OneBucket
    <2> QED
      BY <1>2, <1>3, <2>1, RefillType DEF Request
  <1>5. CASE ~CanReserve(b, amount)
    <2>1. buckets' = [buckets EXCEPT ![o[1]][o[2]][d] = b] /\ req' = [req EXCEPT ![r] = Deny(@)]
      BY <1>5 DEF ReserveTokens
    <2>2. buckets' \in BucketTable
      <3> HIDE DEF o, d, b
      <3> QED
        BY <1>2, <1>3, <1>4, <2>1, OneBucket
    <2> QED
      BY <1>1, <2>1, <2>2, DenyStep
  <1>6. CASE CanReserve(b, amount)
    <2> DEFINE y == Advance(q)
               c == [b EXCEPT !.balance = @ + amount]
               H == q.holds \cup {<<o, d>>}
               x == [y EXCEPT !.holds = H]
    <2>1. /\ buckets' = [buckets EXCEPT ![o[1]][o[2]][d] = c]
          /\ req' = [req EXCEPT ![r] = [y EXCEPT !.holds = y.holds \cup {<<o, d>>}]]
      BY <1>6 DEF ReserveTokens
    <2>2. /\ y \in Request /\ y.plan = q.plan /\ y.gens = q.gens /\ y.leases = q.leases
          /\ y.holds = q.holds /\ y.pc \in {"reserving", "granted"}
          /\ y.pc = "reserving" => y.at = q.at
          /\ PlanInv(y)
          /\ \A p \in Positions(q) : Passed(y, p) <=> Passed(q, p) \/ p = q.pos
      BY <1>1, <1>2, AdvanceFacts
    <2>3. req' = [req EXCEPT ![r] = x]
      BY <2>1, <2>2
    <2>4. H \in SUBSET (Objects \X Dims)
      BY <1>2 DEF Request
    <2>5. c \in Bucket
      <3> HIDE DEF b, amount
      <3> QED
        BY <1>3, <1>4, BucketTypes
    <2> HIDE DEF y, H, o, d, b, c, amount
    <2>6. /\ x \in Request /\ x.plan = y.plan /\ x.gens = y.gens /\ x.leases = y.leases /\ x.holds = H
          /\ x.pc = y.pc /\ x.at = y.at /\ x.pos = y.pos
      BY <2>2, <2>4 DEF Request
    <2> HIDE DEF x
    <2>7. PlanInv(x) /\ \A p \in Positions(q) : Passed(x, p) <=> Passed(q, p) \/ p = q.pos
      BY <2>2, <2>6 DEF PlanInv, Passed, Positions
    <2>8. buckets' \in BucketTable
      BY <1>2, <1>3, <2>1, <2>5, OneBucket
    <2>9. LeaseConservation'
      <3>1. \A s \in Requests : req'[s].leases = req[s].leases
        BY <1>3, <2>2, <2>3, <2>6
      <3> QED
        BY <1>1, <1>3, <3>1, SameLeases
    <2>10. /\ x.plan = req[r].plan /\ x.gens = req[r].gens /\ x.leases = req[r].leases
           /\ x.pc \in {"reserving", "granted"} /\ (x.pc = "reserving" => x.at = req[r].at)
      BY <2>2, <2>6
    <2>11. x.holds = req[r].holds \cup {<<Obj(req[r]), AtStage(req[r])>>} /\ AtStage(req[r]) # 0
      BY <1>1, <2>6 DEF H, o, d
    <2> QED
      BY <1>1, <1>3, <2>3, <2>6, <2>7, <2>8, <2>9, <2>10, <2>11, UpStep
  <1> QED
    BY <1>5, <1>6

-----------------------------------------------------------------------------
(***************************************************************************)
(* The way back.                                                           *)
(***************************************************************************)
(* A request that only gives back, and does not resolve.                   *)
LEMMA DownStep ==
    ASSUME IInv, NEW r \in Requests, NEW x \in Request, req' = [req EXCEPT ![r] = x],
           UNCHANGED <<now, gen, made, sources>>,
           pools' \in PoolTable, buckets' \in BucketTable, spent' \in SpentTable, LeaseConservation',
           req[r].pc \notin Over, x.pc # "reserving",
           x.pc \notin Over => x.plan = req[r].plan /\ x.gens = req[r].gens /\ PlanInv(x),
           HeldInv(x), x.leases \subseteq req[r].leases, x.holds \subseteq req[r].holds,
           x.pc \in Serving => req[r].pc \in {"granted", "forwarded", "settling"} /\ x.leases = req[r].leases
    PROVE  Kept
  <1> DEFINE q == req[r]
  <1>1. ASSUME TInv PROVE TimelyStep(q, x)
    <2>1. LeasedInv(q) /\ CurrentInv(q)
      BY <1>1 DEF TInv
    <2>2. /\ x.leases \subseteq q.leases /\ x.holds \subseteq q.holds /\ x.pc # "reserving"
          /\ x.pc \in Serving => /\ q.pc \in {"granted", "forwarded", "settling"} /\ x.leases = q.leases
                                 /\ x.plan = q.plan /\ x.gens = q.gens
      BY DEF Serving, Over
    <2> HIDE DEF q
    <2>3. ASSUME x.pc \in Serving, NEW p \in Positions(x),
                 Stage(x.plan, p) = 0, Enforced(SpecAt(x, p), 0)
          PROVE  ObjAt(x, p) \in x.leases
      <3>1. p \in Positions(q) /\ Stage(q.plan, p) = 0 /\ SpecAt(q, p) = SpecAt(x, p) /\ ObjAt(q, p) = ObjAt(x, p)
        BY <2>2, <2>3 DEF Positions, SpecAt, ObjAt
      <3>2. Passed(q, p) /\ q.pc \in Serving
        BY <2>2, <2>3 DEF Passed, Over, Serving
      <3> QED
        BY <2>1, <2>2, <2>3, <3>1, <3>2 DEF LeasedInv
    <2>4. CurrentInv(x)
      <3>1. x.pc \in Serving => q.pc \in Serving
        BY <2>2 DEF Serving
      <3> QED
        BY <2>1, <2>2, <3>1 DEF CurrentInv
    <2> QED
      BY <2>2, <2>3, <2>4 DEF TimelyStep
  <1> QED
    BY <1>1, OneRequest

(* releaseForwarded on the gauge at which a request stands: afterwards the *)
(* request, y but for that gauge, does not hold it.                        *)
LEMMA GiveBack ==
    ASSUME IInv, NEW r \in Requests,
           req[r].pc = "releasing" \/ (req[r].pc = "unwinding" /\ req[r].pos > 0),
           NEW fwd \in BOOLEAN, NEW y \in Request, releaseForwarded(r, fwd, y),
           y.leases = req[r].leases, y.holds = req[r].holds
    PROVE  /\ pools' \in PoolTable /\ buckets' \in BucketTable /\ spent' \in SpentTable /\ LeaseConservation'
           /\ \E x \in Request :
                 /\ req' = [req EXCEPT ![r] = x]
                 /\ x.pc = y.pc /\ x.plan = y.plan /\ x.gens = y.gens /\ x.pos = y.pos
                 /\ x.leases \subseteq req[r].leases /\ x.holds \subseteq req[r].holds
                 /\ AtStage(req[r]) = 0 => Obj(req[r]) \notin x.leases
                 /\ AtStage(req[r]) # 0 => <<Obj(req[r]), AtStage(req[r])>> \notin x.holds
  <1> DEFINE q == req[r]
             o == Obj(q)
             d == AtStage(q)
  <1>1. /\ q \in Request /\ o \in Objects /\ o[1] \in Keys /\ o[2] \in Gens
        /\ d # 0 => d \in Dims
    BY AtGauge
  <1>2. /\ pools \in PoolTable /\ buckets \in BucketTable /\ spent \in SpentTable
        /\ req \in [Requests -> Request] /\ LeaseConservation /\ now \in Nat
    BY Typed
  <1>3. CASE /\ d = 0 /\ o \in q.leases
             /\ pools' = [pools EXCEPT ![o[1]][o[2]].balance = @ + 1]
             /\ req' = [req EXCEPT ![r] = [y EXCEPT !.leases = @ \ {o}]]
             /\ UNCHANGED <<buckets, spent>>
    <2> HIDE DEF o, d
    <2> DEFINE L == q.leases \ {o}
               x == [y EXCEPT !.leases = L]
    <2>1. L \in SUBSET Objects
      BY <1>1 DEF Request
    <2>2. req' = [req EXCEPT ![r] = x]
      BY <1>3
    <2> HIDE DEF L
    <2>3. /\ x \in Request /\ x.pc = y.pc /\ x.plan = y.plan /\ x.gens = y.gens /\ x.pos = y.pos
          /\ x.leases = L /\ x.holds = q.holds
      BY <2>1 DEF Request
    <2> HIDE DEF x
    <2>4. req'[r].leases = req[r].leases \ {o} /\ \A s \in Requests : s # r => req'[s].leases = req[s].leases
      BY <1>2, <2>2, <2>3 DEF L
    <2>5. LeaseConservation' /\ pools' \in PoolTable
      BY <1>1, <1>2, <1>3, <2>4, ReturnLease
    <2>6. x.leases \subseteq q.leases /\ o \notin x.leases
      BY <2>3 DEF L
    <2> QED
      BY <1>2, <1>3, <2>2, <2>3, <2>5, <2>6 DEF o, d
  <1>4. CASE /\ d # 0 /\ <<o, d>> \in q.holds
             /\ buckets' = IF fwd THEN buckets
                           ELSE [buckets EXCEPT ![o[1]][o[2]][d] = CancelBucket(@, q.est[d])]
             /\ spent' = IF fwd
                         THEN [spent EXCEPT ![o[1]][o[2]][d] = @ + q.est[d]] ELSE spent
             /\ req' = [req EXCEPT ![r] = [y EXCEPT !.holds = @ \ {<<o, d>>}]]
             /\ UNCHANGED pools
    <2>0. d \in Dims /\ q.est[d] \in Nat
      BY <1>1, <1>4 DEF Request
    <2> HIDE DEF o, d
    <2> DEFINE H == q.holds \ {<<o, d>>}
               x == [y EXCEPT !.holds = H]
    <2>1. H \in SUBSET (Objects \X Dims)
      BY <1>1 DEF Request
    <2>2. req' = [req EXCEPT ![r] = x]
      BY <1>4
    <2> HIDE DEF H
    <2>3. /\ x \in Request /\ x.pc = y.pc /\ x.plan = y.plan /\ x.gens = y.gens /\ x.pos = y.pos
          /\ x.leases = q.leases /\ x.holds = H
      BY <2>1 DEF Request
    <2> HIDE DEF x
    <2>4. buckets' \in BucketTable
      <3> DEFINE b == CancelBucket(buckets[o[1]][o[2]][d], q.est[d])
      <3>1. b \in Bucket
        BY <1>1, <1>2, <2>0, OneBucket, BucketTypes
      <3>2. buckets' = buckets \/ buckets' = [buckets EXCEPT ![o[1]][o[2]][d] = b]
        BY <1>4
      <3> HIDE DEF b
      <3> QED
        BY <1>1, <1>2, <2>0, <3>1, <3>2, OneBucket
    <2>5. spent' \in SpentTable
      <3>1. PICK n \in Nat : n = spent[o[1]][o[2]][d] + q.est[d]
        BY <1>1, <1>2, <2>0, OneSpent
      <3>2. spent' = spent \/ spent' = [spent EXCEPT ![o[1]][o[2]][d] = n]
        BY <1>4, <3>1
      <3> QED
        BY <1>1, <1>2, <2>0, <3>2, OneSpent
    <2>6. LeaseConservation'
      <3>1. \A s \in Requests : req'[s].leases = req[s].leases
        BY <1>2, <2>2, <2>3
      <3> QED
        BY <1>2, <1>4, <3>1, SameLeases
    <2>7. x.holds \subseteq q.holds /\ <<o, d>> \notin x.holds
      BY <2>3 DEF H
    <2> QED
      BY <1>2, <1>4, <2>2, <2>3, <2>4, <2>5, <2>6, <2>7 DEF o, d
  <1>5. CASE /\ IF d = 0 THEN o \notin q.leases ELSE <<o, d>> \notin q.holds
             /\ req' = [req EXCEPT ![r] = y]
             /\ UNCHANGED <<pools, buckets, spent>>
    <2>1. LeaseConservation'
      <3>1. \A s \in Requests : req'[s].leases = req[s].leases
        BY <1>2, <1>5
      <3> QED
        BY <1>2, <1>5, <3>1, SameLeases
    <2> QED
      BY <1>2, <1>5, <2>1
  <1> QED
    BY <1>3, <1>4, <1>5 DEF releaseForwarded

LEMMA UnwindStep ==
    ASSUME IInv, NEW r \in Requests, Unwind(r)
    PROVE  Kept
  <1> DEFINE q == req[r]
  <1>1. q.pc = "unwinding" /\ UNCHANGED <<now, gen, made, sources>>
    BY DEF Unwind
  <1>2. /\ q \in Request /\ PlanInv(q) /\ HeldInv(q) /\ q.pc \notin Over
        /\ pools \in PoolTable /\ buckets \in BucketTable /\ spent \in SpentTable
        /\ req \in [Requests -> Request] /\ LeaseConservation
    BY <1>1, Typed DEF Over
  <1>3. CASE /\ q.pos = 0 /\ req' = [req EXCEPT ![r] = Done(@)] /\ UNCHANGED <<pools, buckets, spent>>
    <2>1. \A p \in Positions(q) : ~Passed(q, p)
      BY <1>1, <1>2, <1>3, GaugeFacts DEF Passed
    <2>2. q.leases = {} /\ q.holds = {}
      BY <1>2, <2>1 DEF HeldInv
    <2>3. PICK x \in Request : x = Done(q)
      BY <1>2, IdleFacts
    <2>4. x.pc = "done" /\ x.leases = {} /\ x.holds = {}
      BY <1>2, <2>2, <2>3, IdleFacts
    <2>5. req' = [req EXCEPT ![r] = x]
      BY <1>3, <2>3
    <2>6. LeaseConservation'
      <3>1. \A s \in Requests : req'[s].leases = req[s].leases
        BY <1>2, <2>2, <2>4, <2>5
      <3> QED
        BY <1>2, <1>3, <3>1, SameLeases
    <2>7. HeldInv(x)
      BY <2>4 DEF HeldInv
    <2>8. /\ x.pc \in Over /\ x.pc \notin Serving /\ x.pc # "reserving"
          /\ x.leases \subseteq req[r].leases /\ x.holds \subseteq req[r].holds
      BY <2>4 DEF Over, Serving
    <2> QED
      BY <1>1, <1>2, <1>3, <2>5, <2>6, <2>7, <2>8, DownStep
  <1>4. CASE q.pos > 0 /\ releaseForwarded(r, FALSE, [q EXCEPT !.pos = @ - 1])
    <2>1. /\ q.pos \in Nat /\ q.pos \in Positions(q) /\ Obj(q) = ObjAt(q, q.pos)
          /\ AtStage(q) = Stage(q.plan, q.pos)
      BY <1>1, <1>4, AtGauge
    <2>2. PICK w \in Nat : w = q.pos - 1
      BY <1>4, <2>1
    <2> DEFINE y == [q EXCEPT !.pos = w]
    <2>3. /\ y \in Request /\ y.pc = "unwinding" /\ y.plan = q.plan /\ y.gens = q.gens /\ y.pos = w
          /\ y.leases = q.leases /\ y.holds = q.holds
      BY <1>1, <1>2 DEF Request
    <2>4. releaseForwarded(r, FALSE, y)
      BY <1>4, <2>2
    <2> HIDE DEF y
    <2>5. /\ pools' \in PoolTable /\ buckets' \in BucketTable /\ spent' \in SpentTable /\ LeaseConservation'
          /\ \E x \in Request :
                 /\ req' = [req EXCEPT ![r] = x]
                 /\ x.pc = y.pc /\ x.plan = y.plan /\ x.gens = y.gens /\ x.pos = y.pos
                 /\ x.leases \subseteq req[r].leases /\ x.holds \subseteq req[r].holds
                 /\ AtStage(req[r]) = 0 => Obj(req[r]) \notin x.leases
                 /\ AtStage(req[r]) # 0 => <<Obj(req[r]), AtStage(req[r])>> \notin x.holds
      BY <1>1, <1>4, <2>3, <2>4, GiveBack
    <2>6. PICK x \in Request :
                 /\ req' = [req EXCEPT ![r] = x]
                 /\ x.pc = y.pc /\ x.plan = y.plan /\ x.gens = y.gens /\ x.pos = y.pos
                 /\ x.leases \subseteq q.leases /\ x.holds \subseteq q.holds
                 /\ AtStage(q) = 0 => Obj(q) \notin x.leases
                 /\ AtStage(q) # 0 => <<Obj(q), AtStage(q)>> \notin x.holds
      BY <2>5
    <2>7. x.pc = "unwinding" /\ x.plan = q.plan /\ x.gens = q.gens /\ x.pos = w
      BY <2>3, <2>6
    <2>8. PlanInv(x)
      <3>1. q.pos <= LastPos(q.plan) /\ LastPos(q.plan) \in Nat
        BY <1>2, <2>1, GaugeFacts
      <3> QED
        BY <1>1, <1>2, <2>1, <2>2, <2>7, <3>1 DEF PlanInv
    <2>9. HeldInv(x)
      <3> HIDE DEF q
      <3>1. \A p \in Positions(q) : p # q.pos /\ Passed(q, p) => Passed(x, p)
        BY <1>1, <1>2, <2>1, <2>2, <2>7, GaugeFacts DEF Passed, Over
      <3>2. \A p \in Positions(q) : Passed(q, p) =>
              \/ Passed(x, p)
              \/ /\ Stage(q.plan, p) = 0 => ObjAt(q, p) \notin x.leases
                 /\ Stage(q.plan, p) # 0 => <<ObjAt(q, p), Stage(q.plan, p)>> \notin x.holds
        BY <2>1, <2>6, <3>1
      <3> QED
        BY <1>2, <2>6, <2>7, <3>2, HeldMono
    <2>10. x.pc \notin Over /\ x.pc \notin Serving /\ x.pc # "reserving"
      BY <2>7 DEF Over, Serving
    <2> QED
      BY <1>1, <1>2, <2>5, <2>6, <2>7, <2>8, <2>9, <2>10, DownStep
  <1> QED
    BY <1>3, <1>4 DEF Unwind

LEMMA ReleaseStep ==
    ASSUME IInv, NEW r \in Requests, Release(r)
    PROVE  Kept
  <1> DEFINE q == req[r]
             fwd == q.forwarded /\ ~q.settled
             after == IF q.pos = LastPos(q.plan) THEN Done(q) ELSE [q EXCEPT !.pos = @ + 1]
  <1>1. q.pc = "releasing" /\ UNCHANGED <<now, gen, made, sources>> /\ releaseForwarded(r, fwd, after)
    BY DEF Release
  <1>2. /\ q \in Request /\ PlanInv(q) /\ HeldInv(q) /\ q.pc \notin Over
        /\ q.pos \in Nat /\ q.pos \in Positions(q) /\ Obj(q) = ObjAt(q, q.pos)
        /\ AtStage(q) = Stage(q.plan, q.pos)
    BY <1>1, AtGauge DEF Over
  <1>3. /\ LastPos(q.plan) \in Nat /\ q.pos <= LastPos(q.plan)
        /\ \A p \in Positions(q) : p \in Nat /\ p <= LastPos(q.plan)
    BY <1>2, GaugeFacts
  <1>4. fwd \in BOOLEAN
    BY <1>2 DEF Request
  <1>5. PICK w \in Nat : w = q.pos + 1
    BY <1>2
  <1>6. /\ after \in Request /\ after.leases = q.leases /\ after.holds = q.holds
        /\ IF q.pos = LastPos(q.plan) THEN after.pc = "done"
           ELSE after.pc = "releasing" /\ after.plan = q.plan /\ after.gens = q.gens /\ after.pos = w
    <2>1. CASE q.pos = LastPos(q.plan)
      <3>1. after = Done(q)
        BY <2>1
      <3> HIDE DEF after
      <3> QED
        BY <1>2, <2>1, <3>1, IdleFacts
    <2>2. CASE q.pos # LastPos(q.plan)
      <3>1. after = [q EXCEPT !.pos = w]
        BY <1>5, <2>2
      <3> HIDE DEF after
      <3> QED
        BY <1>1, <1>2, <2>2, <3>1 DEF Request
    <2> QED
      BY <2>1, <2>2
  <1> HIDE DEF after, fwd
  <1>7. /\ pools' \in PoolTable /\ buckets' \in BucketTable /\ spent' \in SpentTable /\ LeaseConservation'
        /\ \E x \in Request :
                 /\ req' = [req EXCEPT ![r] = x]
                 /\ x.pc = after.pc /\ x.plan = after.plan /\ x.gens = after.gens /\ x.pos = after.pos
                 /\ x.leases \subseteq req[r].leases /\ x.holds \subseteq req[r].holds
                 /\ AtStage(req[r]) = 0 => Obj(req[r]) \notin x.leases
                 /\ AtStage(req[r]) # 0 => <<Obj(req[r]), AtStage(req[r])>> \notin x.holds
    BY <1>1, <1>4, <1>6, GiveBack
  <1>8. PICK x \in Request :
                 /\ req' = [req EXCEPT ![r] = x]
                 /\ x.pc = after.pc /\ x.plan = after.plan /\ x.gens = after.gens /\ x.pos = after.pos
                 /\ x.leases \subseteq q.leases /\ x.holds \subseteq q.holds
                 /\ AtStage(q) = 0 => Obj(q) \notin x.leases
                 /\ AtStage(q) # 0 => <<Obj(q), AtStage(q)>> \notin x.holds
    BY <1>7
  <1>9. x.pc \notin Serving /\ x.pc # "reserving"
    BY <1>6, <1>8 DEF Serving
  <1>10. CASE q.pos = LastPos(q.plan)
    <2>1. x.pc \in Over
      BY <1>6, <1>8, <1>10 DEF Over
    <2>2. \A p \in Positions(q) : Passed(q, p) => p = q.pos
      BY <1>1, <1>2, <1>3, <1>10 DEF Passed
    <2>3. x.leases = {} /\ x.holds = {}
      <3> HIDE DEF q
      <3>1. \A o \in x.leases : FALSE
        BY <1>2, <1>8, <2>2 DEF HeldInv
      <3>2. \A h \in x.holds : FALSE
        BY <1>2, <1>8, <2>2 DEF HeldInv
      <3> QED
        BY <3>1, <3>2
    <2>4. HeldInv(x)
      BY <2>3 DEF HeldInv
    <2> QED
      BY <1>1, <1>2, <1>7, <1>8, <1>9, <2>1, <2>4, DownStep
  <1>11. CASE q.pos # LastPos(q.plan)
    <2>1. x.pc = "releasing" /\ x.plan = q.plan /\ x.gens = q.gens /\ x.pos = w
      BY <1>6, <1>8, <1>11
    <2>2. PlanInv(x)
      BY <1>1, <1>2, <1>3, <1>5, <1>11, <2>1 DEF PlanInv, Positions
    <2>3. HeldInv(x)
      <3> HIDE DEF q
      <3>1. \A p \in Positions(q) : p # q.pos /\ Passed(q, p) => Passed(x, p)
        BY <1>1, <1>2, <1>3, <1>5, <2>1 DEF Passed, Over
      <3>2. \A p \in Positions(q) : Passed(q, p) =>
              \/ Passed(x, p)
              \/ /\ Stage(q.plan, p) = 0 => ObjAt(q, p) \notin x.leases
                 /\ Stage(q.plan, p) # 0 => <<ObjAt(q, p), Stage(q.plan, p)>> \notin x.holds
        BY <1>2, <1>8, <3>1
      <3> QED
        BY <1>2, <1>8, <2>1, <3>2, HeldMono
    <2> QED
      BY <1>1, <1>2, <1>7, <1>8, <1>9, <2>1, <2>2, <2>3, DownStep
  <1> QED
    BY <1>10, <1>11

(* A request that is served moves on, holding what it held.                *)
LEMMA MoveStep ==
    ASSUME IInv, NEW r \in Requests, req[r].pc \in {"granted", "forwarded"},
           NEW x \in Request, req' = [req EXCEPT ![r] = x],
           UNCHANGED <<now, gen, made, pools, buckets, sources, spent>>,
           x.plan = req[r].plan, x.gens = req[r].gens, x.leases = req[r].leases, x.holds = req[r].holds,
           x.pc \in {"forwarded", "settling", "releasing"},
           x.pc \in {"settling", "releasing"} => x.pos = 1
    PROVE  Kept
  <1> DEFINE q == req[r]
  <1>1. /\ q \in Request /\ PlanInv(q) /\ HeldInv(q) /\ q.pc \notin Over
        /\ pools \in PoolTable /\ buckets \in BucketTable /\ spent \in SpentTable
        /\ req \in [Requests -> Request] /\ LeaseConservation
    BY Typed DEF Over
  <1>2. LeaseConservation'
    <2>1. \A s \in Requests : req'[s].leases = req[s].leases
      BY <1>1
    <2> QED
      BY <1>1, <2>1, SameLeases
  <1>3. /\ LastPos(q.plan) \in Nat /\ LastPos(q.plan) >= 1
        /\ \A p \in Positions(q) : p \in Nat /\ p >= 1
    <2>1. Len(q.plan) > 0 /\ q.plan \in Seq(ScopeSpec) /\ Len(q.plan) \in Nat
      BY <1>1 DEF PlanInv, Request
    <2> QED
      BY <2>1, PositionFacts DEF Positions
  <1>4. PlanInv(x)
    BY <1>1, <1>3 DEF PlanInv, Positions
  <1>5. \A p \in Positions(q) : Passed(x, p)
    BY <1>3 DEF Passed, Over
  <1>6. HeldInv(x)
    <2>1. x.plan = q.plan /\ x.gens = q.gens /\ x.leases = q.leases /\ x.holds = q.holds
      OBVIOUS
    <2> HIDE DEF q
    <2> QED
      BY <1>1, <1>5, <2>1, HeldMono
  <1>7. /\ x.pc # "reserving"
        /\ x.pc \in Serving => req[r].pc \in {"granted", "forwarded", "settling"} /\ x.leases = req[r].leases
    BY DEF Serving
  <1> QED
    BY <1>1, <1>2, <1>4, <1>6, <1>7, DownStep

LEMMA MarkForwardedStep ==
    ASSUME IInv, NEW r \in Requests, MarkForwarded(r)
    PROVE  Kept
  <1> DEFINE q == req[r]
             x == [q EXCEPT !.pc = "forwarded", !.forwarded = TRUE]
  <1>1. q \in Request /\ req \in [Requests -> Request]
    BY Typed
  <1>2. q.pc = "granted" /\ UNCHANGED <<now, gen, made, pools, buckets, sources, spent>>
    BY DEF MarkForwarded
  <1>3. req' = [req EXCEPT ![r] = x]
    BY <1>1 DEF MarkForwarded, Request
  <1>4. /\ x \in Request /\ x.plan = q.plan /\ x.gens = q.gens /\ x.leases = q.leases /\ x.holds = q.holds
        /\ x.pc = "forwarded"
    BY <1>1 DEF Request
  <1> HIDE DEF x
  <1> QED
    BY <1>2, <1>3, <1>4, MoveStep

LEMMA BeginSettleStep ==
    ASSUME IInv, NEW r \in Requests, BeginSettle(r)
    PROVE  Kept
  <1> DEFINE q == req[r]
  <1>1. q \in Request /\ req \in [Requests -> Request]
    BY Typed
  <1>2. q.pc = "forwarded" /\ UNCHANGED <<now, gen, made, pools, buckets, sources, spent>>
    BY DEF BeginSettle
  <1>3. PICK actual \in Actuals :
          req' = [req EXCEPT ![r] = [@ EXCEPT !.pc = "settling", !.actual = actual, !.pos = 1]]
    BY DEF BeginSettle
  <1> DEFINE x == [q EXCEPT !.pc = "settling", !.actual = actual, !.pos = 1]
  <1>4. req' = [req EXCEPT ![r] = x] /\ actual \in [Dims -> Nat]
    BY <1>3, UsageAssumption
  <1>5. /\ x \in Request /\ x.plan = q.plan /\ x.gens = q.gens /\ x.leases = q.leases /\ x.holds = q.holds
        /\ x.pc = "settling" /\ x.pos = 1
    BY <1>1, <1>4 DEF Request
  <1> HIDE DEF x
  <1> QED
    BY <1>2, <1>4, <1>5, MoveStep

LEMMA BeginReleaseStep ==
    ASSUME IInv, NEW r \in Requests, BeginRelease(r)
    PROVE  Kept
  <1> DEFINE q == req[r]
             x == [q EXCEPT !.pc = "releasing", !.pos = 1]
  <1>1. q \in Request /\ req \in [Requests -> Request]
    BY Typed
  <1>2. q.pc \in {"granted", "forwarded"} /\ UNCHANGED <<now, gen, made, pools, buckets, sources, spent>>
    BY DEF BeginRelease
  <1>3. req' = [req EXCEPT ![r] = x]
    BY <1>1 DEF BeginRelease, Request
  <1>4. /\ x \in Request /\ x.plan = q.plan /\ x.gens = q.gens /\ x.leases = q.leases /\ x.holds = q.holds
        /\ x.pc = "releasing" /\ x.pos = 1
    BY <1>1 DEF Request
  <1> HIDE DEF x
  <1> QED
    BY <1>2, <1>3, <1>4, MoveStep

LEMMA SettleStep ==
    ASSUME IInv, NEW r \in Requests, Settle(r)
    PROVE  Kept
  <1> DEFINE q == req[r]
             o == Obj(q)
             d == AtStage(q)
             held == d # 0 /\ <<o, d>> \in q.holds
             after == IF q.pos = LastPos(q.plan)
                      THEN [q EXCEPT !.pc = "releasing", !.pos = 1, !.settled = TRUE]
                      ELSE [q EXCEPT !.pos = @ + 1]
             H == IF held THEN q.holds \ {<<o, d>>} ELSE q.holds
             x == [after EXCEPT !.holds = H]
  <1>1. q.pc = "settling" /\ UNCHANGED <<now, gen, made, pools, sources>>
    BY DEF Settle
  <1>2. /\ q \in Request /\ PlanInv(q) /\ HeldInv(q) /\ q.pc \notin Over
        /\ q.pos \in Nat /\ q.pos \in Positions(q)
        /\ o \in Objects /\ o[1] \in Keys /\ o[2] \in Gens /\ (d # 0 => d \in Dims)
    BY <1>1, AtGauge DEF Over
  <1>3. /\ pools \in PoolTable /\ buckets \in BucketTable /\ spent \in SpentTable
        /\ req \in [Requests -> Request] /\ LeaseConservation /\ now \in Nat
    BY Typed
  <1>4. /\ LastPos(q.plan) \in Nat /\ q.pos <= LastPos(q.plan) /\ 1 <= LastPos(q.plan)
        /\ \A p \in Positions(q) : p \in Nat /\ p >= 1
    <2>1. /\ q.pos > 0 /\ q.pos <= LastPos(q.plan) /\ LastPos(q.plan) \in Nat
          /\ \A p \in Positions(q) : p \in Nat /\ p > 0
      BY <1>2, GaugeFacts
    <2> QED
      BY <1>2, <2>1
  <1>5. buckets' \in BucketTable /\ spent' \in SpentTable
    <2>1. CASE held
      <3>1. d \in Dims /\ q.est[d] \in Nat /\ q.actual[d] \in Nat
        BY <1>2, <2>1 DEF Request
      <3> DEFINE b == SettleBucket(buckets[o[1]][o[2]][d], q.est[d], q.actual[d])
      <3>2. b \in Bucket
        BY <1>2, <1>3, <3>1, OneBucket, BucketTypes
      <3>3. PICK n \in Nat : n = spent[o[1]][o[2]][d] + q.actual[d]
        BY <1>2, <1>3, <3>1, OneSpent
      <3>4. buckets' = [buckets EXCEPT ![o[1]][o[2]][d] = b] /\ spent' = [spent EXCEPT ![o[1]][o[2]][d] = n]
        BY <2>1, <3>3 DEF Settle
      <3> HIDE DEF b, o, d, held
      <3> QED
        BY <1>2, <1>3, <3>1, <3>2, <3>4, OneBucket, OneSpent
    <2>2. CASE ~held
      <3>1. buckets' = buckets /\ spent' = spent
        BY <2>2 DEF Settle
      <3> QED
        BY <1>3, <3>1
    <2> QED
      BY <2>1, <2>2
  <1>6. /\ after \in Request /\ after.plan = q.plan /\ after.gens = q.gens /\ after.leases = q.leases
        /\ after.holds = q.holds
        /\ \/ after.pc = "releasing" /\ after.pos = 1
           \/ after.pc = "settling" /\ after.pos \in Positions(q)
    <2>1. CASE q.pos = LastPos(q.plan)
      <3>1. after = [q EXCEPT !.pc = "releasing", !.pos = 1, !.settled = TRUE]
        BY <2>1
      <3> HIDE DEF after
      <3> QED
        BY <1>2, <3>1 DEF Request
    <2>2. CASE q.pos # LastPos(q.plan)
      <3>1. PICK w \in Nat : w = q.pos + 1
        BY <1>2
      <3>2. after = [q EXCEPT !.pos = w]
        BY <2>2, <3>1
      <3>3. w \in Positions(q)
        BY <1>2, <1>4, <2>2, <3>1 DEF Positions
      <3> HIDE DEF after
      <3> QED
        BY <1>1, <1>2, <3>2, <3>3 DEF Request
    <2> QED
      BY <2>1, <2>2
  <1>7. req' = [req EXCEPT ![r] = [after EXCEPT !.holds = IF held THEN @ \ {<<o, d>>} ELSE @]]
    BY DEF Settle
  <1>8. H \in SUBSET (Objects \X Dims) /\ H \subseteq q.holds
    BY <1>2 DEF Request
  <1> HIDE DEF after, held, o, d
  <1>9. req' = [req EXCEPT ![r] = x]
    BY <1>6, <1>7
  <1> HIDE DEF H
  <1>10. /\ x \in Request /\ x.plan = q.plan /\ x.gens = q.gens /\ x.leases = q.leases /\ x.holds = H
         /\ x.pc = after.pc /\ x.pos = after.pos
    BY <1>6, <1>8 DEF Request
  <1> HIDE DEF x
  <1>11. LeaseConservation'
    <2>1. \A s \in Requests : req'[s].leases = req[s].leases
      BY <1>3, <1>9, <1>10
    <2> QED
      BY <1>1, <1>3, <2>1, SameLeases
  <1>12. /\ x.pc \in {"releasing", "settling"} /\ x.pos \in Positions(q)
         /\ x.pc = "releasing" => x.pos = 1
    BY <1>4, <1>6, <1>10 DEF Positions
  <1>13. PlanInv(x)
    BY <1>2, <1>10, <1>12 DEF PlanInv, Positions
  <1>14. HeldInv(x)
    <2>1. x.plan = q.plan /\ x.gens = q.gens /\ x.leases = q.leases /\ x.holds \subseteq q.holds
      BY <1>8, <1>10
    <2>2. \A p \in Positions(q) : Passed(x, p)
      BY <1>4, <1>12 DEF Passed, Over
    <2> HIDE DEF q
    <2> QED
      BY <1>2, <2>1, <2>2, HeldMono
  <1>15. /\ x.pc # "reserving" /\ x.leases \subseteq req[r].leases /\ x.holds \subseteq req[r].holds
         /\ x.pc \in Serving => req[r].pc \in {"granted", "forwarded", "settling"} /\ x.leases = req[r].leases
    BY <1>1, <1>8, <1>10, <1>12 DEF Serving
  <1> QED
    BY <1>1, <1>2, <1>3, <1>5, <1>9, <1>10, <1>11, <1>13, <1>14, <1>15, DownStep

-----------------------------------------------------------------------------
(***************************************************************************)
(* The clock, and the removal of a scope.                                  *)
(***************************************************************************)
LEMMA TickStep ==
    ASSUME IInv, Tick
    PROVE  Kept
  <1>1. /\ now' = now + 1 /\ UNCHANGED <<gen, made, pools, buckets, sources, req, spent>>
        /\ \A r \in Requests : req[r].pc = "reserving" => now - req[r].at < MaxStall
    BY DEF Tick
  <1>2. IInv'
    <2>1. TypeOK'
      BY <1>1 DEF IInv, TypeOK
    <2>2. RequestsInv' /\ ObjectsInv'
      BY <1>1 DEF IInv, RequestsInv, ObjectsInv, KnownObjects
    <2>3. LeaseConservation'
      BY <1>1, SameLeases DEF IInv
    <2> QED
      BY <2>1, <2>2, <2>3 DEF IInv
  <1>3. ASSUME TInv PROVE TInv'
    <2> SUFFICES ASSUME NEW s \in Requests
                 PROVE  (RecentInv(req[s]) /\ LeasedInv(req[s]) /\ CurrentInv(req[s]))'
      BY DEF TInv
    <2> DEFINE q == req[s]
    <2>1. q' = q /\ RecentInv(q) /\ LeasedInv(q) /\ CurrentInv(q)
      BY <1>1, <1>3 DEF TInv
    <2>2. q.at \in Nat /\ now \in Nat /\ MaxStall \in Nat
      BY Typed, BoundAssumption DEF Request
    <2>3. RecentInv(q)'
      BY <1>1, <2>1, <2>2 DEF RecentInv
    <2>4. LeasedInv(q)' /\ CurrentInv(q)'
      BY <1>1, <2>1 DEF LeasedInv, CurrentInv
    <2> QED
      BY <2>3, <2>4
  <1> QED
    BY <1>2, <1>3 DEF Kept

(* The buckets of one object are refilled.                                 *)
LEMMA RefillObject ==
    ASSUME NEW t \in BucketTable, NEW k \in Keys, NEW g \in Gens, NEW S, now \in Nat
    PROVE  [t EXCEPT ![k][g] = [d \in Dims |-> IF d \in S THEN Refill(@[d]) ELSE @[d]]] \in BucketTable
  <1> DEFINE u == [d \in Dims |-> IF d \in S THEN Refill(t[k][g][d]) ELSE t[k][g][d]]
  <1>1. \A d \in Dims : t[k][g][d] \in Bucket
    BY DEF BucketTable
  <1>2. \A d \in Dims : Refill(t[k][g][d]) \in Bucket
    BY <1>1, RefillType
  <1>3. u \in [Dims -> Bucket]
    BY <1>1, <1>2
  <1>4. [t EXCEPT ![k][g] = [d \in Dims |-> IF d \in S THEN Refill(@[d]) ELSE @[d]]] = [t EXCEPT ![k][g] = u]
    OBVIOUS
  <1> HIDE DEF u
  <1> QED
    BY <1>3, <1>4 DEF BucketTable

LEMMA ScopeTypes ==
    ASSUME NEW q \in Request, NEW i \in 1..Len(q.plan)
    PROVE  /\ q.plan[i] \in ScopeSpec /\ q.plan[i].key \in Keys
           /\ PlanInv(q) => q.gens[i] \in Gens /\ q.gens[i] \in Nat
  <1>1. q.plan \in Seq(ScopeSpec) /\ q.gens \in Seq(Gens)
    BY DEF Request
  <1>2. q.plan[i] \in ScopeSpec
    BY <1>1
  <1>3. PlanInv(q) => q.gens[i] \in Gens
    BY <1>1 DEF PlanInv
  <1> QED
    BY <1>2, <1>3 DEF ScopeSpec, Gens

LEMMA RemoveScopeStep ==
    ASSUME IInv, NEW k \in Keys, RemoveScope(k)
    PROVE  Kept
  <1>1. k \in Removable /\ gen[k] < MaxGen /\ UNCHANGED <<now, pools, req, spent>>
    BY DEF RemoveScope
  <1>2. /\ now \in Nat /\ pools \in PoolTable /\ buckets \in BucketTable /\ spent \in SpentTable
        /\ gen \in [Keys -> Gens] /\ made \in [Keys -> SUBSET (0..NumDims)]
        /\ sources \in [SourceKeys -> Nat] /\ LeaseConservation
    BY Typed
  <1>3. LeaseConservation' /\ RequestsInv'
    BY <1>1, <1>2, SameLeases DEF IInv, RequestsInv
  <1>4. CASE LeaseFree(k) /\ BucketsEvictable(k)
    <2>1. /\ gen' = [gen EXCEPT ![k] = @ + 1] /\ made' = [made EXCEPT ![k] = {}] /\ UNCHANGED buckets
          /\ sources' = IF k \in SourceKeys THEN [sources EXCEPT ![k] = 0] ELSE sources
      BY <1>4 DEF RemoveScope
    <2>2. MaxGen \in Nat /\ gen[k] \in Nat
      BY <1>2, BoundAssumption DEF Gens
    <2>3. gen' \in [Keys -> Gens] /\ made' \in [Keys -> SUBSET (0..NumDims)] /\ sources' \in [SourceKeys -> Nat]
      BY <1>1, <1>2, <2>1, <2>2 DEF Gens
    <2>4. TypeOK'
      BY <1>1, <2>1, <2>3 DEF IInv, TypeOK
    <2>5. /\ gen'[k] > gen[k]
          /\ \A l \in Keys : l # k => gen'[l] = gen[l] /\ made'[l] = made[l]
          /\ \A l \in SourceKeys : l # k => sources'[l] = sources[l]
      BY <1>2, <2>1, <2>2
    <2>6. ObjectsInv'
      <3> SUFFICES ASSUME NEW s \in Requests, req[s].pc \notin Over,
                          NEW i \in 1..Len(req[s].plan)
                   PROVE  LET l == req[s].plan[i].key IN
                          /\ req[s].gens[i] <= gen'[l]
                          /\ req[s].gens[i] = gen'[l] =>
                                \A e \in 0..NumDims : Enforced(req[s].plan[i], e) => e \in made'[l]
        BY <1>1 DEF ObjectsInv, KnownObjects
      <3> DEFINE q == req[s]
                 l == q.plan[i].key
      <3>1. /\ q.gens[i] <= gen[l]
            /\ q.gens[i] = gen[l] => \A e \in 0..NumDims : Enforced(q.plan[i], e) => e \in made[l]
        BY DEF IInv, ObjectsInv, KnownObjects
      <3>2. l \in Keys /\ q.gens[i] \in Nat
        <4>1. q \in Request /\ PlanInv(q)
          BY Typed
        <4> QED
          BY <4>1, ScopeTypes
      <3>3. gen[k] \in Nat /\ gen'[k] \in Nat
        BY <1>2, <2>3 DEF Gens
      <3>4. CASE l = k
        <4>1. q.gens[i] < gen'[l]
          BY <2>5, <3>1, <3>2, <3>3, <3>4
        <4> HIDE DEF l
        <4> QED
          BY <3>2, <3>3, <3>4, <4>1 DEF l
      <3>5. CASE l # k
        BY <2>5, <3>1, <3>2, <3>5
      <3> QED
        BY <3>4, <3>5
    <2>7. ASSUME TInv PROVE TInv'
      <3> SUFFICES ASSUME NEW s \in Requests
                   PROVE  (RecentInv(req[s]) /\ LeasedInv(req[s]) /\ CurrentInv(req[s]))'
        BY DEF TInv
      <3> DEFINE q == req[s]
      <3>1. q' = q /\ RecentInv(q) /\ LeasedInv(q) /\ CurrentInv(q) /\ q \in Request /\ (q.pc \notin Over => PlanInv(q))
        BY <1>1, <2>7, Typed DEF TInv
      <3>2. RecentInv(q)'
        <4> SUFFICES ASSUME q.pc = "reserving"
                     PROVE  /\ q.at > 0 /\ q.at <= now /\ now - q.at <= MaxStall
                            /\ \A i \in 1..Len(q.plan) : q.plan[i].key \notin Removable =>
                                  /\ q.gens[i] = gen'[q.plan[i].key]
                                  /\ q.plan[i].key \in SourceKeys => sources'[q.plan[i].key] >= q.at
          BY <1>1, <3>1 DEF RecentInv
        <4>1. \A i \in 1..Len(q.plan) : q.plan[i].key \in Keys
          BY <3>1, ScopeTypes
        <4> QED
          BY <1>1, <2>5, <3>1, <4>1 DEF RecentInv
      <3>3. LeasedInv(q)'
        BY <3>1 DEF LeasedInv
      <3>4. CurrentInv(q)'
        <4>1. \A o \in q.leases : o[1] \in Keys
          BY <3>1 DEF Request, Objects
        <4>2. \A h \in q.holds : h[1][1] \in Keys
          BY <3>1 DEF Request, Objects
        <4> QED
          BY <1>1, <2>5, <3>1, <4>1, <4>2 DEF CurrentInv
      <3> QED
        BY <3>2, <3>3, <3>4
    <2> QED
      BY <1>3, <2>4, <2>6, <2>7 DEF Kept, IInv
  <1>5. CASE ~(LeaseFree(k) /\ BucketsEvictable(k))
    <2>1. UNCHANGED <<gen, made, sources>>
      BY <1>5 DEF RemoveScope
    <2>2. buckets' \in BucketTable
      <3>1. gen[k] \in Gens
        BY <1>2
      <3>2. \/ buckets' = buckets
            \/ buckets' = [buckets EXCEPT ![k][gen[k]] = [d \in Dims |->
                                  IF d \in made[k] THEN Refill(@[d]) ELSE @[d]]]
        BY <1>5 DEF RemoveScope
      <3>3. [buckets EXCEPT ![k][gen[k]] = [d \in Dims |->
                IF d \in made[k] THEN Refill(@[d]) ELSE @[d]]] \in BucketTable
        BY <1>2, <3>1, RefillObject
      <3> QED
        BY <1>2, <3>2, <3>3
    <2>3. TypeOK'
      BY <1>1, <2>1, <2>2 DEF IInv, TypeOK, BucketTable, Bucket
    <2>4. ObjectsInv'
      BY <1>1, <2>1 DEF IInv, ObjectsInv, KnownObjects
    <2>5. TInv => TInv'
      BY <1>1, <2>1 DEF TInv, RecentInv, LeasedInv, CurrentInv
    <2> QED
      BY <1>3, <2>3, <2>4, <2>5 DEF Kept, IInv
  <1> QED
    BY <1>4, <1>5

-----------------------------------------------------------------------------
(***************************************************************************)
(* The resolution of the gauges.                                           *)
(***************************************************************************)
LEMMA PlanFacts ==
    ASSUME NEW plan \in Plans
    PROVE  /\ plan \in Seq(ScopeSpec) /\ Len(plan) \in Nat /\ Len(plan) > 0 /\ DOMAIN plan = 1..Len(plan)
           /\ \A i \in 1..Len(plan) : plan[i] \in ScopeSpec
           /\ \A i, j \in 1..Len(plan) : plan[i].key = plan[j].key => i = j
           /\ \A i \in 1..Len(plan) : i > 1 => plan[i].key \notin SourceKeys
           /\ \A k \in SourceKeys, i \in 1..Len(plan) : plan[i].key # sourceOverflowID[k]
  <1>1. plan \in Seq(ScopeSpec) /\ plan # <<>>
    BY PlanAssumption
  <1>2. DOMAIN plan = 1..Len(plan) /\ Len(plan) \in Nat
    BY <1>1
  <1>3. Len(plan) > 0
    BY <1>1, EmptySeq
  <1>4. \A i \in 1..Len(plan) : plan[i] \in ScopeSpec
    BY <1>1
  <1> QED
    BY <1>1, <1>2, <1>3, <1>4, PlanAssumption

(* The plan a request ends up with, and the sources given up for it.       *)
LEMMA EnsureFacts ==
    ASSUME IInv, NEW plan \in Plans, NEW out \in EnsureSourceScope(plan)
    PROVE  /\ out.plan \in Seq(ScopeSpec) /\ Len(out.plan) > 0
           /\ DOMAIN out.plan = 1..Len(out.plan)
           /\ \A i \in 1..Len(out.plan) : out.plan[i] \in ScopeSpec
           /\ \A i, j \in 1..Len(out.plan) : out.plan[i].key = out.plan[j].key => i = j
           /\ out.evicted \subseteq Scannable
           /\ \A i \in 1..Len(out.plan) : out.plan[i].key \notin out.evicted
           /\ Timely => \A i \in 1..Len(out.plan) : out.plan[i].key \in SourceKeys => Enforced(out.plan[i], 0)
  <1> DEFINE k == plan[1].key
             victims == {v \in Scannable : BucketsEvictable(v)}
  <1>1. /\ plan \in Seq(ScopeSpec) /\ Len(plan) \in Nat /\ Len(plan) > 0 /\ DOMAIN plan = 1..Len(plan)
        /\ \A i \in 1..Len(plan) : plan[i] \in ScopeSpec
        /\ \A i, j \in 1..Len(plan) : plan[i].key = plan[j].key => i = j
        /\ \A i \in 1..Len(plan) : i > 1 => plan[i].key \notin SourceKeys
        /\ \A l \in SourceKeys, i \in 1..Len(plan) : plan[i].key # sourceOverflowID[l]
    BY PlanFacts
  <1>2. Timely => \A i \in 1..Len(plan) : plan[i].key \in SourceKeys => Enforced(plan[i], 0)
    BY <1>1 DEF Timely
  <1>3. CASE k \notin SourceKeys \/ sources[k] # 0 \/ Cardinality(InTable) < MaxSourceScopes
    <2>1. out = [plan |-> plan, evicted |-> {}, scanned |-> {}]
      BY <1>3 DEF EnsureSourceScope
    <2>2. out.plan = plan /\ out.evicted = {}
      BY <2>1
    <2> QED
      BY <1>1, <1>2, <2>2
  <1>4. CASE ~(k \notin SourceKeys \/ sources[k] # 0 \/ Cardinality(InTable) < MaxSourceScopes)
    <2>1. k \in SourceKeys /\ sources[k] = 0
      BY <1>4
    <2>2. CASE victims = {}
      <3> DEFINE full == [plan EXCEPT ![1].key = sourceOverflowID[k]]
      <3>1. out = [plan |-> full, evicted |-> {}, scanned |-> Scannable]
        BY <1>4, <2>2 DEF EnsureSourceScope
      <3>2. out.plan = full /\ out.evicted = {}
        <4> HIDE DEF full
        <4> QED
          BY <3>1
      <3>3. PICK l \in Keys \ SourceKeys : l = sourceOverflowID[k]
        BY <2>1, PlanAssumption
      <3>4. PICK s \in ScopeSpec : s = [plan[1] EXCEPT !.key = l] /\ s.key = l
        <4>1. PICK c \in ScopeSpec : c = plan[1]
          BY <1>1
        <4>2. [c EXCEPT !.key = l] \in ScopeSpec /\ [c EXCEPT !.key = l].key = l
          BY <3>3 DEF ScopeSpec
        <4> QED
          BY <4>1, <4>2
      <3>5. full = [plan EXCEPT ![1] = s]
        BY <3>3, <3>4
      <3>6. full \in Seq(ScopeSpec) /\ Len(full) = Len(plan) /\ DOMAIN full = 1..Len(plan)
        <4> HIDE DEF full
        <4> QED
          BY <1>1, <3>5, ExceptSeq
      <3>7. full[1] = s /\ \A i \in 1..Len(plan) : i # 1 => full[i] = plan[i]
        <4> HIDE DEF full
        <4> QED
          BY <1>1, <3>5
      <3> HIDE DEF full
      <3>8. \A i \in 1..Len(plan) : full[i] \in ScopeSpec /\ full[i].key \notin SourceKeys
        <4>1. \A i \in 1..Len(plan) : i # 1 => i > 1
          OBVIOUS
        <4>2. s.key = l /\ l \notin SourceKeys /\ s \in ScopeSpec
          BY <3>3, <3>4
        <4> QED
          BY <1>1, <3>7, <4>1, <4>2
      <3>9. \A i, j \in 1..Len(plan) : full[i].key = full[j].key => i = j
        <4>1. \A i \in 1..Len(plan) : plan[i].key # s.key
          BY <1>1, <2>1, <3>3, <3>4
        <4> QED
          BY <1>1, <3>7, <4>1
      <3> QED
        BY <1>1, <3>2, <3>6, <3>8, <3>9
    <2>3. CASE victims # {}
      <3>1. out \in {[plan |-> plan, evicted |-> {v}, scanned |-> C] :
                        v \in victims, C \in SUBSET (Scannable \ victims)}
        BY <1>4, <2>3 DEF EnsureSourceScope
      <3>2. PICK v \in victims, C \in SUBSET (Scannable \ victims) :
                 out = [plan |-> plan, evicted |-> {v}, scanned |-> C]
        BY <3>1
      <3>3. out.plan = plan /\ out.evicted = {v}
        BY <3>2
      <3>4. v \in Scannable /\ v \in SourceKeys /\ sources[v] # 0
        BY DEF Scannable, InTable
      <3>5. \A i \in 1..Len(plan) : plan[i].key # v
        <4> SUFFICES ASSUME NEW i \in 1..Len(plan), plan[i].key = v PROVE FALSE
          OBVIOUS
        <4>1. i = 1
          BY <1>1, <3>4
        <4> QED
          BY <2>1, <3>4, <4>1
      <3> QED
        BY <1>1, <1>2, <3>3, <3>4, <3>5
    <2> QED
      BY <2>2, <2>3
  <1> QED
    BY <1>3, <1>4

(* A lease is on a generation that was in the maps; while it is, so is its *)
(* pool.                                                                   *)
LEMMA LeaseKnown ==
    ASSUME IInv, NEW s \in Requests, NEW o \in req[s].leases
    PROVE  /\ o = <<o[1], o[2]>> /\ o[1] \in Keys /\ o[2] \in Gens
           /\ o[2] <= gen[o[1]]
           /\ o[2] = gen[o[1]] => 0 \in made[o[1]]
           /\ o[2] = gen[o[1]] => ~LeaseFree(o[1])
  <1> DEFINE q == req[s]
  <1>1. q \in Request /\ HeldInv(q) /\ LeaseConservation
    BY Typed
  <1>2. PICK p \in Positions(q) :
          Passed(q, p) /\ Stage(q.plan, p) = 0 /\ ObjAt(q, p) = o /\ Enforced(SpecAt(q, p), 0)
    BY <1>1 DEF HeldInv
  <1>3. PlanInv(q) /\ KnownObjects(q)
    BY <1>2, Typed DEF Passed, IInv, ObjectsInv
  <1>4. PICK i \in 1..Len(q.plan) : i = ScopeAt(q.plan, p)
    BY <1>1, <1>2, <1>3, GaugeFacts
  <1>5. o[1] = q.plan[i].key /\ o[2] = q.gens[i] /\ o = <<o[1], o[2]>> /\ Enforced(q.plan[i], 0)
    BY <1>2, <1>4 DEF ObjAt, SpecAt
  <1>6. o[1] \in Keys /\ o[2] \in Gens
    BY <1>1, <1>3, <1>5, ScopeTypes
  <1>7. o[2] <= gen[o[1]] /\ (o[2] = gen[o[1]] => 0 \in made[o[1]])
    <2>1. 0 \in 0..NumDims
      BY PlanAssumption
    <2> QED
      BY <1>3, <1>5, <2>1 DEF KnownObjects
  <1>8. ASSUME o[2] = gen[o[1]] PROVE ~LeaseFree(o[1])
    <2>1. s \in LeaseHolders(o[1], o[2])
      BY <1>5 DEF LeaseHolders
    <2>2. Cardinality(LeaseHolders(o[1], o[2])) # 0
      BY <2>1, HoldersFinite, FS_EmptySet
    <2>3. InUse(o[1], o[2]) # 0
      BY <1>1, <1>6, <2>2 DEF LeaseConservation
    <2> QED
      BY <1>7, <1>8, <2>3 DEF LeaseFree
  <1> QED
    BY <1>5, <1>6, <1>7, <1>8

(* What a resolution does to the pools and the buckets, when at are the    *)
(* generations of the keys and exists the gauges they had before.          *)
LEMMA ResolvedTables ==
    ASSUME IInv, NEW keys, NEW specAt, DOMAIN specAt = keys, \A k \in keys : specAt[k] \in ScopeSpec,
           NEW at \in [Keys -> Gens], NEW exists, NEW scanned
    PROVE  /\ ResolvePools(specAt, exists, at) \in PoolTable
           /\ \A k \in Keys, g \in Gens :
                 \/ ResolvePools(specAt, exists, at)[k][g] = pools[k][g]
                 \/ /\ g = at[k] /\ 0 \notin exists[k]
                    /\ \E c \in Nat : ResolvePools(specAt, exists, at)[k][g] = [capacity |-> c, balance |-> c]
           /\ ResolveBuckets(specAt, exists, at, scanned) \in BucketTable
  <1>1. now \in Nat /\ pools \in PoolTable /\ buckets \in BucketTable
    BY Typed
  <1> DEFINE np(k) == IF k \in DOMAIN specAt /\ Enforced(specAt[k], 0) /\ 0 \notin exists[k]
                      THEN [pools[k] EXCEPT ![at[k]] = NewConcurrencyPool(specAt[k].cap)]
                      ELSE pools[k]
  <1>2. ASSUME NEW k \in Keys
        PROVE  /\ np(k) \in [Gens -> Pool]
               /\ \A g \in Gens : \/ np(k)[g] = pools[k][g]
                                  \/ /\ g = at[k] /\ 0 \notin exists[k]
                                     /\ \E c \in Nat : np(k)[g] = [capacity |-> c, balance |-> c]
    <2>1. pools[k] \in [Gens -> Pool] /\ at[k] \in Gens
      BY <1>1 DEF PoolTable
    <2>2. CASE k \in DOMAIN specAt /\ Enforced(specAt[k], 0) /\ 0 \notin exists[k]
      <3>1. PICK c \in Nat : c = specAt[k].cap
        BY <2>2 DEF ScopeSpec
      <3>2. PICK n \in Pool : n = [capacity |-> c, balance |-> c]
        <4>1. [capacity |-> c, balance |-> c] \in Pool
          BY DEF Pool
        <4> QED
          BY <4>1
      <3>3. np(k) = [pools[k] EXCEPT ![at[k]] = n]
        BY <2>2, <3>1, <3>2 DEF NewConcurrencyPool
      <3> HIDE DEF np
      <3> QED
        BY <2>1, <2>2, <3>2, <3>3
    <2>3. CASE ~(k \in DOMAIN specAt /\ Enforced(specAt[k], 0) /\ 0 \notin exists[k])
      <3>1. np(k) = pools[k]
        BY <2>3
      <3> HIDE DEF np
      <3> QED
        BY <2>1, <3>1
    <2> QED
      BY <2>2, <2>3
  <1>3. ResolvePools(specAt, exists, at) = [k \in Keys |-> np(k)]
    BY DEF ResolvePools
  <1> HIDE DEF np
  <1>4. /\ ResolvePools(specAt, exists, at) \in PoolTable
        /\ \A k \in Keys, g \in Gens :
                 \/ ResolvePools(specAt, exists, at)[k][g] = pools[k][g]
                 \/ /\ g = at[k] /\ 0 \notin exists[k]
                    /\ \E c \in Nat : ResolvePools(specAt, exists, at)[k][g] = [capacity |-> c, balance |-> c]
    BY <1>2, <1>3 DEF PoolTable
  <1> DEFINE old(k, d) == buckets[k][at[k]][d]
             new(k) == [d \in Dims |->
                IF ~Enforced(specAt[k], d) THEN old(k, d)
                ELSE IF d \in exists[k]
                THEN Reconfigure(old(k, d), specAt[k].burst[d], specAt[k].rate[d])
                ELSE NewTokenBucket(specAt[k].burst[d], specAt[k].rate[d])]
             fresh(k) == [d \in Dims |-> IF d \in exists[k] THEN Refill(old(k, d)) ELSE old(k, d)]
             nb(k) == IF k \in DOMAIN specAt THEN [buckets[k] EXCEPT ![at[k]] = new(k)]
                      ELSE IF k \in scanned THEN [buckets[k] EXCEPT ![at[k]] = fresh(k)]
                      ELSE buckets[k]
  <1>5. ASSUME NEW k \in Keys PROVE nb(k) \in [Gens -> [Dims -> Bucket]]
    <2>1. buckets[k] \in [Gens -> [Dims -> Bucket]] /\ at[k] \in Gens /\ \A d \in Dims : old(k, d) \in Bucket
      BY <1>1 DEF BucketTable
    <2> HIDE DEF old
    <2>2. fresh(k) \in [Dims -> Bucket]
      <3>1. \A d \in Dims : Refill(old(k, d)) \in Bucket
        BY <1>1, <2>1, RefillType
      <3> QED
        BY <2>1, <3>1
    <2>3. k \in DOMAIN specAt => new(k) \in [Dims -> Bucket]
      <3> SUFFICES ASSUME k \in DOMAIN specAt, NEW d \in Dims
                   PROVE  (IF ~Enforced(specAt[k], d) THEN old(k, d)
                           ELSE IF d \in exists[k]
                           THEN Reconfigure(old(k, d), specAt[k].burst[d], specAt[k].rate[d])
                           ELSE NewTokenBucket(specAt[k].burst[d], specAt[k].rate[d])) \in Bucket
        OBVIOUS
      <3>0. PICK c \in ScopeSpec : c = specAt[k]
        OBVIOUS
      <3>1. PICK b \in Nat, t \in Nat : b = specAt[k].burst[d] /\ t = specAt[k].rate[d]
        <4>1. c.burst \in [Dims -> Nat] /\ c.rate \in [Dims -> Nat]
          BY DEF ScopeSpec
        <4> QED
          BY <3>0, <4>1
      <3>2. Reconfigure(old(k, d), b, t) \in Bucket /\ NewTokenBucket(b, t) \in Bucket
        BY <1>1, <2>1, BucketTypes
      <3> QED
        BY <2>1, <3>1, <3>2
    <2> HIDE DEF fresh, new
    <2> QED
      BY <2>1, <2>2, <2>3
  <1>6. ResolveBuckets(specAt, exists, at, scanned) = [k \in Keys |-> nb(k)]
    BY DEF ResolveBuckets
  <1> HIDE DEF nb
  <1>7. ResolveBuckets(specAt, exists, at, scanned) \in BucketTable
    BY <1>5, <1>6 DEF BucketTable
  <1> QED
    BY <1>4, <1>7

(* The maps and the request after a resolution.                            *)
Resolution(r, out) ==
    /\ gen' \in [Keys -> Gens] /\ made' \in [Keys -> SUBSET (0..NumDims)]
    /\ sources' \in [SourceKeys -> Nat] /\ pools' \in PoolTable /\ buckets' \in BucketTable
    /\ \A k \in Keys : /\ k \notin out.evicted => gen'[k] = gen[k] /\ made[k] \subseteq made'[k]
                       /\ k \in out.evicted => gen'[k] = gen[k] + 1
    /\ \A i \in 1..Len(out.plan) : \A s \in 0..NumDims :
          Enforced(out.plan[i], s) => s \in made'[out.plan[i].key]
    /\ \A k \in Keys, g \in Gens :
          \/ pools'[k][g] = pools[k][g]
          \/ /\ g = gen'[k] /\ (k \in out.evicted \/ 0 \notin made[k])
             /\ \E c \in Nat : pools'[k][g] = [capacity |-> c, balance |-> c]
    /\ \A k \in SourceKeys : k \notin out.evicted => sources'[k] \in {sources[k], now}
    /\ \A i \in 1..Len(out.plan) : out.plan[i].key \in SourceKeys => sources'[out.plan[i].key] = now
    /\ \E x \in Request :
          /\ req' = [req EXCEPT ![r] = x] /\ x.pc = "reserving" /\ x.plan = out.plan
          /\ Len(x.gens) = Len(out.plan) /\ \A i \in 1..Len(out.plan) : x.gens[i] = gen'[out.plan[i].key]
          /\ x.pos = 1 /\ x.at = now /\ x.leases = {} /\ x.holds = {}

LEMMA ResolveFacts ==
    ASSUME IInv, NEW r \in Requests, NEW plan \in Plans, NEW est \in Estimates,
           NEW out \in EnsureSourceScope(plan), \A k \in out.evicted : gen[k] < MaxGen, Resolved(r, out, est)
    PROVE  Resolution(r, out)
  <1> DEFINE keys   == {out.plan[i].key : i \in DOMAIN out.plan}
             specAt == [k \in keys |-> out.plan[CHOOSE i \in DOMAIN out.plan : out.plan[i].key = k]]
             at     == [k \in Keys |-> IF k \in out.evicted THEN gen[k] + 1 ELSE gen[k]]
             exists == [k \in Keys |-> IF k \in out.evicted THEN {} ELSE made[k]]
             gens   == [i \in DOMAIN out.plan |-> at[out.plan[i].key]]
             x      == [Idle EXCEPT !.pc = "reserving", !.plan = out.plan, !.est = est,
                                    !.gens = gens, !.pos = 1, !.at = now]
  <1>1. /\ out.plan \in Seq(ScopeSpec) /\ Len(out.plan) > 0
        /\ DOMAIN out.plan = 1..Len(out.plan)
        /\ \A i \in 1..Len(out.plan) : out.plan[i] \in ScopeSpec
        /\ \A i, j \in 1..Len(out.plan) : out.plan[i].key = out.plan[j].key => i = j
        /\ out.evicted \subseteq Scannable
        /\ \A i \in 1..Len(out.plan) : out.plan[i].key \notin out.evicted
    BY EnsureFacts
  <1>2. /\ now \in Nat /\ gen \in [Keys -> Gens] /\ made \in [Keys -> SUBSET (0..NumDims)]
        /\ sources \in [SourceKeys -> Nat] /\ req \in [Requests -> Request]
    BY Typed
  <1>3. \A i \in 1..Len(out.plan) : out.plan[i].key \in Keys /\ out.plan[i].key \in keys
    BY <1>1 DEF ScopeSpec
  <1>4. \A i \in 1..Len(out.plan) : specAt[out.plan[i].key] = out.plan[i]
    <2> TAKE i \in 1..Len(out.plan)
    <2>1. out.plan[i].key \in keys
      BY <1>3
    <2>2. (CHOOSE j \in DOMAIN out.plan : out.plan[j].key = out.plan[i].key) = i
      BY <1>1
    <2> QED
      BY <2>1, <2>2
  <1>5. DOMAIN specAt = keys /\ \A k \in keys : specAt[k] \in ScopeSpec
    <2>1. \A k \in keys : \E i \in 1..Len(out.plan) : k = out.plan[i].key
      BY <1>1
    <2> QED
      BY <1>1, <1>4, <2>1
  <1>6. at \in [Keys -> Gens]
    <2>1. \A k \in Keys : gen[k] \in Gens /\ gen[k] \in Nat /\ MaxGen \in Nat
      BY <1>2, BoundAssumption DEF Gens
    <2> QED
      BY <2>1 DEF Gens
  <1>7. /\ gen' = at
        /\ made' = [k \in Keys |-> IF k \in keys
                       THEN exists[k] \cup {s \in 0..NumDims : Enforced(specAt[k], s)}
                       ELSE exists[k]]
        /\ pools' = ResolvePools(specAt, exists, at)
        /\ buckets' = ResolveBuckets(specAt, exists, at, out.scanned)
        /\ sources' = [k \in SourceKeys |-> IF k \in out.evicted THEN 0
                                            ELSE IF k \in keys THEN now ELSE sources[k]]
        /\ req' = [req EXCEPT ![r] = x]
    BY DEF Resolved
  <1>8. /\ \A k \in Keys : at[k] = IF k \in out.evicted THEN gen[k] + 1 ELSE gen[k]
        /\ \A k \in Keys : exists[k] = IF k \in out.evicted THEN {} ELSE made[k]
        /\ exists \in [Keys -> SUBSET (0..NumDims)]
    BY <1>2
  <1> HIDE DEF specAt, at, exists, keys
  <1>9. made' \in [Keys -> SUBSET (0..NumDims)]
    BY <1>7, <1>8
  <1>10. sources' \in [SourceKeys -> Nat]
    BY <1>2, <1>7
  <1>11. \A k \in Keys : /\ k \notin out.evicted => gen'[k] = gen[k] /\ made[k] \subseteq made'[k]
                         /\ k \in out.evicted => gen'[k] = gen[k] + 1
    BY <1>7, <1>8
  <1>12. \A i \in 1..Len(out.plan) : \A s \in 0..NumDims :
            Enforced(out.plan[i], s) => s \in made'[out.plan[i].key]
    BY <1>3, <1>4, <1>7
  <1>13. /\ pools' \in PoolTable /\ buckets' \in BucketTable
         /\ \A k \in Keys, g \in Gens :
                 \/ pools'[k][g] = pools[k][g]
                 \/ /\ g = at[k] /\ 0 \notin exists[k]
                    /\ \E c \in Nat : pools'[k][g] = [capacity |-> c, balance |-> c]
    BY <1>5, <1>6, <1>7, ResolvedTables
  <1>14. \A k \in Keys, g \in Gens :
                 \/ pools'[k][g] = pools[k][g]
                 \/ /\ g = gen'[k] /\ (k \in out.evicted \/ 0 \notin made[k])
                    /\ \E c \in Nat : pools'[k][g] = [capacity |-> c, balance |-> c]
    BY <1>7, <1>8, <1>13
  <1>15. /\ \A k \in SourceKeys : k \notin out.evicted => sources'[k] \in {sources[k], now}
         /\ \A i \in 1..Len(out.plan) : out.plan[i].key \in SourceKeys => sources'[out.plan[i].key] = now
    BY <1>1, <1>3, <1>7
  <1>16. /\ gens \in Seq(Gens) /\ Len(gens) = Len(out.plan)
         /\ \A i \in 1..Len(out.plan) : gens[i] = gen'[out.plan[i].key]
    <2>1. gens \in [1..Len(out.plan) -> Gens] /\ Len(out.plan) \in Nat
      BY <1>1, <1>3, <1>6
    <2>2. \A i \in 1..Len(out.plan) : gens[i] = gen'[out.plan[i].key]
      BY <1>1, <1>7
    <2> HIDE DEF gens
    <2> QED
      BY <2>1, <2>2, SeqDef, LenProperties
  <1> HIDE DEF gens
  <1>17. /\ x \in Request /\ x.pc = "reserving" /\ x.plan = out.plan /\ x.gens = gens
         /\ x.pos = 1 /\ x.at = now /\ x.leases = {} /\ x.holds = {}
    <2>1. est \in [Dims -> Nat]
      BY UsageAssumption
    <2> QED
      BY <1>1, <1>2, <1>16, <2>1, IdleFacts DEF Request
  <1> HIDE DEF x
  <1>18. \E z \in Request :
                 /\ req' = [req EXCEPT ![r] = z] /\ z.pc = "reserving" /\ z.plan = out.plan
                 /\ Len(z.gens) = Len(out.plan) /\ \A i \in 1..Len(out.plan) : z.gens[i] = gen'[out.plan[i].key]
                 /\ z.pos = 1 /\ z.at = now /\ z.leases = {} /\ z.holds = {}
    BY <1>7, <1>16, <1>17
  <1>19. gen' \in [Keys -> Gens]
    BY <1>6, <1>7
  <1> QED
    BY <1>9, <1>10, <1>11, <1>12, <1>13, <1>14, <1>15, <1>18, <1>19 DEF Resolution

(* A source whose lease is held, or which a request on its way up uses, is *)
(* not one that can be evicted.                                            *)
LEMMA NotEvicted ==
    ASSUME IInv, Timely, TInv, NEW s \in Requests
    PROVE  /\ \A o \in req[s].leases : o[1] \notin Removable => o[1] \notin Scannable
           /\ req[s].pc \in Serving => \A h \in req[s].holds : h[1][1] \notin Removable => h[1][1] \notin Scannable
           /\ req[s].pc = "reserving" => \A i \in 1..Len(req[s].plan) :
                 req[s].plan[i].key \notin Removable => req[s].plan[i].key \notin Scannable
  <1> DEFINE q == req[s]
  <1>1. q \in Request /\ HeldInv(q) /\ RecentInv(q) /\ LeasedInv(q) /\ CurrentInv(q)
    BY Typed DEF TInv
  <1>2. ASSUME NEW o \in q.leases, o[1] \notin Removable PROVE o[1] \notin Scannable
    <2>1. o[2] = gen[o[1]]
      BY <1>1, <1>2 DEF CurrentInv
    <2>2. ~LeaseFree(o[1])
      BY <2>1, LeaseKnown
    <2> QED
      BY <2>2 DEF Scannable
  <1>3. ASSUME q.pc = "reserving", NEW i \in 1..Len(q.plan), q.plan[i].key \notin Removable
        PROVE  q.plan[i].key \notin Scannable
    <2> SUFFICES ASSUME q.plan[i].key \in Scannable PROVE FALSE
      OBVIOUS
    <2> DEFINE k == q.plan[i].key
    <2>1. k \in SourceKeys /\ now - sources[k] >= SourceIdle
      BY DEF Scannable, InTable
    <2>2. sources[k] >= q.at /\ now - q.at <= MaxStall
      BY <1>1, <1>3, <2>1 DEF RecentInv
    <2>3. now \in Nat /\ sources[k] \in Nat /\ q.at \in Nat /\ MaxStall \in Nat /\ SourceIdle \in Nat
      BY <1>1, <2>1, Typed, BoundAssumption DEF Request
    <2> QED
      BY SMTT(30), <2>1, <2>2, <2>3 DEF Timely
  <1>4. ASSUME q.pc \in Serving, NEW h \in q.holds, h[1][1] \notin Removable PROVE h[1][1] \notin Scannable
    <2>1. PICK p \in Positions(q) : Passed(q, p) /\ h = <<ObjAt(q, p), Stage(q.plan, p)>>
      BY <1>1 DEF HeldInv
    <2>2. PlanInv(q)
      BY <2>1, Typed DEF Passed
    <2>3. PICK i \in 1..Len(q.plan) : i = ScopeAt(q.plan, p)
      BY <1>1, <2>2, GaugeFacts
    <2>4. h[1] = <<q.plan[i].key, q.gens[i]>> /\ h[1][1] = q.plan[i].key
      BY <2>1, <2>3 DEF ObjAt
    <2>5. CASE q.pc = "reserving"
      BY <1>3, <1>4, <2>4, <2>5
    <2>6. CASE q.pc # "reserving"
      <3> SUFFICES ASSUME q.plan[i].key \in SourceKeys PROVE h[1][1] \notin Scannable
        BY <2>4 DEF Scannable, InTable
      <3>1. q.plan \in Seq(ScopeSpec) /\ Len(q.plan) > 0 /\ Len(q.plan) \in Nat
        BY <1>1, <2>2 DEF Request, PlanInv
      <3>2. i \in Positions(q) /\ Stage(q.plan, i) = 0 /\ ScopeAt(q.plan, i) = i
        BY <3>1, PositionFacts DEF Positions
      <3>3. Passed(q, i)
        BY <1>4, <2>6 DEF Passed, Serving, Over
      <3>4. Enforced(SpecAt(q, i), 0)
        <4>1. q.pc \notin Over
          BY <1>4 DEF Serving, Over
        <4> QED
          BY <1>1, <3>2, <4>1 DEF LeasedInv, SpecAt
      <3>5. ObjAt(q, i) \in q.leases
        BY <1>1, <1>4, <3>2, <3>3, <3>4 DEF LeasedInv
      <3>6. ObjAt(q, i) = h[1]
        BY <2>4, <3>2 DEF ObjAt
      <3> QED
        BY <1>2, <1>4, <3>5, <3>6
    <2> QED
      BY <2>5, <2>6
  <1> QED
    BY <1>2, <1>3, <1>4

LEMMA ResolveStep ==
    ASSUME IInv, NEW r \in Requests, Resolve(r)
    PROVE  Kept
  <1>1. req[r].pc = "idle" /\ UNCHANGED <<now, spent>>
    BY DEF Resolve
  <1>2. PICK plan \in Plans, est \in Estimates : \E out \in EnsureSourceScope(plan) :
           (\A k \in out.evicted : gen[k] < MaxGen) /\ Resolved(r, out, est)
    BY DEF Resolve
  <1>3. PICK out \in EnsureSourceScope(plan) : (\A k \in out.evicted : gen[k] < MaxGen) /\ Resolved(r, out, est)
    BY <1>2
  <1>4. /\ out.plan \in Seq(ScopeSpec) /\ Len(out.plan) > 0
        /\ \A i \in 1..Len(out.plan) : out.plan[i] \in ScopeSpec
        /\ \A i, j \in 1..Len(out.plan) : out.plan[i].key = out.plan[j].key => i = j
        /\ out.evicted \subseteq Scannable
        /\ Timely => \A i \in 1..Len(out.plan) : out.plan[i].key \in SourceKeys => Enforced(out.plan[i], 0)
    BY EnsureFacts
  <1>5. /\ gen' \in [Keys -> Gens] /\ made' \in [Keys -> SUBSET (0..NumDims)]
        /\ sources' \in [SourceKeys -> Nat] /\ pools' \in PoolTable /\ buckets' \in BucketTable
        /\ \A k \in Keys : /\ k \notin out.evicted => gen'[k] = gen[k] /\ made[k] \subseteq made'[k]
                           /\ k \in out.evicted => gen'[k] = gen[k] + 1
        /\ \A i \in 1..Len(out.plan) : \A s \in 0..NumDims :
              Enforced(out.plan[i], s) => s \in made'[out.plan[i].key]
        /\ \A k \in Keys, g \in Gens :
                 \/ pools'[k][g] = pools[k][g]
                 \/ /\ g = gen'[k] /\ (k \in out.evicted \/ 0 \notin made[k])
                    /\ \E c \in Nat : pools'[k][g] = [capacity |-> c, balance |-> c]
        /\ \A k \in SourceKeys : k \notin out.evicted => sources'[k] \in {sources[k], now}
        /\ \A i \in 1..Len(out.plan) : out.plan[i].key \in SourceKeys => sources'[out.plan[i].key] = now
        /\ \E x \in Request :
                 /\ req' = [req EXCEPT ![r] = x] /\ x.pc = "reserving" /\ x.plan = out.plan
                 /\ Len(x.gens) = Len(out.plan) /\ \A i \in 1..Len(out.plan) : x.gens[i] = gen'[out.plan[i].key]
                 /\ x.pos = 1 /\ x.at = now /\ x.leases = {} /\ x.holds = {}
    <2>1. \A k \in out.evicted : gen[k] < MaxGen
      BY <1>3
    <2>2. Resolved(r, out, est)
      BY <1>3
    <2>3. Resolution(r, out)
      BY <2>1, <2>2, ResolveFacts
    <2> QED
      BY <2>3 DEF Resolution
  <1>6. PICK x \in Request :
                 /\ req' = [req EXCEPT ![r] = x] /\ x.pc = "reserving" /\ x.plan = out.plan
                 /\ Len(x.gens) = Len(out.plan) /\ \A i \in 1..Len(out.plan) : x.gens[i] = gen'[out.plan[i].key]
                 /\ x.pos = 1 /\ x.at = now /\ x.leases = {} /\ x.holds = {}
    BY <1>5
  <1>7. /\ now \in Nat /\ now > 0 /\ gen \in [Keys -> Gens] /\ spent \in SpentTable
        /\ req \in [Requests -> Request] /\ LeaseConservation
        /\ \A s \in Requests : req'[s] = IF s = r THEN x ELSE req[s]
    BY <1>6, Typed
  <1>8. \A s \in Requests : req'[s].leases = req[s].leases
    <2>1. req[r].leases = {}
      <3>1. HeldInv(req[r])
        BY Typed
      <3> QED
        BY <1>1, <3>1 DEF HeldInv, Passed, Over
    <2> QED
      BY <1>6, <1>7, <2>1
  <1>9. TypeOK'
    <2>1. req' \in [Requests -> Request]
      BY <1>6, <1>7
    <2>2. now' \in Nat \ {0} /\ spent' \in SpentTable
      BY <1>1, <1>7
    <2>3. pools' \in PoolTable /\ buckets' \in BucketTable /\ gen' \in [Keys -> Gens]
          /\ made' \in [Keys -> SUBSET (0..NumDims)] /\ sources' \in [SourceKeys -> Nat]
      BY <1>5
    <2> QED
      BY <2>1, <2>2, <2>3 DEF TypeOK, Request, Bucket, Pool, PoolTable, BucketTable, SpentTable
  <1>10. RequestsInv'
    <2>1. LastPos(x.plan) \in Nat /\ LastPos(x.plan) >= 1
      <3>1. LastPos(x.plan) \in Nat /\ LastPos(x.plan) >= Len(x.plan) /\ Len(x.plan) \in Nat
        BY <1>4, <1>6, PositionFacts
      <3> QED
        BY <1>4, <1>6, <3>1
    <2>2. RequestInv(x)
      BY <1>4, <1>6, <2>1 DEF RequestInv, PlanInv, HeldInv, Positions
    <2> QED
      BY <1>7, <2>2 DEF IInv, RequestsInv
  <1>11. ObjectsInv'
    <2> SUFFICES ASSUME NEW s \in Requests, req'[s].pc \notin Over PROVE KnownObjects(req[s])'
      BY DEF ObjectsInv
    <2>1. CASE s = r
      <3> SUFFICES ASSUME NEW i \in 1..Len(x.plan)
                   PROVE  LET k == x.plan[i].key IN
                          /\ x.gens[i] <= gen'[k]
                          /\ x.gens[i] = gen'[k] => \A e \in 0..NumDims : Enforced(x.plan[i], e) => e \in made'[k]
        BY <1>7, <2>1 DEF KnownObjects
      <3>1. x.plan[i].key \in Keys /\ x.gens[i] = gen'[x.plan[i].key] /\ i \in 1..Len(out.plan)
        BY <1>6, ScopeTypes
      <3>2. gen'[x.plan[i].key] \in Nat
        BY <1>5, <3>1 DEF Gens
      <3> QED
        BY <1>5, <1>6, <3>1, <3>2
    <2>2. CASE s # r
      <3> DEFINE q == req[s]
      <3>1. req'[s] = q /\ q \in Request /\ PlanInv(q) /\ KnownObjects(q)
        BY <1>7, <2>2, Typed DEF IInv, ObjectsInv
      <3> SUFFICES ASSUME NEW i \in 1..Len(q.plan)
                   PROVE  LET k == q.plan[i].key IN
                          /\ q.gens[i] <= gen'[k]
                          /\ q.gens[i] = gen'[k] => \A e \in 0..NumDims : Enforced(q.plan[i], e) => e \in made'[k]
        BY <3>1 DEF KnownObjects
      <3> DEFINE k == q.plan[i].key
      <3>2. k \in Keys /\ q.gens[i] \in Nat
        BY <3>1, ScopeTypes
      <3>3. /\ q.gens[i] <= gen[k]
            /\ q.gens[i] = gen[k] => \A e \in 0..NumDims : Enforced(q.plan[i], e) => e \in made[k]
        BY <3>1 DEF KnownObjects
      <3>4. gen[k] \in Nat
        BY <1>7, <3>2 DEF Gens
      <3>5. CASE k \in out.evicted
        <4>1. gen'[k] = gen[k] + 1
          BY <1>5, <3>2, <3>5
        <4>2. PICK n \in Nat, m \in Nat : n = q.gens[i] /\ m = gen[k]
          BY <3>2, <3>4
        <4>3. n <= m
          BY <3>3, <4>2
        <4>4. n <= m + 1 /\ n # m + 1
          BY <4>3
        <4>5. q.gens[i] <= gen'[k] /\ q.gens[i] # gen'[k]
          BY <4>1, <4>2, <4>4
        <4> QED
          BY <4>5
      <3>6. CASE k \notin out.evicted
        BY <1>5, <3>2, <3>3, <3>6
      <3> QED
        BY <3>5, <3>6
    <2> QED
      BY <2>1, <2>2
  <1>12. LeaseConservation'
    <2> SUFFICES ASSUME NEW k \in Keys, NEW g \in Gens
                 PROVE  (InUse(k, g) = Cardinality(LeaseHolders(k, g)) /\ pools[k][g].balance >= 0)'
      BY DEF LeaseConservation
    <2>1. LeaseHolders(k, g)' = LeaseHolders(k, g)
      BY <1>8 DEF LeaseHolders
    <2>2. InUse(k, g) = Cardinality(LeaseHolders(k, g)) /\ pools[k][g].balance >= 0
      BY <1>7 DEF LeaseConservation
    <2>3. CASE pools'[k][g] = pools[k][g]
      BY <2>1, <2>2, <2>3 DEF InUse
    <2>4. CASE pools'[k][g] # pools[k][g]
      <3>1. g = gen'[k] /\ (k \in out.evicted \/ 0 \notin made[k])
        BY <1>5, <2>4
      <3>2. PICK c \in Nat : pools'[k][g] = [capacity |-> c, balance |-> c]
        BY <1>5, <2>4
      <3>3. LeaseHolders(k, g) = {}
        <4> SUFFICES ASSUME NEW s \in Requests, <<k, g>> \in req[s].leases PROVE FALSE
          BY DEF LeaseHolders
        <4>1. PICK o \in req[s].leases : o = <<k, g>>
          OBVIOUS
        <4>2. o[2] <= gen[o[1]] /\ (o[2] = gen[o[1]] => 0 \in made[o[1]])
          BY LeaseKnown
        <4>3. g <= gen[k] /\ (g = gen[k] => 0 \in made[k])
          BY <4>1, <4>2
        <4>4. gen[k] \in Nat
          BY <1>7 DEF Gens
        <4>5. CASE k \in out.evicted
          <5>1. gen'[k] = gen[k] + 1
            BY <1>5, <4>5
          <5> QED
            BY <3>1, <4>3, <4>4, <5>1
        <4>6. CASE k \notin out.evicted
          <5>1. gen'[k] = gen[k]
            BY <1>5, <4>6
          <5> QED
            BY <3>1, <4>3, <4>6, <5>1
        <4> QED
          BY <4>5, <4>6
      <3>4. Cardinality(LeaseHolders(k, g)') = 0
        BY <2>1, <3>3, FS_EmptySet
      <3> QED
        BY <3>2, <3>4 DEF InUse
    <2> QED
      BY <2>3, <2>4
  <1>13. ASSUME Timely, TInv PROVE TInv'
    <2> SUFFICES ASSUME NEW s \in Requests
                 PROVE  (RecentInv(req[s]) /\ LeasedInv(req[s]) /\ CurrentInv(req[s]))'
      BY DEF TInv
    <2>1. CASE s = r
      <3>1. req'[s] = x
        BY <1>7, <2>1
      <3>2. RecentInv(req[s])'
        <4>1. now - now <= MaxStall /\ now <= now
          BY <1>7, BoundAssumption
        <4> QED
          BY <1>1, <1>5, <1>6, <1>7, <3>1, <4>1 DEF RecentInv
      <3>3. LeasedInv(req[s])'
        <4>1. \A p \in Positions(x) : ~Passed(x, p)
          BY <1>6 DEF Passed, Positions
        <4> QED
          BY <1>4, <1>6, <1>13, <3>1, <4>1 DEF LeasedInv
      <3>4. CurrentInv(req[s])'
        BY <1>6, <3>1 DEF CurrentInv
      <3> QED
        BY <3>2, <3>3, <3>4
    <2>2. CASE s # r
      <3> DEFINE q == req[s]
      <3>1. req'[s] = q /\ q \in Request /\ RecentInv(q) /\ LeasedInv(q) /\ CurrentInv(q)
        BY <1>7, <1>13, <2>2, Typed DEF TInv
      <3>2. /\ \A o \in q.leases : o[1] \notin Removable => o[1] \notin out.evicted
            /\ q.pc \in Serving => \A h \in q.holds : h[1][1] \notin Removable => h[1][1] \notin out.evicted
            /\ q.pc = "reserving" => \A i \in 1..Len(q.plan) :
                 q.plan[i].key \notin Removable => q.plan[i].key \notin out.evicted
        BY <1>4, <1>13, NotEvicted
      <3>3. RecentInv(req[s])'
        <4> SUFFICES ASSUME q.pc = "reserving"
                     PROVE  /\ q.at > 0 /\ q.at <= now /\ now - q.at <= MaxStall
                            /\ \A i \in 1..Len(q.plan) : q.plan[i].key \notin Removable =>
                                  /\ q.gens[i] = gen'[q.plan[i].key]
                                  /\ q.plan[i].key \in SourceKeys => sources'[q.plan[i].key] >= q.at
          BY <1>1, <3>1 DEF RecentInv
        <4>1. q.at > 0 /\ q.at <= now /\ now - q.at <= MaxStall
          BY <3>1 DEF RecentInv
        <4>2. ASSUME NEW i \in 1..Len(q.plan), q.plan[i].key \notin Removable
              PROVE  /\ q.gens[i] = gen'[q.plan[i].key]
                     /\ q.plan[i].key \in SourceKeys => sources'[q.plan[i].key] >= q.at
          <5>1. q.plan[i].key \in Keys /\ q.plan[i].key \notin out.evicted
            BY <3>1, <3>2, <4>2, ScopeTypes
          <5>2. /\ q.gens[i] = gen[q.plan[i].key]
                /\ q.plan[i].key \in SourceKeys => sources[q.plan[i].key] >= q.at
            BY <3>1, <4>2 DEF RecentInv
          <5> QED
            BY <1>5, <4>1, <5>1, <5>2
        <4> QED
          BY <4>1, <4>2
      <3>4. LeasedInv(req[s])'
        BY <3>1 DEF LeasedInv
      <3>5. CurrentInv(req[s])'
        <4>1. \A o \in q.leases : o[1] \in Keys
          BY <3>1 DEF Request, Objects
        <4>2. \A h \in q.holds : h[1][1] \in Keys
          BY <3>1 DEF Request, Objects
        <4> QED
          BY <1>5, <3>1, <3>2, <4>1, <4>2 DEF CurrentInv
      <3> QED
        BY <3>3, <3>4, <3>5
    <2> QED
      BY <2>1, <2>2
  <1> QED
    BY <1>9, <1>10, <1>11, <1>12, <1>13 DEF Kept, IInv

-----------------------------------------------------------------------------
(***************************************************************************)
(* The invariants.                                                         *)
(***************************************************************************)
LEMMA InitKept ==
    ASSUME Init
    PROVE  IInv /\ TInv
  <1>1. req \in [Requests -> Request] /\ \A r \in Requests : req[r] = Idle
    <2>1. Idle \in Request /\ req = [r \in Requests |-> Idle]
      BY IdleFacts DEF Init
    <2> HIDE DEF Idle
    <2> QED
      BY <2>1
  <1>2. Idle.pc = "idle" /\ Idle.leases = {} /\ Idle.holds = {} /\ Idle.pc \in Over
    BY IdleFacts DEF Over
  <1>3. NumDims \in Nat /\ 1 \in Gens
    BY PlanAssumption, BoundAssumption DEF Gens
  <1>4. pools \in PoolTable /\ \A k \in Keys, g \in Gens : pools[k][g] = [capacity |-> 0, balance |-> 0]
    <2>1. [capacity |-> 0, balance |-> 0] \in Pool
      BY DEF Pool
    <2> QED
      BY <2>1 DEF Init, PoolTable
  <1>5. buckets \in BucketTable
    <2>1. [capacity |-> 0, rate |-> 0, balance |-> 0, last |-> 1] \in Bucket
      BY DEF Bucket
    <2> QED
      BY <2>1 DEF Init, BucketTable
  <1>6. TypeOK
    <2>1. /\ now \in Nat \ {0} /\ gen \in [Keys -> Gens] /\ made \in [Keys -> SUBSET (0..NumDims)]
          /\ sources \in [SourceKeys -> Nat] /\ spent \in SpentTable
      BY <1>3 DEF Init, SpentTable
    <2> QED
      BY <1>1, <1>4, <1>5, <2>1 DEF TypeOK, Request, Bucket, Pool, PoolTable, BucketTable, SpentTable
  <1>7. RequestsInv /\ ObjectsInv
    BY <1>1, <1>2 DEF RequestsInv, RequestInv, HeldInv, ObjectsInv
  <1>8. LeaseConservation
    <2> SUFFICES ASSUME NEW k \in Keys, NEW g \in Gens
                 PROVE  InUse(k, g) = Cardinality(LeaseHolders(k, g)) /\ pools[k][g].balance >= 0
      BY DEF LeaseConservation
    <2>1. LeaseHolders(k, g) = {}
      BY <1>1, <1>2 DEF LeaseHolders
    <2>2. Cardinality(LeaseHolders(k, g)) = 0
      BY <2>1, FS_EmptySet
    <2> QED
      BY <1>4, <2>2 DEF InUse
  <1>9. TInv
    <2>1. Idle.pc \notin Serving /\ Idle.pc # "reserving"
      BY <1>2 DEF Serving
    <2> QED
      BY <1>1, <1>2, <2>1 DEF TInv, RecentInv, LeasedInv, CurrentInv
  <1> QED
    BY <1>6, <1>7, <1>8, <1>9 DEF IInv

LEMMA NextKept ==
    ASSUME IInv, [Next]_vars
    PROVE  Kept
  <1>1. CASE Tick
    BY <1>1, TickStep
  <1>2. CASE \E k \in Keys : RemoveScope(k)
    BY <1>2, RemoveScopeStep
  <1>3. ASSUME NEW r \in Requests, Resolve(r) PROVE Kept
    BY <1>3, ResolveStep
  <1>4. ASSUME NEW r \in Requests, SkipGauge(r) PROVE Kept
    BY <1>4, SkipGaugeStep
  <1>5. ASSUME NEW r \in Requests, AcquireLease(r) PROVE Kept
    BY <1>5, AcquireLeaseStep
  <1>6. ASSUME NEW r \in Requests, ReserveTokens(r) PROVE Kept
    BY <1>6, ReserveTokensStep
  <1>7. ASSUME NEW r \in Requests, Unwind(r) PROVE Kept
    BY <1>7, UnwindStep
  <1>8. ASSUME NEW r \in Requests, MarkForwarded(r) PROVE Kept
    BY <1>8, MarkForwardedStep
  <1>9. ASSUME NEW r \in Requests, BeginSettle(r) PROVE Kept
    BY <1>9, BeginSettleStep
  <1>10. ASSUME NEW r \in Requests, Settle(r) PROVE Kept
    BY <1>10, SettleStep
  <1>11. ASSUME NEW r \in Requests, BeginRelease(r) PROVE Kept
    BY <1>11, BeginReleaseStep
  <1>12. ASSUME NEW r \in Requests, Release(r) PROVE Kept
    BY <1>12, ReleaseStep
  <1>13. CASE UNCHANGED vars
    <2>1. IInv'
      <3>1. TypeOK'
        BY <1>13 DEF vars, IInv, TypeOK
      <3>2. RequestsInv' /\ ObjectsInv'
        BY <1>13 DEF vars, IInv, RequestsInv, ObjectsInv, KnownObjects
      <3>3. LeaseConservation'
        BY <1>13, SameLeases DEF vars, IInv
      <3> QED
        BY <3>1, <3>2, <3>3 DEF IInv
    <2>2. TInv => TInv'
      BY <1>13 DEF vars, TInv, RecentInv, LeasedInv, CurrentInv
    <2> QED
      BY <2>1, <2>2 DEF Kept
  <1> QED
    BY <1>1, <1>2, <1>3, <1>4, <1>5, <1>6, <1>7, <1>8, <1>9, <1>10, <1>11, <1>12, <1>13 DEF Next

(* The invariant that makes the others inductive: what a request holds is  *)
(* on gauges it has passed, of objects that were in the maps, and the      *)
(* slots in use of every pool are the leases on it.                        *)
THEOREM Invariance == Spec => []IInv
  <1>1. Init => IInv
    BY InitKept
  <1>2. IInv /\ [Next]_vars => IInv'
    BY NextKept DEF Kept
  <1> QED
    BY <1>1, <1>2, PTL DEF Spec

(* The governor's maps, gauges and reservations have their types: among    *)
(* them, that no bucket's balance is ever negative.                        *)
THEOREM TypeCorrect == Spec => []TypeOK
  <1>1. IInv => TypeOK
    BY DEF IInv
  <1> QED
    BY <1>1, Invariance, PTL

(* ConcurrencyPool: for any number of requests and any plans, the slots in *)
(* use of every pool are exactly the leases held on it, and the balance is *)
(* never negative, whatever interleaves with AcquireNCap, the unwinding of *)
(* a denial, LeaseHandle.Release, eviction and RemoveScope.                *)
THEOREM Leases == Spec => []LeaseConservation
  <1>1. IInv => LeaseConservation
    BY DEF IInv
  <1> QED
    BY <1>1, Invariance, PTL

(* ProvisionUsageContext is all or nothing, and Release gives everything   *)
(* back: a request that was denied or is over holds no lease and no        *)
(* reservation.                                                            *)
THEOREM NothingLeft == Spec => []NothingLeftBehind
  <1>1. IInv => NothingLeftBehind
    BY DEF IInv, RequestsInv, RequestInv, HeldInv, Passed, Over, NothingLeftBehind
  <1> QED
    BY <1>1, Invariance, PTL

-----------------------------------------------------------------------------
(***************************************************************************)
(* Timely requests.                                                        *)
(***************************************************************************)
(* While requests reach their gauges in time, what they hold is in the     *)
(* maps; it needs the leases of the pools they have passed.                *)
THEOREM TimelyInvariance ==
    ASSUME Timely
    PROVE  Spec => [](IInv /\ TInv)
  <1>1. Init => IInv /\ TInv
    BY InitKept
  <1>2. IInv /\ TInv /\ [Next]_vars => IInv' /\ TInv'
    BY NextKept DEF Kept
  <1> QED
    BY <1>1, <1>2, PTL DEF Spec

(* evictSourceScopeLocked: making room in the source table never discards  *)
(* a pool with a lease on it, nor a bucket with a reservation that can     *)
(* still be charged, whatever requests do between resolving their gauges   *)
(* and holding them, as long as they take less than the idle time and the  *)
(* sources are limited in concurrency: a bucket that refills to zero is    *)
(* only protected by the lease on its scope's pool.                        *)
THEOREM NoOrphan ==
    ASSUME Timely
    PROVE  Spec => []NoOrphanHolds
  <1>1. IInv /\ TInv => NoOrphanHolds
    <2> SUFFICES ASSUME IInv, TInv, NEW r \in Requests
                 PROVE  /\ \A o \in req[r].leases : o[1] \in Keys \ Removable => o[2] = gen[o[1]]
                        /\ req[r].pc \in {"reserving", "granted", "forwarded", "settling"} =>
                              \A h \in req[r].holds : h[1][1] \in Keys \ Removable => h[1][2] = gen[h[1][1]]
      BY DEF NoOrphanHolds, HoldsInMaps
    <2>1. CurrentInv(req[r])
      BY DEF TInv
    <2> QED
      BY <2>1 DEF CurrentInv, Serving
  <1> QED
    BY <1>1, TimelyInvariance, PTL

(* A step of one request leaves the others alone.                          *)
LEMMA OthersSame ==
    ASSUME req \in [Requests -> Request], NEW s \in Requests, NEW r \in Requests, r # s,
           \/ Resolve(s) \/ SkipGauge(s) \/ AcquireLease(s) \/ ReserveTokens(s)
           \/ Unwind(s) \/ MarkForwarded(s) \/ BeginSettle(s) \/ Settle(s)
           \/ BeginRelease(s) \/ Release(s)
    PROVE  req'[r] = req[r]
  <1>1. \A x : req' = [req EXCEPT ![s] = x] => req'[r] = req[r]
    OBVIOUS
  <1>2. ASSUME NEW fwd, NEW y, releaseForwarded(s, fwd, y) PROVE \E x : req' = [req EXCEPT ![s] = x]
    <2> DEFINE o == Obj(req[s])
               d == AtStage(req[s])
    <2>1. \/ req' = [req EXCEPT ![s] = [y EXCEPT !.leases = @ \ {o}]]
          \/ req' = [req EXCEPT ![s] = [y EXCEPT !.holds = @ \ {<<o, d>>}]]
          \/ req' = [req EXCEPT ![s] = y]
      BY <1>2 DEF releaseForwarded
    <2> HIDE DEF o, d
    <2> QED
      BY <2>1
  <1>3. CASE Resolve(s)
    <2>1. PICK out, est : Resolved(s, out, est)
      BY <1>3 DEF Resolve
    <2> QED
      BY <1>1, <2>1 DEF Resolved
  <1>4. CASE SkipGauge(s)
    <2>1. req' = [req EXCEPT ![s] = Advance(req[s])]
      BY <1>4 DEF SkipGauge
    <2> QED
      BY <1>1, <2>1
  <1>5. CASE AcquireLease(s)
    <2> DEFINE o == Obj(req[s])
    <2>1. \/ req' = [req EXCEPT ![s] = [Advance(req[s]) EXCEPT !.leases = @ \cup {o}]]
          \/ req' = [req EXCEPT ![s] = Deny(req[s])]
      BY <1>5 DEF AcquireLease
    <2> HIDE DEF o
    <2> QED
      BY <1>1, <2>1
  <1>6. CASE ReserveTokens(s)
    <2> DEFINE h == <<Obj(req[s]), AtStage(req[s])>>
    <2>1. \/ req' = [req EXCEPT ![s] = [Advance(req[s]) EXCEPT !.holds = @ \cup {h}]]
          \/ req' = [req EXCEPT ![s] = Deny(req[s])]
      BY <1>6 DEF ReserveTokens
    <2> HIDE DEF h
    <2> QED
      BY <1>1, <2>1
  <1>7. CASE Unwind(s)
    <2>1. \/ req' = [req EXCEPT ![s] = Done(req[s])]
          \/ releaseForwarded(s, FALSE, [req[s] EXCEPT !.pos = @ - 1])
      BY <1>7 DEF Unwind
    <2> QED
      BY <1>1, <1>2, <2>1
  <1>8. CASE MarkForwarded(s) \/ BeginRelease(s)
    BY <1>8 DEF MarkForwarded, BeginRelease
  <1>9. CASE BeginSettle(s)
    BY <1>9 DEF BeginSettle
  <1>10. CASE Settle(s)
    <2>1. \E x : req' = [req EXCEPT ![s] = x]
      BY <1>10 DEF Settle
    <2> QED
      BY <1>1, <2>1
  <1>11. CASE Release(s)
    <2>1. \E fwd, y : releaseForwarded(s, fwd, y)
      BY <1>11 DEF Release
    <2> QED
      BY <1>1, <1>2, <2>1
  <1> QED
    BY <1>3, <1>4, <1>5, <1>6, <1>7, <1>8, <1>9, <1>10, <1>11

(* Only AcquireNCap gives a request on its way up a lease, and at most as  *)
(* many as the cap it asked for.                                           *)
LEMMA NewLease ==
    ASSUME IInv, [Next]_vars, NEW r \in Requests, req[r].pc = "reserving",
           NEW o \in req'[r].leases \ req[r].leases
    PROVE  o \in Objects /\ InUse(o[1], o[2])' <= SpecOf(req[r]).cap
  <1> DEFINE q == req[r]
  <1>1. /\ q \in Request /\ PlanInv(q) /\ Obj(q) \in Objects /\ Obj(q)[1] \in Keys /\ Obj(q)[2] \in Gens
        /\ SpecOf(q) \in ScopeSpec
    BY AtGauge
  <1>2. req \in [Requests -> Request] /\ pools \in PoolTable
    BY Typed
  <1>3. /\ Advance(q).leases = q.leases /\ Deny(q).leases = q.leases
        /\ Advance(q) \in Request /\ Deny(q) \in Request
    BY <1>1, AdvanceFacts, DenyFacts
  <1>4. ~(req' = req)
    BY DEF Request
  <1>5. AcquireLease(r)
    <2>1. ~Tick /\ ~UNCHANGED vars /\ \A k \in Keys : ~RemoveScope(k)
      BY <1>4 DEF Tick, vars, RemoveScope
    <2>2. PICK s \in Requests :
            \/ Resolve(s) \/ SkipGauge(s) \/ AcquireLease(s) \/ ReserveTokens(s)
            \/ Unwind(s) \/ MarkForwarded(s) \/ BeginSettle(s) \/ Settle(s)
            \/ BeginRelease(s) \/ Release(s)
      BY <2>1 DEF Next
    <2>3. s = r
      BY <1>2, <2>2, OthersSame
    <2>4. ~Resolve(r) /\ ~Unwind(r) /\ ~MarkForwarded(r) /\ ~BeginSettle(r) /\ ~Settle(r) /\ ~BeginRelease(r)
          /\ ~Release(r)
      BY DEF Resolve, Unwind, MarkForwarded, BeginSettle, Settle, BeginRelease, Release
    <2>5. ~SkipGauge(r)
      <3> SUFFICES ASSUME SkipGauge(r) PROVE FALSE
        OBVIOUS
      <3>1. req' = [req EXCEPT ![r] = Advance(q)]
        BY DEF SkipGauge
      <3> QED
        BY <1>2, <1>3, <3>1
    <2>6. ~ReserveTokens(r)
      <3> SUFFICES ASSUME ReserveTokens(r) PROVE FALSE
        OBVIOUS
      <3> DEFINE y == Advance(q)
                 H == y.holds \cup {<<Obj(q), AtStage(q)>>}
      <3>1. req' = [req EXCEPT ![r] = [y EXCEPT !.holds = H]] \/ req' = [req EXCEPT ![r] = Deny(q)]
        BY DEF ReserveTokens
      <3> HIDE DEF H
      <3>2. [y EXCEPT !.holds = H].leases = q.leases
        BY <1>3 DEF Request
      <3> HIDE DEF y
      <3> QED
        BY <1>2, <1>3, <3>1, <3>2
    <2> QED
      BY <2>2, <2>3, <2>4, <2>5, <2>6
  <1> DEFINE b == Obj(q)
             cap == SpecOf(q).cap
             p == pools[b[1]][b[2]]
  <1>6. AcquireNCap(p, cap)
    <2> SUFFICES ASSUME ~AcquireNCap(p, cap) PROVE FALSE
      OBVIOUS
    <2>1. req' = [req EXCEPT ![r] = Deny(q)]
      BY <1>5 DEF AcquireLease
    <2> QED
      BY <1>2, <1>3, <2>1
  <1>7. /\ pools' = [pools EXCEPT ![b[1]][b[2]].balance = @ - 1]
        /\ req' = [req EXCEPT ![r] = [Advance(q) EXCEPT !.leases = Advance(q).leases \cup {b}]]
    BY <1>5, <1>6 DEF AcquireLease
  <1>8. o = b
    <2>1. PICK y \in Request : y = Advance(q)
      BY <1>3
    <2>2. PICK L : L = y.leases \cup {b}
      OBVIOUS
    <2>3. req' = [req EXCEPT ![r] = [y EXCEPT !.leases = L]]
      BY <1>7, <2>1, <2>2
    <2>4. [y EXCEPT !.leases = L].leases = L
      BY DEF Request
    <2>5. req'[r].leases = L
      BY <1>2, <2>3, <2>4
    <2> QED
      BY <1>3, <2>1, <2>2, <2>5
  <1> HIDE DEF b
  <1>9. p \in Pool /\ cap \in Nat /\ b[1] \in Keys /\ b[2] \in Gens
    BY <1>1, <1>2 DEF PoolTable, ScopeSpec, b
  <1>10. pools'[o[1]][o[2]].capacity = p.capacity /\ pools'[o[1]][o[2]].balance = p.balance - 1
    BY <1>2, <1>7, <1>8, <1>9 DEF PoolTable, Pool
  <1>11. InUse(o[1], o[2])' <= cap
    <2>1. p.capacity - p.balance <= cap - 1 /\ p.capacity \in Int /\ p.balance \in Int
      BY <1>6, <1>9 DEF AcquireNCap, Pool
    <2> HIDE DEF p, cap
    <2> QED
      BY <1>9, <1>10, <2>1 DEF InUse
  <1> QED
    BY <1>1, <1>8, <1>11 DEF b

(* pool() and AcquireNCap: a lease that is granted leaves at most cap      *)
(* leases on its scope, counting every pool the scope's key ever had, for  *)
(* every scope that RemoveScope is not called for: neither an eviction nor *)
(* an admission in between lets a request slip past the cap.               *)
THEOREM ScopeCap ==
    ASSUME Timely
    PROVE  Spec => ScopeCapHolds
  <1> DEFINE Capped ==
        \A r \in Requests : req[r].pc = "reserving" =>
          \A o \in req'[r].leases \ req[r].leases :
             o[1] \notin Removable =>
                Cardinality({x \in Requests \X Gens :
                                <<o[1], x[2]>> \in req'[x[1]].leases}) <= SpecOf(req[r]).cap
  <1>1. IInv /\ TInv /\ [Next]_vars => Capped
    <2> SUFFICES ASSUME IInv, TInv, [Next]_vars, NEW r \in Requests, req[r].pc = "reserving",
                        NEW o \in req'[r].leases \ req[r].leases, o[1] \notin Removable
                 PROVE  Cardinality({x \in Requests \X Gens :
                                <<o[1], x[2]>> \in req'[x[1]].leases}) <= SpecOf(req[r]).cap
      OBVIOUS
    <2>1. IInv' /\ TInv'
      BY NextKept DEF Kept
    <2>2. o \in Objects /\ InUse(o[1], o[2])' <= SpecOf(req[r]).cap
      BY NewLease
    <2>3. PICK k \in Keys, g \in Gens : o = <<k, g>> /\ o[1] = k /\ o[2] = g
      BY <2>2 DEF Objects
    <2>4. \A s \in Requests : \A l \in req'[s].leases : l[1] \notin Removable => l[2] = gen'[l[1]]
      BY <2>1 DEF TInv, CurrentInv
    <2>5. g = gen'[k]
      BY <2>3, <2>4
    <2> DEFINE H == LeaseHolders(k, g)'
               T == {x \in Requests \X Gens : <<k, x[2]>> \in req'[x[1]].leases}
               f == [s \in H |-> <<s, g>>]
    <2>6. H = {s \in Requests : <<k, g>> \in req'[s].leases}
      BY DEF LeaseHolders
    <2>7. f \in Surjection(H, T)
      <3>1. f \in [H -> T]
        BY <2>6
      <3>2. ASSUME NEW x \in T PROVE \E s \in H : f[s] = x
        <4>1. PICK s \in Requests, h \in Gens : x = <<s, h>> /\ <<k, h>> \in req'[s].leases
          OBVIOUS
        <4>2. h = g
          BY <2>3, <2>4, <2>5, <4>1
        <4> QED
          BY <2>6, <4>1, <4>2
      <3> HIDE DEF f, T, H
      <3> QED
        BY <3>1, <3>2 DEF Surjection
    <2>8. IsFiniteSet(H)
      BY HoldersFinite
    <2> HIDE DEF f, T, H
    <2>9. Cardinality(T) <= Cardinality(H) /\ IsFiniteSet(T)
      BY <2>7, <2>8, FS_Surjection
    <2>10. InUse(k, g)' = Cardinality(H)
      BY <2>1 DEF IInv, LeaseConservation, H
    <2>11. Cardinality(T) \in Nat /\ Cardinality(H) \in Nat
      BY <2>8, <2>9, FS_CardinalityType
    <2>12. SpecOf(req[r]).cap \in Nat
      <3>1. SpecOf(req[r]) \in ScopeSpec
        BY AtGauge
      <3> QED
        BY <3>1 DEF ScopeSpec
    <2>13. Cardinality(T) <= SpecOf(req[r]).cap
      BY <2>2, <2>3, <2>9, <2>10, <2>11, <2>12
    <2> QED
      BY <2>3, <2>13 DEF T
  <1> QED
    BY <1>1, TimelyInvariance, PTL DEF Spec, ScopeCapHolds

-----------------------------------------------------------------------------
(***************************************************************************)
(* The ledger of the buckets.                                              *)
(***************************************************************************)
(* The bucket of dimension d existed in generation g of key k.             *)
Known(k, g, d) == g < gen[k] \/ (g = gen[k] /\ d \in made[k])

(* The limits a bucket of key k is ever given: those of the plans, and for *)
(* an overflow scope those of the sources that hash to it.                 *)
LimitsOf(k) ==
    {s \in ScopeSpec : \E plan \in Plans :
        \/ \E i \in 1..Len(plan) : plan[i] = s /\ plan[i].key = k
        \/ plan[1] = s /\ plan[1].key \in SourceKeys /\ sourceOverflowID[plan[1].key] = k}

(* Whether a bucket refills is a matter of its scope, not of the policy    *)
(* version or limit set a request was provisioned under.                   *)
SteadyRates ==
    \A k \in Keys, d \in Dims : \A s, t \in LimitsOf(k) :
        s.burst[d] > 0 /\ t.burst[d] > 0 => (s.rate[d] = 0 <=> t.rate[d] = 0)

(* Only a bucket that exists is reserved or charged.                       *)
KnownInv ==
    /\ \A r \in Requests : \A k \in Keys, g \in Gens, d \in Dims :
          <<<<k, g>>, d>> \in req[r].holds => Known(k, g, d)
    /\ \A k \in Keys, g \in Gens, d \in Dims : spent[k][g][d] # 0 => Known(k, g, d)

(* A bucket in the maps has a rate some policy gave it.                    *)
RateInv ==
    \A k \in Keys : \A d \in Dims : d \in made[k] =>
        \E s \in LimitsOf(k) : s.burst[d] > 0 /\ buckets[k][gen[k]][d].rate = s.rate[d]

Owed(k, g, d) == Held(k, g, d) + spent[k][g][d]

(* A bucket charges at most what is owed to it, and exactly that while it  *)
(* does not refill.                                                        *)
Balanced(k, g, d) ==
    /\ buckets[k][g][d].balance <= Owed(k, g, d)
    /\ SteadyRates /\ buckets[k][g][d].rate = 0 => buckets[k][g][d].balance = Owed(k, g, d)

LInv == KnownInv /\ RateInv /\ \A k \in Keys, g \in Gens, d \in Dims : Balanced(k, g, d)

(* The units reserved under h in the requests f.                           *)
Units(f, h) ==
    UNION {{r} \X (1..f[r].est[h[2]]) : r \in {s \in Requests : h \in f[s].holds}}

(* What one request reserves under h.                                      *)
Share(q, h) == IF h \in q.holds THEN q.est[h[2]] ELSE 0

LEMMA UnitBlock ==
    ASSUME NEW r, NEW n \in Nat
    PROVE  IsFiniteSet({r} \X (1..n)) /\ Cardinality({r} \X (1..n)) = n
  <1> DEFINE f == [i \in 1..n |-> <<r, i>>]
             T == {r} \X (1..n)
  <1>1. f \in Bijection(1..n, T)
    <2>1. f \in [1..n -> T] /\ \A i, j \in 1..n : f[i] = f[j] => i = j
      OBVIOUS
    <2>2. ASSUME NEW x \in T PROVE \E i \in 1..n : f[i] = x
      <3>1. PICK i \in 1..n : x = <<r, i>>
        OBVIOUS
      <3> QED
        BY <3>1
    <2> HIDE DEF f, T
    <2> QED
      BY <2>1, <2>2 DEF Bijection, Injection, Surjection, IsInjective
  <1> HIDE DEF f, T
  <1>2. ExistsBijection(1..n, T)
    BY <1>1 DEF ExistsBijection
  <1>3. IsFiniteSet(1..n) /\ Cardinality(1..n) = n
    BY FS_Interval
  <1>4. IsFiniteSet(T) /\ Cardinality(T) = n
    BY <1>2, <1>3, FS_Bijection
  <1> QED
    BY <1>4 DEF T

(* A sum over the requests: one request changes, and with it its share.    *)
LEMMA UnitsChange ==
    ASSUME NEW f \in [Requests -> Request], NEW r \in Requests, NEW h \in Objects \X Dims
    PROVE  \E n \in Nat : \A x \in Request :
               Cardinality(Units([f EXCEPT ![r] = x], h)) = n + Share(x, h)
  <1> DEFINE R == {s \in Requests \ {r} : h \in f[s].holds}
             b == [s \in R |-> {s} \X (1..f[s].est[h[2]])]
             B == {b[s] : s \in R}
             rest == UNION B
  <1>0. PICK d \in Dims : d = h[2]
    OBVIOUS
  <1>1. \A q \in Request : q.est[h[2]] \in Nat
    BY <1>0 DEF Request
  <1>2. IsFiniteSet(rest)
    <2>1. IsFiniteSet(R)
      BY UsageAssumption, FS_Subset
    <2>2. b \in Surjection(R, B)
      <3>1. b \in [R -> B] /\ \A t \in B : \E s \in R : b[s] = t
        OBVIOUS
      <3> HIDE DEF b, B, R
      <3> QED
        BY <3>1 DEF Surjection
    <2>3. IsFiniteSet(B)
      <3> HIDE DEF b, B, R
      <3> QED
        BY <2>1, <2>2, FS_Surjection
    <2>4. ASSUME NEW t \in B PROVE IsFiniteSet(t)
      <3>1. PICK s \in R : t = {s} \X (1..f[s].est[h[2]])
        OBVIOUS
      <3>2. f[s].est[h[2]] \in Nat
        BY <1>1
      <3> QED
        BY <3>1, <3>2, UnitBlock
    <2> HIDE DEF B
    <2> QED
      BY <2>3, <2>4, FS_UNION
  <1>3. Cardinality(rest) \in Nat
    BY <1>2, FS_CardinalityType
  <1>4. ASSUME NEW x \in Request
        PROVE  Cardinality(Units([f EXCEPT ![r] = x], h)) = Cardinality(rest) + Share(x, h)
    <2> DEFINE e == [f EXCEPT ![r] = x]
               own == {r} \X (1..x.est[h[2]])
               S == {s \in Requests : h \in e[s].holds}
    <2>1. e[r] = x /\ \A s \in Requests : s # r => e[s] = f[s]
      OBVIOUS
    <2>2. x.est[h[2]] \in Nat
      BY <1>1
    <2>3. IsFiniteSet(own) /\ Cardinality(own) = x.est[h[2]]
      BY <2>2, UnitBlock
    <2>4. rest = UNION {{s} \X (1..e[s].est[h[2]]) : s \in R}
      <3>1. \A s \in R : b[s] = {s} \X (1..e[s].est[h[2]])
        BY <2>1
      <3>2. B = {{s} \X (1..e[s].est[h[2]]) : s \in R}
        <4> HIDE DEF e, R, b
        <4> QED
          BY <3>1, SMTT(60)
      <3> QED
        BY <3>2
    <2>5. Units(e, h) = UNION {{s} \X (1..e[s].est[h[2]]) : s \in S}
      BY DEF Units
    <2>6. S = IF h \in x.holds THEN R \cup {r} ELSE R
      BY <2>1
    <2>7. CASE h \in x.holds
      <3>1. S = R \cup {r}
        BY <2>6, <2>7
      <3> HIDE DEF e, S, R
      <3>2. Units(e, h) = (UNION {{s} \X (1..e[s].est[h[2]]) : s \in R}) \cup own
        BY <2>1, <2>5, <3>1
      <3> HIDE DEF rest
      <3>3. Units(e, h) = rest \cup own
        BY <2>4, <3>2
      <3>4. rest \cap own = {}
        BY <2>4 DEF R
      <3>5. Cardinality(rest \cap own) = 0
        BY <3>4, FS_EmptySet
      <3> HIDE DEF own
      <3>6. Cardinality(Units(e, h)) = Cardinality(rest) + Cardinality(own) - 0
        BY <1>2, <2>3, <3>3, <3>5, FS_Union
      <3> QED
        BY <1>3, <2>2, <2>3, <2>7, <3>6 DEF Share, e
    <2>8. CASE h \notin x.holds
      <3>1. S = R
        BY <2>6, <2>8
      <3> HIDE DEF e, S, R, rest
      <3>2. Units(e, h) = rest
        BY <2>4, <2>5, <3>1
      <3> QED
        BY <1>3, <2>8, <3>2 DEF Share, e
    <2> QED
      BY <2>7, <2>8
  <1> HIDE DEF rest
  <1> QED
    BY <1>3, <1>4

(* A step of request r, x afterwards, changes what is held of a bucket by  *)
(* the change of its share.                                                *)
LEMMA HeldChange ==
    ASSUME req \in [Requests -> Request], NEW r \in Requests, NEW x \in Request,
           req' = [req EXCEPT ![r] = x]
    PROVE  \A k \in Keys, g \in Gens, d \in Dims : \E n \in Nat :
              /\ Held(k, g, d) = n + Share(req[r], <<<<k, g>>, d>>)
              /\ Held(k, g, d)' = n + Share(x, <<<<k, g>>, d>>)
  <1> TAKE k \in Keys, g \in Gens, d \in Dims
  <1> DEFINE h == <<<<k, g>>, d>>
  <1>1. h \in Objects \X Dims /\ h[2] = d
    BY DEF Objects
  <1>2. Held(k, g, d) = Cardinality(Units(req, h)) /\ Held(k, g, d)' = Cardinality(Units(req', h))
    BY DEF Held, Units, Reservers
  <1>3. req = [req EXCEPT ![r] = req[r]] /\ req[r] \in Request
    OBVIOUS
  <1> HIDE DEF h
  <1>4. PICK n \in Nat : \A y \in Request : Cardinality(Units([req EXCEPT ![r] = y], h)) = n + Share(y, h)
    BY <1>1, UnitsChange
  <1> QED
    BY <1>2, <1>3, <1>4 DEF h

LEMMA HeldSame ==
    ASSUME req' = req
    PROVE  \A k, g, d : Held(k, g, d)' = Held(k, g, d)
  BY DEF Held, Reservers

LEMMA Steady == SteadyRates' <=> SteadyRates
  BY DEF SteadyRates, LimitsOf, ScopeSpec, Dims

LEMMA RefillFacts ==
    ASSUME NEW b \in Bucket, now \in Nat
    PROVE  /\ Refill(b) \in Bucket /\ Refill(b).balance \in Nat /\ b.balance \in Nat
           /\ Refill(b).balance <= b.balance /\ Refill(b).rate = b.rate
           /\ b.rate = 0 => Refill(b).balance = b.balance
  <1>1. Refill(b) \in Bucket
    BY RefillType
  <1>2. b.balance \in Nat /\ b.rate \in Nat /\ b.last \in Nat /\ Refill(b).balance \in Nat
    BY <1>1 DEF Bucket
  <1>3. CASE b.rate = 0 \/ now <= b.last
    BY <1>1, <1>2, <1>3 DEF Refill
  <1>4. CASE ~(b.rate = 0 \/ now <= b.last)
    <2>1. PICK t \in Nat : t = (now - b.last) * b.rate
      <3>1. PICK u \in Nat, v \in Nat : u = now - b.last /\ v = b.rate
        BY <1>2, <1>4
      <3>2. u * v \in Nat
        OBVIOUS
      <3> QED
        BY <3>1, <3>2
    <2>2. PICK m \in Nat : m = AtLeastZero(b.balance - t) /\ m <= b.balance
      BY <1>2 DEF AtLeastZero
    <2>3. Refill(b) = [b EXCEPT !.balance = m, !.last = now]
      BY <1>4, <2>1, <2>2 DEF Refill
    <2>4. Refill(b).balance = m /\ Refill(b).rate = b.rate
      BY <2>3 DEF Bucket
    <2> QED
      BY <1>1, <1>2, <1>4, <2>2, <2>4
  <1> QED
    BY <1>3, <1>4

(* Bucket b becomes c while the share of a request goes from u to v and    *)
(* the usage committed from s to t, whatever the others hold.              *)
Entry(b, c, u, v, s, t) ==
    /\ c.rate = b.rate
    /\ \A n \in Nat : /\ b.balance <= n + u + s => c.balance <= n + v + t
                      /\ b.rate = 0 /\ b.balance = n + u + s => c.balance = n + v + t

(* A step of request r, x afterwards, posts an entry to every bucket.      *)
Posted(r, x) ==
    \A k \in Keys, g \in Gens, d \in Dims :
        LET h == <<<<k, g>>, d>> IN
        /\ Entry(buckets[k][g][d], buckets'[k][g][d], Share(req[r], h), Share(x, h),
                 spent[k][g][d], spent'[k][g][d])
        /\ h \in x.holds /\ h \notin req[r].holds => Known(k, g, d)
        /\ spent'[k][g][d] # spent[k][g][d] => Known(k, g, d)

(* A step of a request that has its gauges.                                *)
LEMMA RequestLedger ==
    ASSUME IInv, IInv', LInv, NEW r \in Requests, NEW x \in Request, req' = [req EXCEPT ![r] = x],
           UNCHANGED <<gen, made>>,
           Posted(r, x)
    PROVE  LInv'
  <1>1. req \in [Requests -> Request] /\ \A s \in Requests : req'[s] = IF s = r THEN x ELSE req[s]
    BY Typed
  <1>2. \A k, g, d : Known(k, g, d)' <=> Known(k, g, d)
    BY DEF Known
  <1>3. KnownInv'
    <2>1. \A s \in Requests : \A k \in Keys, g \in Gens, d \in Dims :
            <<<<k, g>>, d>> \in req'[s].holds => Known(k, g, d)
      BY <1>1 DEF LInv, KnownInv, Posted
    <2>2. \A k \in Keys, g \in Gens, d \in Dims : spent'[k][g][d] # 0 => Known(k, g, d)
      BY DEF LInv, KnownInv, Posted
    <2> QED
      BY <1>2, <2>1, <2>2 DEF KnownInv
  <1>4. RateInv'
    <2>1. \A k \in Keys, g \in Gens, d \in Dims : buckets'[k][g][d].rate = buckets[k][g][d].rate
      BY DEF Entry, Posted
    <2> SUFFICES ASSUME NEW k \in Keys, NEW d \in Dims, d \in made[k]
                 PROVE  \E s \in LimitsOf(k) : s.burst[d] > 0 /\ buckets'[k][gen[k]][d].rate = s.rate[d]
      BY SMTT(60) DEF RateInv, LimitsOf, ScopeSpec, Dims
    <2>2. gen[k] \in Gens
      BY Typed
    <2>3. PICK s \in LimitsOf(k) : s.burst[d] > 0 /\ buckets[k][gen[k]][d].rate = s.rate[d]
      BY DEF LInv, RateInv
    <2> QED
      BY <2>1, <2>2, <2>3
  <1>5. \A k \in Keys, g \in Gens, d \in Dims : \E n \in Nat :
           /\ Held(k, g, d) = n + Share(req[r], <<<<k, g>>, d>>)
           /\ Held(k, g, d)' = n + Share(x, <<<<k, g>>, d>>)
    BY <1>1, HeldChange
  <1>6. ASSUME NEW k \in Keys, NEW g \in Gens, NEW d \in Dims PROVE Balanced(k, g, d)'
    <2> DEFINE h == <<<<k, g>>, d>>
    <2>1. PICK n \in Nat : Held(k, g, d) = n + Share(req[r], h) /\ Held(k, g, d)' = n + Share(x, h)
      BY <1>5
    <2>2. Entry(buckets[k][g][d], buckets'[k][g][d], Share(req[r], h), Share(x, h),
                spent[k][g][d], spent'[k][g][d])
      BY DEF Posted
    <2>3. Owed(k, g, d) = n + Share(req[r], h) + spent[k][g][d] /\ Owed(k, g, d)' = n + Share(x, h) + spent'[k][g][d]
      BY <2>1 DEF Owed
    <2>4. Balanced(k, g, d)
      BY DEF LInv
    <2> HIDE DEF h
    <2> QED
      BY <2>2, <2>3, <2>4, Steady DEF Balanced, Entry
  <1> QED
    BY <1>3, <1>4, <1>6 DEF LInv

(* A step of a request that neither reserves nor charges.                  *)
LEMMA QuietLedger ==
    ASSUME IInv, IInv', LInv, NEW r \in Requests, NEW x \in Request, req' = [req EXCEPT ![r] = x],
           UNCHANGED <<gen, made, buckets, spent>>,
           x.holds = req[r].holds, x.holds = {} \/ x.est = req[r].est
    PROVE  LInv'
  <1>1. \A h : Share(x, h) = Share(req[r], h)
    BY DEF Share
  <1>2. Posted(r, x)
    BY <1>1 DEF Entry, Posted
  <1> QED
    BY <1>2, RequestLedger

(* A step of request r, x afterwards, at the bucket of dimension e of      *)
(* object o: the bucket becomes c, and the usage committed m.              *)
Posting(r, x, o, e, c, m) ==
    /\ x \in Request /\ o \in Objects /\ e \in Dims /\ c \in Bucket /\ m \in Nat
    /\ req' = [req EXCEPT ![r] = x] /\ UNCHANGED <<gen, made>>
    /\ buckets' = [buckets EXCEPT ![o[1]][o[2]][e] = c]
    /\ spent' = [spent EXCEPT ![o[1]][o[2]][e] = m]
    /\ Entry(buckets[o[1]][o[2]][e], c, Share(req[r], <<o, e>>), Share(x, <<o, e>>),
             spent[o[1]][o[2]][e], m)
    /\ Known(o[1], o[2], e)
    /\ \A h : h # <<o, e>> => (h \in x.holds <=> h \in req[r].holds)
    /\ x.est = req[r].est \/ x.holds = {}

LEMMA PostingLedger ==
    ASSUME IInv, IInv', LInv, NEW r \in Requests,
           NEW x, NEW o, NEW e, NEW c, NEW m, Posting(r, x, o, e, c, m)
    PROVE  LInv'
  <1> USE DEF Posting
  <1>1. PICK k \in Keys, g \in Gens : o = <<k, g>> /\ o[1] = k /\ o[2] = g
    BY DEF Objects
  <1>2. buckets \in BucketTable /\ spent \in SpentTable
    BY Typed
  <1>3. /\ buckets'[k][g][e] = c /\ spent'[k][g][e] = m
        /\ \A l \in Keys, f \in Gens, d \in Dims : <<<<l, f>>, d>> # <<<<k, g>>, e>> =>
              buckets'[l][f][d] = buckets[l][f][d] /\ spent'[l][f][d] = spent[l][f][d]
    BY <1>1, <1>2 DEF BucketTable, SpentTable
  <1>4. \A l \in Keys, f \in Gens, d \in Dims : <<<<l, f>>, d>> # <<<<k, g>>, e>> =>
           Share(x, <<<<l, f>>, d>>) = Share(req[r], <<<<l, f>>, d>>)
    BY <1>1 DEF Share
  <1>5. ASSUME NEW l \in Keys, NEW f \in Gens, NEW d \in Dims
        PROVE  LET h == <<<<l, f>>, d>> IN
               /\ Entry(buckets[l][f][d], buckets'[l][f][d], Share(req[r], h), Share(x, h),
                        spent[l][f][d], spent'[l][f][d])
               /\ h \in x.holds /\ h \notin req[r].holds => Known(l, f, d)
               /\ spent'[l][f][d] # spent[l][f][d] => Known(l, f, d)
    <2>1. CASE <<<<l, f>>, d>> = <<<<k, g>>, e>>
      <3>1. l = k /\ f = g /\ d = e
        BY <2>1
      <3> QED
        BY <1>1, <1>3, <3>1
    <2>2. CASE <<<<l, f>>, d>> # <<<<k, g>>, e>>
      <3>1. buckets'[l][f][d] = buckets[l][f][d] /\ spent'[l][f][d] = spent[l][f][d]
        BY <1>3, <2>2
      <3>2. Share(x, <<<<l, f>>, d>>) = Share(req[r], <<<<l, f>>, d>>)
        BY <1>4, <2>2
      <3> QED
        BY <1>1, <2>2, <3>1, <3>2 DEF Entry
    <2> QED
      BY <2>1, <2>2
  <1>6. Posted(r, x)
    BY <1>5 DEF Posted
  <1>7. x \in Request /\ req' = [req EXCEPT ![r] = x] /\ UNCHANGED <<gen, made>>
    OBVIOUS
  <1> HIDE DEF Posting
  <1> QED
    BY <1>6, <1>7, RequestLedger

(* Two gauges of one plan are of different scopes or dimensions.           *)
LEMMA GaugesDiffer ==
    ASSUME NEW q \in Request, PlanInv(q), NEW p \in Positions(q), NEW u \in Positions(q),
           Stage(q.plan, p) = Stage(q.plan, u), ObjAt(q, p) = ObjAt(q, u)
    PROVE  p = u
  <1>1. PICK n \in Nat \ {0} : n = Len(q.plan)
    BY DEF Request, PlanInv
  <1>2. /\ ScopeAt(q.plan, p) \in 1..Len(q.plan) /\ ScopeAt(q.plan, u) \in 1..Len(q.plan)
        /\ p \in Nat /\ p > 0 /\ u \in Nat /\ u > 0
    BY GaugeFacts
  <1>3. ScopeAt(q.plan, p) = ScopeAt(q.plan, u)
    <2>1. q.plan[ScopeAt(q.plan, p)].key = q.plan[ScopeAt(q.plan, u)].key
      BY DEF ObjAt
    <2> QED
      BY <1>2, <2>1 DEF PlanInv
  <1>4. PICK a \in Nat, b \in Nat : a = p - 1 /\ b = u - 1
    BY <1>2
  <1>5. a \div n = b \div n
    BY <1>1, <1>4 DEF Stage
  <1>6. a % n = b % n
    <2>1. PICK v \in Nat, w \in Nat : v = a % n /\ w = b % n
      BY Division
    <2>2. ScopeAt(q.plan, p) = v + 1 /\ ScopeAt(q.plan, u) = w + 1
      BY <1>1, <1>4, <2>1 DEF ScopeAt
    <2>3. v + 1 = w + 1
      BY <1>3, <2>2, Zenon
    <2>4. v = w
      BY <2>3
    <2> QED
      BY <2>1, <2>4
  <1>7. a = n * (a \div n) + (a % n) /\ b = n * (b \div n) + (b % n)
    BY Division
  <1>8. a = b
    BY <1>5, <1>6, <1>7
  <1> QED
    BY <1>2, <1>4, <1>8

(* A reservation already held is settled: charged what was used.           *)
LEMMA SettleEntry ==
    ASSUME NEW b \in Bucket, NEW e \in Nat, NEW a \in Nat, NEW s \in Nat
    PROVE  Entry(b, SettleBucket(b, e, a), e, 0, s, s + a)
  <1>1. b.balance \in Nat
    BY DEF Bucket
  <1>2. /\ SettleBucket(b, e, a).rate = b.rate
        /\ SettleBucket(b, e, a).balance = IF a <= e THEN AtLeastZero(b.balance - (e - a)) ELSE b.balance + (a - e)
    BY DEF SettleBucket, Bucket
  <1> QED
    BY <1>1, <1>2 DEF Entry, AtLeastZero

LEMMA CancelEntry ==
    ASSUME NEW b \in Bucket, NEW e \in Nat, NEW s \in Nat
    PROVE  Entry(b, CancelBucket(b, e), e, 0, s, s) /\ Entry(b, b, e, 0, s, s + e)
  <1>1. b.balance \in Nat
    BY DEF Bucket
  <1>2. CancelBucket(b, e).rate = b.rate /\ CancelBucket(b, e).balance = AtLeastZero(b.balance - e)
    BY DEF CancelBucket, Bucket
  <1> QED
    BY <1>1, <1>2 DEF Entry, AtLeastZero

LEMMA ReserveEntry ==
    ASSUME NEW b \in Bucket, now \in Nat, NEW a \in Nat, NEW s \in Nat, NEW u \in Nat
    PROVE  /\ Entry(b, Refill(b), u, u, s, s)
           /\ Entry(b, [Refill(b) EXCEPT !.balance = @ + a], 0, a, s, s)
  <1> DEFINE c == Refill(b)
             e == [c EXCEPT !.balance = @ + a]
  <1>1. /\ c \in Bucket /\ c.balance \in Nat /\ b.balance \in Nat
        /\ c.balance <= b.balance /\ c.rate = b.rate
        /\ b.rate = 0 => c.balance = b.balance
    BY RefillFacts
  <1> HIDE DEF c
  <1>2. e.rate = b.rate /\ e.balance = c.balance + a
    BY <1>1 DEF Bucket
  <1> HIDE DEF e
  <1>3. Entry(b, c, u, u, s, s)
    BY <1>1 DEF Entry
  <1>4. Entry(b, e, 0, a, s, s)
    BY <1>1, <1>2 DEF Entry
  <1> QED
    BY <1>3, <1>4 DEF c, e

LEMMA ReserveTokensLedger ==
    ASSUME IInv, IInv', LInv, NEW r \in Requests, ReserveTokens(r)
    PROVE  LInv'
  <1> DEFINE q == req[r]
             o == Obj(q)
             d == AtStage(q)
             b == buckets[o[1]][o[2]][d]
             amount == q.est[d]
             s == spent[o[1]][o[2]][d]
  <1>1. /\ q.pc = "reserving" /\ d # 0 /\ Enforced(SpecOf(q), d)
        /\ UNCHANGED <<gen, made, spent>>
    BY DEF ReserveTokens, Reserving
  <1>2. /\ q \in Request /\ PlanInv(q) /\ HeldInv(q) /\ q.pos \in Positions(q) /\ q.pos \in Nat
        /\ o \in Objects /\ o[1] \in Keys /\ o[2] \in Gens /\ d \in Dims
        /\ o = ObjAt(q, q.pos) /\ d = Stage(q.plan, q.pos) /\ SpecOf(q) = SpecAt(q, q.pos)
    BY <1>1, AtGauge
  <1>3. /\ buckets \in BucketTable /\ spent \in SpentTable /\ now \in Nat
        /\ req \in [Requests -> Request]
    BY Typed
  <1>4. b \in Bucket /\ amount \in Nat /\ s \in Nat
    BY <1>2, <1>3, OneBucket, OneSpent DEF Request
  <1>5. Known(o[1], o[2], d)
    <2>1. PICK i \in 1..Len(q.plan) : i = ScopeAt(q.plan, q.pos)
      BY <1>2, GaugeFacts
    <2>2. o[1] = q.plan[i].key /\ o[2] = q.gens[i] /\ Enforced(q.plan[i], d)
      BY <1>1, <1>2, <2>1 DEF ObjAt, SpecAt
    <2>3. KnownObjects(q)
      BY <1>1 DEF IInv, ObjectsInv, Over
    <2>4. d \in 0..NumDims
      BY <1>2, PlanAssumption DEF Dims
    <2>5. gen[o[1]] \in Nat /\ o[2] \in Nat
      BY <1>2, Typed, BoundAssumption DEF Gens
    <2> HIDE DEF q, o, d
    <2> QED
      BY <2>2, <2>3, <2>4, <2>5 DEF KnownObjects, Known
  <1>6. spent' = [spent EXCEPT ![o[1]][o[2]][d] = s]
    <2> HIDE DEF o, d
    <2> QED
      BY <1>1, <1>2, <1>3, ZenonT(60) DEF SpentTable
  <1>7. CASE ~CanReserve(Refill(b), amount)
    <2>1. buckets' = [buckets EXCEPT ![o[1]][o[2]][d] = Refill(b)] /\ req' = [req EXCEPT ![r] = Deny(q)]
      BY <1>7 DEF ReserveTokens
    <2>2. PICK x \in Request : x = Deny(q) /\ x.holds = q.holds /\ x.est = q.est
      BY <1>1, <1>2, DenyFacts
    <2>3. Share(q, <<o, d>>) \in Nat /\ Share(x, <<o, d>>) = Share(q, <<o, d>>)
      BY <1>4, <2>2 DEF Share
    <2>4. Refill(b) \in Bucket
      BY <1>3, <1>4, RefillType
    <2>5. Entry(b, Refill(b), Share(q, <<o, d>>), Share(x, <<o, d>>), s, s)
      BY <1>3, <1>4, <2>3, ReserveEntry
    <2>6. req' = [req EXCEPT ![r] = x]
      BY <2>1, <2>2
    <2> HIDE DEF o, d
    <2>7. Posting(r, x, o, d, Refill(b), s)
      BY <1>1, <1>2, <1>4, <1>5, <1>6, <2>1, <2>2, <2>4, <2>5, <2>6 DEF Posting
    <2> HIDE DEF q, b, s
    <2> QED
      BY <2>7, PostingLedger
  <1>8. CASE CanReserve(Refill(b), amount)
    <2> DEFINE y == Advance(q)
               h == <<o, d>>
               c == [Refill(b) EXCEPT !.balance = @ + amount]
               x == [y EXCEPT !.holds = q.holds \cup {h}]
    <2>1. /\ buckets' = [buckets EXCEPT ![o[1]][o[2]][d] = c]
          /\ req' = [req EXCEPT ![r] = [y EXCEPT !.holds = y.holds \cup {h}]]
      BY <1>8 DEF ReserveTokens
    <2>2. y \in Request /\ y.holds = q.holds /\ y.est = q.est
      BY <1>1, <1>2, AdvanceFacts
    <2>3. req' = [req EXCEPT ![r] = x]
      BY <2>1, <2>2
    <2>4. c \in Bucket
      <3>1. Refill(b) \in Bucket
        BY <1>3, <1>4, RefillType
      <3> HIDE DEF b, amount
      <3> QED
        BY <1>3, <1>4, <3>1, BucketTypes
    <2>5. h \notin q.holds
      <3> SUFFICES ASSUME h \in q.holds PROVE FALSE
        OBVIOUS
      <3>1. PICK p \in Positions(q) :
              Passed(q, p) /\ Stage(q.plan, p) # 0 /\ h = <<ObjAt(q, p), Stage(q.plan, p)>>
        BY <1>2 DEF HeldInv
      <3>2. ObjAt(q, p) = ObjAt(q, q.pos) /\ Stage(q.plan, p) = Stage(q.plan, q.pos)
        BY <1>2, <3>1
      <3>3. p = q.pos
        BY <1>2, <3>2, GaugesDiffer
      <3> QED
        BY <1>1, <1>2, <3>1, <3>3 DEF Passed
    <2>6. q.holds \cup {h} \in SUBSET (Objects \X Dims) /\ h[2] = d
      BY <1>2 DEF Request
    <2>7. Entry(b, c, 0, amount, s, s)
      BY <1>3, <1>4, ReserveEntry
    <2> HIDE DEF h, y, o, d, b, c
    <2>8. x \in Request /\ x.holds = q.holds \cup {h} /\ x.est = q.est
      BY <2>2, <2>6 DEF Request
    <2> HIDE DEF x
    <2>9. Share(q, h) = 0 /\ Share(x, h) = amount
      BY <2>5, <2>6, <2>8 DEF Share
    <2>10. Entry(buckets[o[1]][o[2]][d], c, Share(req[r], <<o, d>>), Share(x, <<o, d>>), spent[o[1]][o[2]][d], s)
      BY <2>7, <2>9 DEF b, h
    <2>11. \A l : l # <<o, d>> => (l \in x.holds <=> l \in req[r].holds)
      BY <2>8 DEF h
    <2>12. Posting(r, x, o, d, c, s)
      BY <1>1, <1>2, <1>4, <1>5, <1>6, <2>1, <2>3, <2>4, <2>8, <2>10, <2>11 DEF Posting
    <2> HIDE DEF q, s
    <2> QED
      BY <2>12, PostingLedger
  <1> QED
    BY <1>7, <1>8

LEMMA SettleLedger ==
    ASSUME IInv, IInv', LInv, NEW r \in Requests, Settle(r)
    PROVE  LInv'
  <1> DEFINE q == req[r]
             o == Obj(q)
             d == AtStage(q)
             h == <<o, d>>
             held == d # 0 /\ h \in q.holds
             after == IF q.pos = LastPos(q.plan)
                      THEN [q EXCEPT !.pc = "releasing", !.pos = 1, !.settled = TRUE]
                      ELSE [q EXCEPT !.pos = @ + 1]
             H == IF held THEN q.holds \ {h} ELSE q.holds
             x == [after EXCEPT !.holds = H]
  <1>1. q.pc = "settling" /\ UNCHANGED <<gen, made>>
    BY DEF Settle
  <1>2. /\ q \in Request /\ q.pos \in Nat
        /\ o \in Objects /\ o[1] \in Keys /\ o[2] \in Gens /\ (d # 0 => d \in Dims)
    BY <1>1, AtGauge
  <1>3. /\ buckets \in BucketTable /\ spent \in SpentTable /\ req \in [Requests -> Request]
    BY Typed
  <1>4. after \in Request /\ after.holds = q.holds /\ after.est = q.est
    <2>1. PICK w \in Nat : w = q.pos + 1
      BY <1>2
    <2>2. \/ after = [q EXCEPT !.pc = "releasing", !.pos = 1, !.settled = TRUE]
          \/ after = [q EXCEPT !.pos = w]
      BY <2>1
    <2> HIDE DEF after
    <2>3. CASE after = [q EXCEPT !.pc = "releasing", !.pos = 1, !.settled = TRUE]
      BY <1>2, <2>3 DEF Request
    <2>4. CASE after = [q EXCEPT !.pos = w]
      BY <1>2, <2>4 DEF Request
    <2> QED
      BY <2>2, <2>3, <2>4
  <1>5. req' = [req EXCEPT ![r] = [after EXCEPT !.holds = IF held THEN @ \ {h} ELSE @]]
    BY DEF Settle
  <1>6. H \in SUBSET (Objects \X Dims)
    BY <1>2 DEF Request
  <1> HIDE DEF after, held, o, d, h
  <1>7. req' = [req EXCEPT ![r] = x]
    BY <1>4, <1>5
  <1> HIDE DEF H
  <1>8. x \in Request /\ x.holds = H /\ x.est = q.est
    BY <1>4, <1>6 DEF Request
  <1> HIDE DEF x
  <1>9. CASE ~held
    <2>1. buckets' = buckets /\ spent' = spent
      BY <1>9 DEF Settle, held, h, o, d
    <2>2. x.holds = req[r].holds /\ x.est = req[r].est
      BY <1>8, <1>9 DEF H
    <2> QED
      BY <1>1, <1>7, <1>8, <2>1, <2>2, QuietLedger
  <1>10. CASE held
    <2>1. d \in Dims /\ h \in q.holds /\ h = <<o, d>> /\ h[2] = d /\ o = <<o[1], o[2]>>
      BY <1>2, <1>10 DEF held, h, Objects
    <2>2. PICK e \in Nat, a \in Nat, s \in Nat :
            e = q.est[d] /\ a = q.actual[d] /\ s = spent[o[1]][o[2]][d]
      BY <1>2, <1>3, <2>1, OneSpent DEF Request
    <2>3. PICK b \in Bucket : b = buckets[o[1]][o[2]][d]
      BY <1>2, <1>3, <2>1, OneBucket
    <2>4. PICK c \in Bucket : c = SettleBucket(b, e, a)
      <3>1. SettleBucket(b, e, a) \in Bucket
        BY Typed, BucketTypes
      <3> QED
        BY <3>1
    <2>5. PICK m \in Nat : m = s + a
      OBVIOUS
    <2>6. buckets' = [buckets EXCEPT ![o[1]][o[2]][d] = c] /\ spent' = [spent EXCEPT ![o[1]][o[2]][d] = m]
      BY <1>10, <2>2, <2>3, <2>4, <2>5 DEF Settle, held, h, o, d
    <2>7. Share(q, h) = e /\ Share(x, h) = 0 /\ \A l : l # h => (l \in x.holds <=> l \in q.holds)
      BY <1>8, <1>10, <2>1, <2>2 DEF H, Share
    <2>8. Entry(b, c, Share(q, h), Share(x, h), s, m)
      BY <2>4, <2>5, <2>7, SettleEntry
    <2>9. Known(o[1], o[2], d)
      BY <1>2, <2>1 DEF LInv, KnownInv
    <2>10. Posting(r, x, o, d, c, m)
      BY <1>1, <1>2, <1>7, <1>8, <2>1, <2>2, <2>3, <2>6, <2>7, <2>8, <2>9 DEF Posting
    <2> HIDE DEF q
    <2> QED
      BY <2>10, PostingLedger
  <1> QED
    BY <1>9, <1>10

(* releaseForwarded: afterwards the request is y, but for one gauge.       *)
LEMMA GiveBackLedger ==
    ASSUME IInv, IInv', LInv, NEW r \in Requests,
           req[r].pc = "releasing" \/ (req[r].pc = "unwinding" /\ req[r].pos > 0),
           NEW fwd \in BOOLEAN, NEW y \in Request, releaseForwarded(r, fwd, y),
           UNCHANGED <<gen, made>>,
           y.holds = req[r].holds, y.est = req[r].est \/ y.pc = "done"
    PROVE  LInv'
  <1> DEFINE q == req[r]
             o == Obj(q)
             d == AtStage(q)
             h == <<o, d>>
  <1>1. /\ q \in Request /\ o \in Objects /\ o[1] \in Keys /\ o[2] \in Gens
        /\ d # 0 => d \in Dims
    BY AtGauge
  <1>2. buckets \in BucketTable /\ spent \in SpentTable /\ req \in [Requests -> Request] /\ now \in Nat
    BY Typed
  <1>3. req'[r].pc = "done" => req'[r].holds = {}
    <2>1. HeldInv(req'[r])
      BY DEF IInv, RequestsInv, RequestInv
    <2> QED
      BY <2>1 DEF HeldInv, Passed, Over
  <1>4. CASE /\ d = 0 /\ o \in q.leases
             /\ req' = [req EXCEPT ![r] = [y EXCEPT !.leases = @ \ {o}]]
             /\ UNCHANGED <<buckets, spent>>
    <2> HIDE DEF o
    <2> DEFINE x == [y EXCEPT !.leases = y.leases \ {o}]
    <2>1. y.leases \ {o} \in SUBSET Objects
      BY DEF Request
    <2>2. x \in Request /\ x.holds = y.holds /\ x.est = y.est /\ x.pc = y.pc
      BY <2>1 DEF Request
    <2>3. req' = [req EXCEPT ![r] = x]
      BY <1>4
    <2> HIDE DEF x
    <2>4. x.holds = req[r].holds /\ (x.holds = {} \/ x.est = req[r].est)
      BY <1>2, <1>3, <2>2, <2>3
    <2> QED
      BY <1>4, <2>2, <2>3, <2>4, QuietLedger
  <1>5. CASE /\ d # 0 /\ h \in q.holds
             /\ buckets' = IF fwd THEN buckets
                           ELSE [buckets EXCEPT ![o[1]][o[2]][d] = CancelBucket(@, q.est[d])]
             /\ spent' = IF fwd
                         THEN [spent EXCEPT ![o[1]][o[2]][d] = @ + q.est[d]] ELSE spent
             /\ req' = [req EXCEPT ![r] = [y EXCEPT !.holds = @ \ {h}]]
    <2> HIDE DEF o, d
    <2>1. d \in Dims /\ h \in q.holds /\ h[2] = d /\ o = <<o[1], o[2]>>
      BY <1>1, <1>5 DEF Objects
    <2> HIDE DEF h
    <2>2. PICK e \in Nat, s \in Nat : e = q.est[d] /\ s = spent[o[1]][o[2]][d]
      BY <1>1, <1>2, <2>1, OneSpent DEF Request
    <2>3. PICK b \in Bucket : b = buckets[o[1]][o[2]][d]
      BY <1>1, <1>2, <2>1, OneBucket
    <2> DEFINE c == IF fwd THEN b ELSE CancelBucket(b, e)
               m == IF fwd THEN s + e ELSE s
               x == [y EXCEPT !.holds = y.holds \ {h}]
    <2>4. c \in Bucket /\ m \in Nat
      <3>1. CancelBucket(b, e) \in Bucket
        BY <1>2, BucketTypes
      <3> QED
        BY <3>1
    <2>5. buckets' = [buckets EXCEPT ![o[1]][o[2]][d] = c] /\ spent' = [spent EXCEPT ![o[1]][o[2]][d] = m]
      <3>1. buckets = [buckets EXCEPT ![o[1]][o[2]][d] = b] /\ spent = [spent EXCEPT ![o[1]][o[2]][d] = s]
        BY <1>1, <1>2, <2>1, <2>2, <2>3 DEF BucketTable, SpentTable
      <3> QED
        BY <1>5, <2>2, <2>3, <3>1
    <2>6. Entry(b, c, e, 0, s, m)
      BY CancelEntry
    <2> HIDE DEF c, m
    <2>7. y.holds \ {h} \in SUBSET (Objects \X Dims)
      BY DEF Request
    <2>8. x \in Request /\ x.holds = q.holds \ {h} /\ x.est = y.est /\ x.pc = y.pc
      BY <2>7 DEF Request
    <2>9. req' = [req EXCEPT ![r] = x]
      BY <1>5
    <2> HIDE DEF x
    <2>10. x.est = q.est \/ x.holds = {}
      BY <1>2, <1>3, <2>8, <2>9
    <2>11. Share(q, h) = e /\ Share(x, h) = 0 /\ \A l : l # h => (l \in x.holds <=> l \in q.holds)
      BY <2>1, <2>2, <2>8 DEF Share
    <2>12. Known(o[1], o[2], d)
      BY <1>1, <2>1 DEF LInv, KnownInv, h
    <2>13. Posting(r, x, o, d, c, m)
      BY <1>1, <2>1, <2>2, <2>3, <2>4, <2>5, <2>6, <2>8, <2>9, <2>10, <2>11, <2>12 DEF Posting, h
    <2> HIDE DEF q
    <2> QED
      BY <2>13, PostingLedger
  <1>6. CASE req' = [req EXCEPT ![r] = y] /\ UNCHANGED <<buckets, spent>>
    <2>1. y.holds = {} \/ y.est = req[r].est
      BY <1>2, <1>3, <1>6
    <2> QED
      BY <1>6, <2>1, QuietLedger
  <1> QED
    BY <1>4, <1>5, <1>6 DEF releaseForwarded

LEMMA UnwindLedger ==
    ASSUME IInv, IInv', LInv, NEW r \in Requests, Unwind(r)
    PROVE  LInv'
  <1> DEFINE q == req[r]
  <1>1. q.pc = "unwinding" /\ UNCHANGED <<gen, made>> /\ q \in Request /\ HeldInv(q) /\ PlanInv(q)
    BY Typed DEF Unwind, Over
  <1>2. CASE q.pos = 0 /\ req' = [req EXCEPT ![r] = Done(@)] /\ UNCHANGED <<pools, buckets, spent>>
    <2>1. q.holds = {}
      BY <1>1, <1>2, GaugeFacts DEF HeldInv, Passed
    <2>2. PICK x \in Request : x = Done(q) /\ x.holds = q.holds
      BY <1>1, IdleFacts
    <2>3. req' = [req EXCEPT ![r] = x]
      BY <1>2, <2>2
    <2> QED
      BY <1>1, <1>2, <2>1, <2>2, <2>3, QuietLedger
  <1>3. CASE q.pos > 0 /\ releaseForwarded(r, FALSE, [q EXCEPT !.pos = @ - 1])
    <2>1. PICK w \in Nat : w = q.pos - 1
      BY <1>1, <1>3 DEF Request
    <2>2. PICK y \in Request : y = [q EXCEPT !.pos = w] /\ y.holds = q.holds /\ y.est = q.est
      <3>1. [q EXCEPT !.pos = w] \in Request
        BY <1>1 DEF Request
      <3> QED
        BY <1>1, <3>1 DEF Request
    <2>3. releaseForwarded(r, FALSE, y)
      BY <1>3, <2>1, <2>2
    <2> QED
      BY <1>1, <1>3, <2>2, <2>3, GiveBackLedger
  <1> QED
    BY <1>2, <1>3 DEF Unwind

LEMMA ReleaseLedger ==
    ASSUME IInv, IInv', LInv, NEW r \in Requests, Release(r)
    PROVE  LInv'
  <1> DEFINE q == req[r]
             fwd == q.forwarded /\ ~q.settled
             after == IF q.pos = LastPos(q.plan) THEN Done(q) ELSE [q EXCEPT !.pos = @ + 1]
  <1>1. q.pc = "releasing" /\ UNCHANGED <<gen, made>> /\ releaseForwarded(r, fwd, after)
    BY DEF Release
  <1>2. q \in Request
    BY Typed
  <1>3. PICK w \in Nat : w = q.pos + 1
    BY <1>2 DEF Request
  <1>4. after \in Request /\ after.holds = q.holds /\ (after.est = q.est \/ after.pc = "done")
    <2>1. after = Done(q) \/ after = [q EXCEPT !.pos = w]
      BY <1>3
    <2> HIDE DEF after
    <2>2. CASE after = Done(q)
      BY <1>2, <2>2, IdleFacts
    <2>3. CASE after = [q EXCEPT !.pos = w]
      BY <1>2, <2>3 DEF Request
    <2> QED
      BY <2>1, <2>2, <2>3
  <1>5. fwd \in BOOLEAN
    BY <1>2 DEF Request
  <1> HIDE DEF fwd, after
  <1> QED
    BY <1>1, <1>4, <1>5, GiveBackLedger

(* The steps of a request that touch no bucket.                            *)
LEMMA OtherLedger ==
    ASSUME IInv, IInv', LInv, NEW r \in Requests,
           SkipGauge(r) \/ AcquireLease(r) \/ MarkForwarded(r) \/ BeginSettle(r) \/ BeginRelease(r)
    PROVE  LInv'
  <1> DEFINE q == req[r]
  <1>1. q \in Request /\ req \in [Requests -> Request] /\ (q.pc \notin Over => PlanInv(q))
    BY Typed
  <1>2. UNCHANGED <<gen, made, buckets, spent>>
    BY DEF SkipGauge, AcquireLease, MarkForwarded, BeginSettle, BeginRelease
  <1>3. \E x \in Request : req' = [req EXCEPT ![r] = x] /\ x.holds = q.holds /\ x.est = q.est
    <2>1. CASE SkipGauge(r)
      <3>1. q.pc = "reserving" /\ req' = [req EXCEPT ![r] = Advance(q)]
        BY <2>1 DEF SkipGauge
      <3> QED
        BY <1>1, <3>1, AdvanceFacts DEF Over
    <2>2. CASE AcquireLease(r)
      <3> DEFINE y == Advance(q)
                 o == Obj(q)
                 x == [y EXCEPT !.leases = y.leases \cup {o}]
      <3>1. q.pc = "reserving" /\ (req' = [req EXCEPT ![r] = x] \/ req' = [req EXCEPT ![r] = Deny(q)])
        BY <2>2 DEF AcquireLease, Reserving
      <3>2. y \in Request /\ y.holds = q.holds /\ y.est = q.est
        BY <1>1, <3>1, AdvanceFacts DEF Over
      <3>3. Deny(q) \in Request /\ Deny(q).holds = q.holds /\ Deny(q).est = q.est
        BY <1>1, <3>1, DenyFacts DEF Over
      <3>4. o \in Objects
        BY <3>1, AtGauge
      <3> HIDE DEF y, o
      <3>5. y.leases \cup {o} \in SUBSET Objects
        BY <3>2, <3>4 DEF Request
      <3>6. x \in Request /\ x.holds = q.holds /\ x.est = q.est
        BY <3>2, <3>5 DEF Request
      <3> HIDE DEF x
      <3> QED
        BY <3>1, <3>3, <3>6
    <2>3. CASE MarkForwarded(r)
      <3> DEFINE x == [q EXCEPT !.pc = "forwarded", !.forwarded = TRUE]
      <3>1. req' = [req EXCEPT ![r] = x]
        BY <1>1, <2>3 DEF MarkForwarded, Request
      <3>2. x \in Request /\ x.holds = q.holds /\ x.est = q.est
        BY <1>1 DEF Request
      <3> HIDE DEF x
      <3> QED
        BY <3>1, <3>2
    <2>4. CASE BeginSettle(r)
      <3>1. PICK actual \in Actuals :
              req' = [req EXCEPT ![r] = [@ EXCEPT !.pc = "settling", !.actual = actual, !.pos = 1]]
        BY <2>4 DEF BeginSettle
      <3> DEFINE x == [q EXCEPT !.pc = "settling", !.actual = actual, !.pos = 1]
      <3>2. req' = [req EXCEPT ![r] = x] /\ actual \in [Dims -> Nat]
        BY <3>1, UsageAssumption
      <3>3. x \in Request /\ x.holds = q.holds /\ x.est = q.est
        BY <1>1, <3>2 DEF Request
      <3> HIDE DEF x
      <3> QED
        BY <3>2, <3>3
    <2>5. CASE BeginRelease(r)
      <3> DEFINE x == [q EXCEPT !.pc = "releasing", !.pos = 1]
      <3>1. req' = [req EXCEPT ![r] = x]
        BY <1>1, <2>5 DEF BeginRelease, Request
      <3>2. x \in Request /\ x.holds = q.holds /\ x.est = q.est
        BY <1>1 DEF Request
      <3> HIDE DEF x
      <3> QED
        BY <3>1, <3>2
    <2> QED
      BY <2>1, <2>2, <2>3, <2>4, <2>5
  <1>4. PICK x \in Request : req' = [req EXCEPT ![r] = x] /\ x.holds = q.holds /\ x.est = q.est
    BY <1>3
  <1> QED
    BY <1>2, <1>4, QuietLedger

(* The maps change and nothing is reserved or charged: a bucket that was   *)
(* known at most repays itself, and one that becomes known starts at zero. *)
LEMMA MapsLedger ==
    ASSUME IInv, IInv', LInv, RateInv', spent' = spent,
           \A s \in Requests : req'[s].holds = req[s].holds,
           \A k \in Keys, g \in Gens, d \in Dims : Held(k, g, d)' = Held(k, g, d),
           \A k \in Keys, g \in Gens, d \in Dims :
              LET b == buckets[k][g][d]
                  c == buckets'[k][g][d]
              IN  /\ Known(k, g, d) => Known(k, g, d)'
                  /\ \/ /\ c.balance <= b.balance
                        /\ SteadyRates /\ c.rate = 0 => b.rate = 0 /\ c.balance = b.balance
                     \/ c.balance = 0 /\ ~Known(k, g, d)
    PROVE  LInv'
  <1>1. KnownInv'
    BY DEF LInv, KnownInv
  <1>2. ASSUME NEW k \in Keys, NEW g \in Gens, NEW d \in Dims PROVE Balanced(k, g, d)'
    <2> DEFINE b == buckets[k][g][d]
               c == buckets'[k][g][d]
    <2>1. Owed(k, g, d)' = Owed(k, g, d)
      BY DEF Owed
    <2>2. Balanced(k, g, d)
      BY DEF LInv
    <2>3. b.balance \in Nat /\ c.balance \in Nat
      <3>1. b \in Bucket /\ c \in Bucket
        BY DEF IInv, TypeOK, Bucket
      <3> QED
        BY <3>1 DEF Bucket
    <2>4. Owed(k, g, d) \in Nat /\ (~Known(k, g, d) => Owed(k, g, d) = 0)
      <3> DEFINE U == UNION {{r} \X (1..req[r].est[d]) : r \in Reservers(k, g, d)}
      <3>1. Held(k, g, d) \in Nat
        <4>1. Requests = {} => Held(k, g, d) = 0
          BY FS_EmptySet DEF Held, Reservers
        <4>2. ASSUME NEW r \in Requests PROVE Held(k, g, d) \in Nat
          <5>1. PICK n \in Nat : \A x \in Request :
                   Cardinality(Units([req EXCEPT ![r] = x], <<<<k, g>>, d>>)) = n + Share(x, <<<<k, g>>, d>>)
            BY Typed, UnitsChange DEF Objects
          <5>2. req[r] \in Request /\ req = [req EXCEPT ![r] = req[r]]
            BY Typed
          <5>3. Held(k, g, d) = Cardinality(Units(req, <<<<k, g>>, d>>))
            BY DEF Held, Units, Reservers
          <5>4. Share(req[r], <<<<k, g>>, d>>) \in Nat
            BY <5>2 DEF Share, Request
          <5> QED
            BY <5>1, <5>2, <5>3, <5>4
        <4> QED
          BY <4>1, <4>2
      <3>2. spent[k][g][d] \in Nat
        BY Typed DEF SpentTable
      <3>3. ASSUME ~Known(k, g, d) PROVE Held(k, g, d) = 0 /\ spent[k][g][d] = 0
        <4>1. Reservers(k, g, d) = {} /\ spent[k][g][d] = 0
          BY <3>3 DEF LInv, KnownInv, Reservers
        <4> QED
          BY <4>1, FS_EmptySet DEF Held
      <3> QED
        BY <3>1, <3>2, <3>3 DEF Owed
    <2>5. CASE c.balance = 0 /\ ~Known(k, g, d)
      BY <2>1, <2>4, <2>5 DEF Balanced
    <2>6. CASE /\ c.balance <= b.balance
               /\ SteadyRates /\ c.rate = 0 => b.rate = 0 /\ c.balance = b.balance
      <3>1. b.balance <= Owed(k, g, d) /\ (SteadyRates /\ b.rate = 0 => b.balance = Owed(k, g, d))
        BY <2>2 DEF Balanced
      <3>2. c.balance <= Owed(k, g, d)
        BY <2>3, <2>4, <2>6, <3>1
      <3>3. SteadyRates /\ c.rate = 0 => c.balance = Owed(k, g, d)
        BY <2>6, <3>1
      <3> QED
        BY <2>1, <3>2, <3>3, Steady DEF Balanced
    <2> QED
      BY <2>5, <2>6
  <1> QED
    BY <1>1, <1>2 DEF LInv

LEMMA TickLedger ==
    ASSUME IInv, IInv', LInv, UNCHANGED <<gen, made, buckets, req, spent>>
    PROVE  LInv'
  <1>1. RateInv'
    BY DEF LInv, RateInv, LimitsOf, ScopeSpec, Dims
  <1>2. \A k \in Keys, g \in Gens, d \in Dims :
          /\ Known(k, g, d) => Known(k, g, d)'
          /\ buckets'[k][g][d].balance <= buckets[k][g][d].balance
    <2>1. \A k \in Keys, g \in Gens, d \in Dims : buckets[k][g][d].balance \in Nat
      BY Typed DEF BucketTable, Bucket
    <2> QED
      BY <2>1 DEF Known
  <1> QED
    BY <1>1, <1>2, HeldSame, MapsLedger

LEMMA RemoveScopeLedger ==
    ASSUME IInv, IInv', LInv, NEW k \in Keys, RemoveScope(k)
    PROVE  LInv'
  <1>1. UNCHANGED <<req, spent>>
    BY DEF RemoveScope
  <1>2. /\ now \in Nat /\ buckets \in BucketTable /\ gen \in [Keys -> Gens]
        /\ made \in [Keys -> SUBSET (0..NumDims)] /\ Gens \subseteq Nat
    BY Typed, BoundAssumption DEF Gens
  <1>3. \A l \in Keys, g \in Gens, d \in Dims :
           /\ buckets[l][g][d] \in Bucket /\ buckets[l][g][d].balance \in Nat
           /\ Refill(buckets[l][g][d]).balance <= buckets[l][g][d].balance
           /\ Refill(buckets[l][g][d]).rate = buckets[l][g][d].rate
           /\ buckets[l][g][d].rate = 0 => Refill(buckets[l][g][d]).balance = buckets[l][g][d].balance
    BY <1>2, RefillFacts DEF BucketTable
  <1>4. CASE LeaseFree(k) /\ BucketsEvictable(k)
    <2>1. gen' = [gen EXCEPT ![k] = @ + 1] /\ made' = [made EXCEPT ![k] = {}] /\ UNCHANGED buckets
      BY <1>4 DEF RemoveScope
    <2>2. RateInv'
      <3>1. \A l \in Keys : l # k => gen'[l] = gen[l] /\ made'[l] = made[l]
        BY <1>2, <2>1
      <3>2. made'[k] = {}
        BY <1>2, <2>1
      <3> QED
        BY <2>1, <3>1, <3>2 DEF LInv, RateInv, LimitsOf, ScopeSpec, Dims
    <2>3. ASSUME NEW l \in Keys, NEW g \in Gens, NEW d \in Dims, Known(l, g, d) PROVE Known(l, g, d)'
      <3>1. gen[l] \in Nat /\ g \in Nat
        BY <1>2
      <3>2. CASE l = k
        <4>1. gen'[l] = gen[l] + 1
          BY <1>2, <2>1, <3>2
        <4>2. g <= gen[l]
          BY <2>3, <3>1 DEF Known
        <4> QED
          BY <3>1, <4>1, <4>2 DEF Known
      <3>3. CASE l # k
        <4>1. gen'[l] = gen[l] /\ made'[l] = made[l]
          BY <1>2, <2>1, <3>3
        <4> QED
          BY <2>3, <4>1 DEF Known
      <3> QED
        BY <3>2, <3>3
    <2>4. \A l \in Keys, g \in Gens, d \in Dims :
             /\ buckets'[l][g][d].balance <= buckets[l][g][d].balance
             /\ buckets'[l][g][d] = buckets[l][g][d]
      BY <1>3, <2>1
    <2> QED
      BY <1>1, <2>2, <2>3, <2>4, HeldSame, MapsLedger
  <1>5. CASE ~(LeaseFree(k) /\ BucketsEvictable(k))
    <2>1. UNCHANGED <<gen, made>>
      BY <1>5 DEF RemoveScope
    <2>2. \/ buckets' = buckets
          \/ buckets' = [buckets EXCEPT ![k][gen[k]] = [d \in Dims |->
                                  IF d \in made[k] THEN Refill(@[d]) ELSE @[d]]]
      BY <1>5 DEF RemoveScope
    <2>3. \A l \in Keys, g \in Gens, d \in Dims :
             buckets'[l][g][d] \in {buckets[l][g][d], Refill(buckets[l][g][d])}
      <3>1. CASE buckets' = buckets
        BY <3>1
      <3>2. CASE buckets' = [buckets EXCEPT ![k][gen[k]] = [d \in Dims |->
                                  IF d \in made[k] THEN Refill(@[d]) ELSE @[d]]]
        <4> DEFINE u == [d \in Dims |-> IF d \in made[k] THEN Refill(buckets[k][gen[k]][d]) ELSE buckets[k][gen[k]][d]]
        <4>1. buckets' = [buckets EXCEPT ![k][gen[k]] = u]
          BY <3>2
        <4>2. \A d \in Dims : u[d] \in {buckets[k][gen[k]][d], Refill(buckets[k][gen[k]][d])}
          OBVIOUS
        <4> HIDE DEF u
        <4>3. \A l \in Keys, g \in Gens : buckets'[l][g] = IF l = k /\ g = gen[k] THEN u ELSE buckets[l][g]
          BY <1>2, <4>1 DEF BucketTable
        <4> QED
          BY <4>2, <4>3
      <3> QED
        BY <2>2, <3>1, <3>2
    <2>4. \A l \in Keys, g \in Gens, d \in Dims :
             /\ buckets'[l][g][d].rate = buckets[l][g][d].rate
             /\ buckets'[l][g][d].balance <= buckets[l][g][d].balance
             /\ buckets[l][g][d].rate = 0 => buckets'[l][g][d].balance = buckets[l][g][d].balance
      BY <1>3, <2>3
    <2>5. RateInv'
      <3> SUFFICES ASSUME NEW l \in Keys, NEW d \in Dims, d \in made[l]
                   PROVE  \E s \in LimitsOf(l) : s.burst[d] > 0 /\ buckets'[l][gen[l]][d].rate = s.rate[d]
        BY <2>1 DEF RateInv, LimitsOf, ScopeSpec, Dims
      <3>1. PICK s \in LimitsOf(l) : s.burst[d] > 0 /\ buckets[l][gen[l]][d].rate = s.rate[d]
        BY DEF LInv, RateInv
      <3>2. gen[l] \in Gens
        BY <1>2
      <3> QED
        BY <2>4, <3>1, <3>2
    <2>6. \A l \in Keys, g \in Gens, d \in Dims : Known(l, g, d) => Known(l, g, d)'
      BY <2>1 DEF Known
    <2> QED
      BY <1>1, <2>4, <2>5, <2>6, HeldSame, MapsLedger
  <1> QED
    BY <1>4, <1>5

(* The limits of a resolved plan are limits of its keys.                   *)
LEMMA ResolvedLimits ==
    ASSUME IInv, NEW plan \in Plans, NEW out \in EnsureSourceScope(plan), NEW i \in 1..Len(out.plan)
    PROVE  \E s \in LimitsOf(out.plan[i].key) : s.burst = out.plan[i].burst /\ s.rate = out.plan[i].rate
  <1> DEFINE k == plan[1].key
             full == [plan EXCEPT ![1].key = sourceOverflowID[k]]
  <1>1. /\ plan \in Seq(ScopeSpec) /\ Len(plan) \in Nat /\ Len(plan) > 0 /\ DOMAIN plan = 1..Len(plan)
        /\ \A j \in 1..Len(plan) : plan[j] \in ScopeSpec
    BY PlanFacts
  <1>2. out.plan = plan \/ (k \in SourceKeys /\ out.plan = full)
    <2> DEFINE room == k \notin SourceKeys \/ sources[k] # 0 \/ Cardinality(InTable) < MaxSourceScopes
               victims == {v \in Scannable : BucketsEvictable(v)}
    <2>1. CASE room
      <3>1. out = [plan |-> plan, evicted |-> {}, scanned |-> {}]
        BY <2>1 DEF EnsureSourceScope
      <3> QED
        BY <3>1
    <2>2. CASE ~room /\ victims = {}
      <3>1. out = [plan |-> full, evicted |-> {}, scanned |-> Scannable]
        BY <2>2 DEF EnsureSourceScope
      <3> HIDE DEF full
      <3> QED
        BY <2>2, <3>1
    <2>3. CASE ~room /\ victims # {}
      <3>1. out \in {[plan |-> plan, evicted |-> {v}, scanned |-> C] :
                        v \in victims, C \in SUBSET (Scannable \ victims)}
        BY <2>3 DEF EnsureSourceScope
      <3>2. PICK v, C : out = [plan |-> plan, evicted |-> {v}, scanned |-> C]
        BY <3>1
      <3> QED
        BY <3>2
    <2> QED
      BY <2>1, <2>2, <2>3
  <1>3. CASE out.plan = plan
    <2>1. plan[i] \in ScopeSpec
      BY <1>1, <1>3
    <2>2. plan[i] \in LimitsOf(plan[i].key)
      BY <1>3, <2>1 DEF LimitsOf
    <2> QED
      BY <1>3, <2>2
  <1>4. CASE k \in SourceKeys /\ out.plan = full
    <2>1. PICK c \in ScopeSpec : c = plan[1]
      BY <1>1
    <2>2. PICK l \in Keys : l = sourceOverflowID[k]
      BY <1>4, PlanAssumption
    <2>3. PICK e \in ScopeSpec : e = [c EXCEPT !.key = l] /\ e.key = l /\ e.burst = c.burst /\ e.rate = c.rate
      <3>1. [c EXCEPT !.key = l] \in ScopeSpec
        BY DEF ScopeSpec
      <3> QED
        BY <3>1 DEF ScopeSpec
    <2>4. full = [plan EXCEPT ![1] = e]
      BY <2>1, <2>2, <2>3
    <2> HIDE DEF full
    <2>5. Len(full) = Len(plan)
      BY <1>1, <2>4, ExceptSeq
    <2>6. i \in 1..Len(plan) /\ full[1] = e /\ (i # 1 => full[i] = plan[i])
      BY <1>1, <1>4, <2>4, <2>5
    <2>7. CASE i = 1
      <3>1. c \in LimitsOf(l)
        BY <1>4, <2>1, <2>2 DEF LimitsOf
      <3> QED
        BY <1>4, <2>3, <2>6, <2>7, <3>1
    <2>8. CASE i # 1
      <3>1. plan[i] \in LimitsOf(plan[i].key)
        BY <1>1, <2>6 DEF LimitsOf
      <3> QED
        BY <1>4, <2>6, <2>8, <3>1
    <2> QED
      BY <2>7, <2>8
  <1> QED
    BY <1>2, <1>3, <1>4

(* What a resolution does to each bucket.                                  *)
LEMMA ResolvedBuckets ==
    ASSUME IInv, NEW keys, NEW specAt, DOMAIN specAt = keys,
           NEW at \in [Keys -> Gens], NEW exists, NEW scanned,
           NEW k \in Keys, NEW g \in Gens, NEW d \in Dims
    PROVE  LET b == buckets[k][g][d]
               c == ResolveBuckets(specAt, exists, at, scanned)[k][g][d]
               set == g = at[k] /\ k \in keys /\ Enforced(specAt[k], d)
           IN  \/ ~set /\ c = b
               \/ ~set /\ c = Refill(b)
               \/ set /\ d \in exists[k] /\ c = Reconfigure(b, specAt[k].burst[d], specAt[k].rate[d])
               \/ set /\ d \notin exists[k] /\ c = NewTokenBucket(specAt[k].burst[d], specAt[k].rate[d])
  <1>1. buckets \in BucketTable
    BY Typed
  <1> DEFINE old(e) == buckets[k][at[k]][e]
             new(e) == IF ~Enforced(specAt[k], e) THEN old(e)
                       ELSE IF e \in exists[k]
                       THEN Reconfigure(old(e), specAt[k].burst[e], specAt[k].rate[e])
                       ELSE NewTokenBucket(specAt[k].burst[e], specAt[k].rate[e])
             fresh(e) == IF e \in exists[k] THEN Refill(old(e)) ELSE old(e)
             c == ResolveBuckets(specAt, exists, at, scanned)[k][g][d]
  <1>2. buckets[k] \in [Gens -> [Dims -> Bucket]] /\ at[k] \in Gens
    BY <1>1 DEF BucketTable
  <1>3. ResolveBuckets(specAt, exists, at, scanned)[k] =
           IF k \in keys THEN [buckets[k] EXCEPT ![at[k]] = [e \in Dims |-> new(e)]]
           ELSE IF k \in scanned THEN [buckets[k] EXCEPT ![at[k]] = [e \in Dims |-> fresh(e)]]
           ELSE buckets[k]
    BY DEF ResolveBuckets
  <1> HIDE DEF new, fresh
  <1>4. CASE k \in keys
    <2>1. c = IF g = at[k] THEN new(d) ELSE buckets[k][g][d]
      BY <1>2, <1>3, <1>4
    <2> HIDE DEF c
    <2>2. CASE g = at[k]
      <3>1. c = new(d) /\ old(d) = buckets[k][g][d]
        BY <2>1, <2>2
      <3> HIDE DEF old
      <3> QED
        BY <1>4, <2>2, <3>1 DEF new, c
    <2> QED
      BY <1>4, <2>1, <2>2 DEF c
  <1>5. CASE k \notin keys
    <2>1. c = buckets[k][g][d] \/ (g = at[k] /\ c = fresh(d))
      BY <1>2, <1>3, <1>5
    <2> QED
      BY <1>5, <2>1 DEF fresh
  <1> QED
    BY <1>4, <1>5

LEMMA ResolveLedger ==
    ASSUME IInv, IInv', LInv, NEW r \in Requests, Resolve(r)
    PROVE  LInv'
  <1>0. PICK plan \in Plans, est \in Estimates : \E out \in EnsureSourceScope(plan) :
             (\A k \in out.evicted : gen[k] < MaxGen) /\ Resolved(r, out, est)
    BY DEF Resolve
  <1>1. PICK out \in EnsureSourceScope(plan) :
             (\A k \in out.evicted : gen[k] < MaxGen) /\ Resolved(r, out, est)
    BY <1>0
  <1>2. req[r].pc = "idle" /\ UNCHANGED <<now, spent>>
    BY DEF Resolve
  <1> DEFINE keys   == {out.plan[i].key : i \in DOMAIN out.plan}
             specAt == [k \in keys |-> out.plan[CHOOSE i \in DOMAIN out.plan : out.plan[i].key = k]]
             at     == [k \in Keys |-> IF k \in out.evicted THEN gen[k] + 1 ELSE gen[k]]
             exists == [k \in Keys |-> IF k \in out.evicted THEN {} ELSE made[k]]
  <1>3. /\ DOMAIN out.plan = 1..Len(out.plan)
        /\ \A i \in 1..Len(out.plan) : out.plan[i] \in ScopeSpec
        /\ \A i, j \in 1..Len(out.plan) : out.plan[i].key = out.plan[j].key => i = j
        /\ \A i \in 1..Len(out.plan) : out.plan[i].key \notin out.evicted
    BY EnsureFacts
  <1>4. /\ now \in Nat /\ gen \in [Keys -> Gens] /\ made \in [Keys -> SUBSET (0..NumDims)]
        /\ req \in [Requests -> Request] /\ buckets \in BucketTable /\ Gens \subseteq Nat
    BY Typed, BoundAssumption DEF Gens
  <1>5. ASSUME NEW k \in keys
        PROVE  /\ k \notin out.evicted /\ specAt[k] \in ScopeSpec
               /\ \E s \in LimitsOf(k) : s.burst = specAt[k].burst /\ s.rate = specAt[k].rate
    <2>1. PICK i \in 1..Len(out.plan) : k = out.plan[i].key
      BY <1>3
    <2>2. (CHOOSE j \in DOMAIN out.plan : out.plan[j].key = k) = i
      BY <1>3, <2>1
    <2>3. specAt[k] = out.plan[i]
      BY <2>2
    <2>4. \E s \in LimitsOf(out.plan[i].key) : s.burst = out.plan[i].burst /\ s.rate = out.plan[i].rate
      BY ResolvedLimits
    <2> HIDE DEF specAt
    <2> QED
      BY <1>3, <2>1, <2>3, <2>4
  <1>6. /\ gen' = at /\ buckets' = ResolveBuckets(specAt, exists, at, out.scanned)
        /\ made' = [k \in Keys |-> IF k \in keys
                       THEN exists[k] \cup {s \in 0..NumDims : Enforced(specAt[k], s)}
                       ELSE exists[k]]
    BY <1>1 DEF Resolved
  <1>7. at \in [Keys -> Gens] /\ DOMAIN specAt = keys
    <2>1. gen' \in [Keys -> Gens]
      BY DEF IInv, TypeOK
    <2> QED
      BY <1>6, <2>1
  <1>8. \A k \in Keys : /\ k \notin out.evicted => at[k] = gen[k] /\ exists[k] = made[k]
                        /\ k \in out.evicted => at[k] = gen[k] + 1 /\ exists[k] = {}
    OBVIOUS
  <1>9. \A k \in Keys, d \in Dims : d \in made'[k] <=> d \in exists[k] \/ (k \in keys /\ Enforced(specAt[k], d))
    <2>1. \A d \in Dims : d \in 0..NumDims
      BY PlanAssumption DEF Dims
    <2> HIDE DEF specAt, exists, keys
    <2> QED
      BY <1>6, <2>1
  <1>10. PICK x \in Request : req' = [req EXCEPT ![r] = x] /\ x.holds = {}
    BY <1>1, ResolveFacts, ZenonT(60) DEF Resolution
  <1>11. req[r].holds = {}
    BY <1>2, Typed DEF HeldInv, Passed, Over
  <1>12. \A s \in Requests : req'[s].holds = req[s].holds
    BY <1>4, <1>10, <1>11
  <1>13. \A k \in Keys, g \in Gens, d \in Dims : Held(k, g, d)' = Held(k, g, d)
    <2>1. \A h : Share(x, h) = 0 /\ Share(req[r], h) = 0
      BY <1>10, <1>11 DEF Share
    <2>2. \A k \in Keys, g \in Gens, d \in Dims : \E n \in Nat :
              /\ Held(k, g, d) = n + Share(req[r], <<<<k, g>>, d>>)
              /\ Held(k, g, d)' = n + Share(x, <<<<k, g>>, d>>)
      BY <1>4, <1>10, HeldChange
    <2> TAKE k \in Keys, g \in Gens, d \in Dims
    <2> DEFINE h == <<<<k, g>>, d>>
    <2>3. PICK n \in Nat : Held(k, g, d) = n + Share(req[r], h) /\ Held(k, g, d)' = n + Share(x, h)
      BY <2>2
    <2>4. Share(x, h) = Share(req[r], h)
      BY <2>1
    <2> HIDE DEF h
    <2> QED
      BY <2>3, <2>4
  <1> HIDE DEF keys, specAt, at, exists
  <1> DEFINE set(k, g, d) == g = at[k] /\ k \in keys /\ Enforced(specAt[k], d)
  <1>14. ASSUME NEW k \in Keys, NEW g \in Gens, NEW d \in Dims
         PROVE  LET b == buckets[k][g][d]
                    c == buckets'[k][g][d]
                IN  \/ ~set(k, g, d) /\ (c = b \/ c = Refill(b))
                    \/ /\ set(k, g, d) /\ d \in exists[k] /\ c.balance <= b.balance
                       /\ c.rate = specAt[k].rate[d]
                       /\ b.rate = 0 => c.balance = b.balance
                    \/ /\ set(k, g, d) /\ d \notin exists[k] /\ c.balance = 0
                       /\ c.rate = specAt[k].rate[d]
    <2> DEFINE b == buckets[k][g][d]
               c == buckets'[k][g][d]
    <2>1. \/ ~set(k, g, d) /\ c = b
          \/ ~set(k, g, d) /\ c = Refill(b)
          \/ set(k, g, d) /\ d \in exists[k] /\ c = Reconfigure(b, specAt[k].burst[d], specAt[k].rate[d])
          \/ set(k, g, d) /\ d \notin exists[k] /\ c = NewTokenBucket(specAt[k].burst[d], specAt[k].rate[d])
      BY <1>6, <1>7, ResolvedBuckets
    <2>2. b \in Bucket
      BY <1>4, OneBucket
    <2>3. /\ Refill(b) \in Bucket /\ Refill(b).balance <= b.balance
          /\ b.rate = 0 => Refill(b).balance = b.balance
      BY <1>4, <2>2, RefillFacts
    <2> HIDE DEF b, c
    <2>4. \A n, t : /\ Reconfigure(b, n, t).balance = Refill(b).balance /\ Reconfigure(b, n, t).rate = t
                   /\ NewTokenBucket(n, t).balance = 0 /\ NewTokenBucket(n, t).rate = t
      BY <2>3 DEF Reconfigure, NewTokenBucket, Bucket
    <2> HIDE DEF set
    <2> QED
      BY <2>1, <2>3, <2>4 DEF b, c
  <1>15. \A k \in Keys, g \in Gens, d \in Dims :
           /\ buckets[k][g][d].balance \in Nat
           /\ Refill(buckets[k][g][d]).balance <= buckets[k][g][d].balance
           /\ Refill(buckets[k][g][d]).rate = buckets[k][g][d].rate
           /\ buckets[k][g][d].rate = 0 => Refill(buckets[k][g][d]).balance = buckets[k][g][d].balance
    BY <1>4, RefillFacts DEF BucketTable
  <1>16. \A k \in keys : \A d \in Dims : Enforced(specAt[k], d) =>
           \E s \in LimitsOf(k) : s.burst[d] > 0 /\ s.rate[d] = specAt[k].rate[d]
    <2>1. \A d \in Dims : d # 0
      BY PlanAssumption DEF Dims
    <2>2. \A k \in keys : \A d \in Dims : Enforced(specAt[k], d) => specAt[k].burst[d] > 0
      BY <2>1 DEF Enforced
    <2> QED
      BY <1>5, <2>2
  <1>17. RateInv'
    <2> SUFFICES ASSUME NEW k \in Keys, NEW d \in Dims, d \in made'[k]
                 PROVE  \E s \in LimitsOf(k) : s.burst[d] > 0 /\ buckets'[k][gen'[k]][d].rate = s.rate[d]
      BY DEF RateInv, LimitsOf, ScopeSpec, Dims
    <2>1. gen'[k] = at[k] /\ at[k] \in Gens
      BY <1>6, <1>7
    <2>2. CASE set(k, at[k], d)
      <3>1. buckets'[k][at[k]][d].rate = specAt[k].rate[d]
        BY <1>14, <2>1, <2>2
      <3> QED
        BY <1>16, <2>1, <2>2, <3>1
    <2>3. CASE ~set(k, at[k], d)
      <3>1. d \in exists[k] /\ at[k] = gen[k] /\ d \in made[k]
        BY <1>8, <1>9, <2>3
      <3>2. buckets'[k][at[k]][d].rate = buckets[k][at[k]][d].rate
        BY <1>14, <1>15, <2>1, <2>3
      <3>3. PICK s \in LimitsOf(k) : s.burst[d] > 0 /\ buckets[k][gen[k]][d].rate = s.rate[d]
        BY <3>1 DEF LInv, RateInv
      <3> QED
        BY <2>1, <3>1, <3>2, <3>3
    <2> QED
      BY <2>2, <2>3
  <1>18. ASSUME NEW k \in Keys, NEW g \in Gens, NEW d \in Dims
         PROVE  LET b == buckets[k][g][d]
                    c == buckets'[k][g][d]
                IN  /\ Known(k, g, d) => Known(k, g, d)'
                    /\ \/ /\ c.balance <= b.balance
                          /\ SteadyRates /\ c.rate = 0 => b.rate = 0 /\ c.balance = b.balance
                       \/ c.balance = 0 /\ ~Known(k, g, d)
    <2> DEFINE b == buckets[k][g][d]
               c == buckets'[k][g][d]
    <2>1. gen[k] \in Nat /\ g \in Nat /\ gen'[k] = at[k]
      BY <1>4, <1>6
    <2>2. Known(k, g, d) => Known(k, g, d)'
      BY <1>8, <1>9, <2>1 DEF Known
    <2>3. CASE ~set(k, g, d)
      <3>1. c = b \/ c = Refill(b)
        BY <1>14, <2>3
      <3>2. b.balance \in Nat
        BY <1>15
      <3> QED
        BY <1>15, <2>2, <3>1, <3>2
    <2>4. CASE set(k, g, d) /\ d \in exists[k]
      <3>1. c.balance <= b.balance /\ c.rate = specAt[k].rate[d] /\ (b.rate = 0 => c.balance = b.balance)
        BY <1>14, <2>4
      <3>2. g = gen[k] /\ d \in made[k]
        BY <1>5, <1>8, <2>4
      <3>3. PICK s \in LimitsOf(k) : s.burst[d] > 0 /\ b.rate = s.rate[d]
        BY <3>2 DEF LInv, RateInv
      <3>4. PICK t \in LimitsOf(k) : t.burst[d] > 0 /\ t.rate[d] = specAt[k].rate[d]
        BY <1>16, <2>4
      <3>5. SteadyRates => (s.rate[d] = 0 <=> t.rate[d] = 0)
        BY <3>3, <3>4 DEF SteadyRates
      <3> QED
        BY <2>2, <3>1, <3>3, <3>4, <3>5
    <2>5. CASE set(k, g, d) /\ d \notin exists[k]
      <3>1. c.balance = 0
        BY <1>14, <2>5
      <3>2. g = gen[k] /\ d \notin made[k]
        BY <1>5, <1>8, <2>5
      <3>3. ~Known(k, g, d)
        BY <2>1, <3>2 DEF Known
      <3> QED
        BY <2>2, <3>1, <3>3
    <2> QED
      BY <2>3, <2>4, <2>5
  <1> QED
    BY <1>2, <1>12, <1>13, <1>17, <1>18, MapsLedger

-----------------------------------------------------------------------------
LEMMA InitLedger == Init => LInv
  <1> SUFFICES ASSUME Init PROVE LInv
    OBVIOUS
  <1>1. \A r \in Requests : req[r].holds = {}
    BY IdleFacts DEF Init
  <1>2. \A k \in Keys, g \in Gens, d \in Dims : spent[k][g][d] = 0 /\ buckets[k][g][d].balance = 0
    BY DEF Init
  <1>3. \A k \in Keys : made[k] = {}
    BY DEF Init
  <1>4. \A k \in Keys, g \in Gens, d \in Dims : Held(k, g, d) = 0
    <2>1. \A k \in Keys, g \in Gens, d \in Dims : Reservers(k, g, d) = {}
      BY <1>1 DEF Reservers
    <2> QED
      BY <2>1, FS_EmptySet DEF Held
  <1>5. KnownInv /\ RateInv
    BY <1>1, <1>2, <1>3 DEF KnownInv, RateInv
  <1> QED
    BY <1>2, <1>4, <1>5 DEF LInv, Balanced, Owed

LEMMA NextLedger ==
    ASSUME IInv, LInv, [Next]_vars
    PROVE  LInv'
  <1>0. IInv'
    BY NextKept DEF Kept
  <1>1. CASE Tick
    BY <1>0, <1>1, TickLedger DEF Tick
  <1>2. CASE \E k \in Keys : RemoveScope(k)
    BY <1>0, <1>2, RemoveScopeLedger
  <1>3. ASSUME NEW r \in Requests, Resolve(r) PROVE LInv'
    BY <1>0, <1>3, ResolveLedger
  <1>4. ASSUME NEW r \in Requests,
               SkipGauge(r) \/ AcquireLease(r) \/ MarkForwarded(r) \/ BeginSettle(r) \/ BeginRelease(r)
        PROVE  LInv'
    BY <1>0, <1>4, OtherLedger
  <1>5. ASSUME NEW r \in Requests, ReserveTokens(r) PROVE LInv'
    BY <1>0, <1>5, ReserveTokensLedger
  <1>6. ASSUME NEW r \in Requests, Unwind(r) PROVE LInv'
    BY <1>0, <1>6, UnwindLedger
  <1>7. ASSUME NEW r \in Requests, Settle(r) PROVE LInv'
    BY <1>0, <1>7, SettleLedger
  <1>8. ASSUME NEW r \in Requests, Release(r) PROVE LInv'
    BY <1>0, <1>8, ReleaseLedger
  <1>9. CASE UNCHANGED vars
    BY <1>0, <1>9, TickLedger DEF vars
  <1> QED
    BY <1>1, <1>2, <1>3, <1>4, <1>5, <1>6, <1>7, <1>8, <1>9 DEF Next

(* The ledger is inductive with what is known of the buckets: only one     *)
(* that exists is reserved or charged, and it has a rate a policy gave it. *)
THEOREM LedgerInvariance == Spec => [](IInv /\ LInv)
  <1>1. Init => IInv /\ LInv
    BY InitKept, InitLedger
  <1>2. IInv /\ LInv /\ [Next]_vars => IInv' /\ LInv'
    BY NextKept, NextLedger DEF Kept
  <1> QED
    BY <1>1, <1>2, PTL DEF Spec

(* TokenBucket: whatever the policies do to the rates, a bucket never      *)
(* charges more than the reservations held on it and the usage committed.  *)
THEOREM NeverOvercharged ==
    Spec => [](\A k \in Keys, g \in Gens, d \in Dims : buckets[k][g][d].balance <= Owed(k, g, d))
  <1>1. LInv => \A k \in Keys, g \in Gens, d \in Dims : buckets[k][g][d].balance <= Owed(k, g, d)
    BY DEF LInv, Balanced
  <1> QED
    BY <1>1, LedgerInvariance, PTL

(* TokenBucket: for any number of requests, plans, estimates and metered   *)
(* usage, a bucket charges exactly the reservations held plus the usage    *)
(* committed while it does not refill, and never more when it does; every  *)
(* reservation is cancelled, settled or consumed once, also on a bucket    *)
(* that was reconfigured or whose scope was evicted or removed meanwhile.  *)
(* The exact part needs that no policy makes a refilled bucket burst-only. *)
THEOREM BucketsBalance ==
    ASSUME SteadyRates
    PROVE  Spec => []BucketLedger
  <1>1. LInv => BucketLedger
    BY DEF LInv, Balanced, Owed, BucketLedger
  <1> QED
    BY <1>1, LedgerInvariance, PTL
=============================================================================
