------------------------- MODULE ResourceLeasesProofs -------------------------
(***************************************************************************)
(* Proofs about ResourceLeases, for every set of processes, nodes,         *)
(* requests, scopes and policies, and for any transaction latency: slots,  *)
(* holds and ownership, the backing of work at the backend, and the ledger *)
(* of the token rows.                                                      *)
(***************************************************************************)
EXTENDS ResourceLeases, TLAPS, FiniteSetTheorems

(* A lease that is not held has no holds.                                  *)
OnlyHeldHold ==
    \A r \in Requests : lease[r].state \notin Held
                        => lease[r].slots = {} /\ lease[r].tokens = {}

(* The inductive invariant: deletion of bucket rows looks at the holds of  *)
(* held leases only, and release at the holds alone.                       *)
IInv == TypeOK /\ OnlyHeldHold /\ SlotsMatchLeases /\ HoldsHaveRows

-----------------------------------------------------------------------------
(***************************************************************************)
(* What the operations on a bucket row do to it.                           *)
(***************************************************************************)
LEMMA RefilledType ==
    ASSUME NEW b \in BucketRow, NEW t \in Nat
    PROVE  Refilled(b, t) \in Int
  <1>1. /\ b.capacity \in Int /\ b.available \in Int /\ b.updated \in Int /\ t \in Int
        /\ Rate \in Int
    BY LeaseAssumption DEF BucketRow
  <1>2. Rate * (t - b.updated) \in Int
    BY <1>1
  <1> QED
    BY <1>1, <1>2 DEF Refilled, Least

LEMMA TouchedRow ==
    ASSUME NEW b \in BucketRow, NEW t \in Nat
    PROVE  LET c == Touched(b, t) IN
           /\ c \in BucketRow /\ c.tokens = b.tokens /\ c.slot = b.slot /\ c.used = b.used
           /\ c.capacity = b.capacity /\ c.available = b.available /\ c.spent = b.spent
           /\ c.created = b.created /\ c.granted = b.granted /\ c.updated = t
           /\ c.late = IF t < b.updated THEN b.late + 1 ELSE b.late
  <1> DEFINE late == IF t < b.updated THEN b.late + 1 ELSE b.late
  <1>1. late \in Nat
    BY DEF BucketRow
  <1>2. Touched(b, t) = [b EXCEPT !.updated = t, !.late = late]
    BY DEF Touched
  <1>3. late = IF t < b.updated THEN b.late + 1 ELSE b.late
    OBVIOUS
  <1> HIDE DEF late
  <1> QED
    BY <1>1, <1>2, <1>3 DEF BucketRow

LEMMA LoadKeepsRow ==
    ASSUME NEW b \in BucketRow, NEW burst \in Nat, NEW t \in Nat
    PROVE  LET c == loadResourceBucket(b, burst, t) IN
           /\ c \in BucketRow /\ c.tokens
           /\ c.slot = b.slot /\ c.used = b.used
  <1>1. Refilled(b, t) \in Int
    BY RefilledType
  <1>2. CASE ~b.tokens
    <2>1. loadResourceBucket(b, burst, t) =
            [b EXCEPT !.tokens = TRUE, !.capacity = burst, !.available = burst,
                      !.updated = t, !.created = t, !.granted = burst]
      BY <1>2 DEF loadResourceBucket
    <2>2. burst \in Int
      OBVIOUS
    <2> QED
      BY <2>1, <2>2 DEF BucketRow
  <1>3. CASE b.tokens
    <2> DEFINE raised == IF burst > b.capacity THEN burst - b.capacity ELSE 0
               avail == Least(burst, Refilled(b, t) + raised)
               x == Touched(b, t)
    <2>1. raised \in Nat
      BY DEF BucketRow
    <2>2. avail \in Int
      <3> HIDE DEF raised
      <3> QED
        BY <1>1, <2>1 DEF Least
    <2>3. x \in BucketRow /\ x.tokens = b.tokens /\ x.slot = b.slot /\ x.used = b.used
      BY TouchedRow
    <2>4. loadResourceBucket(b, burst, t) =
            [x EXCEPT !.capacity = burst, !.available = avail, !.granted = x.granted + raised]
      BY <1>3 DEF loadResourceBucket
    <2> HIDE DEF avail, raised, x
    <2>5. x.granted + raised \in Nat
      BY <2>1, <2>3 DEF BucketRow
    <2> QED
      BY <1>3, <2>2, <2>3, <2>4, <2>5 DEF BucketRow
  <1> QED
    BY <1>2, <1>3 DEF BucketRow

LEMMA TokensTakenRow ==
    ASSUME NEW b \in BucketRow, NEW burst \in Nat, NEW t \in Nat
    PROVE  LET c == TokensTaken(b, burst, t) IN
           /\ c \in BucketRow /\ c.tokens
           /\ c.slot = b.slot /\ c.used = b.used
  <1> DEFINE x == loadResourceBucket(b, burst, t)
  <1>1. x \in BucketRow /\ x.tokens /\ x.slot = b.slot /\ x.used = b.used
    BY LoadKeepsRow
  <1>2. TokensTaken(b, burst, t) = [x EXCEPT !.available = x.available - Estimate]
    BY DEF TokensTaken
  <1> HIDE DEF x
  <1>3. x.available - Estimate \in Int
    BY <1>1, LeaseAssumption DEF BucketRow
  <1> QED
    BY <1>1, <1>2, <1>3 DEF BucketRow

LEMMA SlotTakenRow ==
    ASSUME NEW b \in BucketRow, NEW cap \in Nat
    PROVE  LET c == SlotTaken(b, cap) IN
           /\ c \in BucketRow /\ c.slot /\ c.used = b.used + 1
           /\ c.tokens = b.tokens
  <1> DEFINE room == IF b.slot THEN Least(b.room, cap) ELSE cap
  <1>1. room \in Nat /\ b.used + 1 \in Nat
    BY DEF BucketRow, Least
  <1>2. SlotTaken(b, cap) =
          [b EXCEPT !.slot = TRUE, !.used = b.used + 1, !.cap = cap, !.room = room]
    BY DEF SlotTaken
  <1> HIDE DEF room
  <1> QED
    BY <1>1, <1>2 DEF BucketRow

LEMMA ReservedRow ==
    ASSUME NEW b \in BucketRow, NEW plan \in Plan, NEW s \in Scopes, NEW t \in Nat
    PROVE  LET c == Reserved(b, plan, s, t) IN
           /\ c \in BucketRow
           /\ c.used = IF shouldReserveConcurrency(plan, s) THEN b.used + 1 ELSE b.used
           /\ shouldReserveConcurrency(plan, s) \/ b.slot => c.slot
           /\ plan.burst[s] > 0 \/ b.tokens => c.tokens
  <1> DEFINE x == IF plan.burst[s] > 0 THEN TokensTaken(b, plan.burst[s], t) ELSE b
  <1>1. plan.burst[s] \in Nat /\ plan.cap[s] \in Nat
    BY DEF Plan
  <1>2. /\ x \in BucketRow /\ x.slot = b.slot /\ x.used = b.used
        /\ plan.burst[s] > 0 \/ b.tokens => x.tokens
    <2>1. CASE plan.burst[s] > 0
      <3>1. x = TokensTaken(b, plan.burst[s], t)
        BY <2>1
      <3> HIDE DEF x
      <3> QED
        BY <1>1, <3>1, TokensTakenRow
    <2>2. CASE ~(plan.burst[s] > 0)
      BY <2>2
    <2> QED
      BY <2>1, <2>2
  <1>3. Reserved(b, plan, s, t) =
          IF shouldReserveConcurrency(plan, s) THEN SlotTaken(x, plan.cap[s]) ELSE x
    BY DEF Reserved
  <1> HIDE DEF x
  <1>4. CASE shouldReserveConcurrency(plan, s)
    <2> DEFINE c == SlotTaken(x, plan.cap[s])
    <2>1. c \in BucketRow /\ c.slot /\ c.used = x.used + 1 /\ c.tokens = x.tokens
      BY <1>1, <1>2, SlotTakenRow
    <2>2. Reserved(b, plan, s, t) = c
      BY <1>3, <1>4
    <2> HIDE DEF c
    <2> QED
      BY <1>2, <1>4, <2>1, <2>2
  <1>5. CASE ~shouldReserveConcurrency(plan, s)
    BY <1>2, <1>3, <1>5
  <1> QED
    BY <1>4, <1>5

LEMMA SettledRow ==
    ASSUME NEW b \in BucketRow, NEW actual \in Nat, NEW t \in Nat
    PROVE  LET c == settleBucket(b, actual, t) IN
           /\ c \in BucketRow
           /\ c.used = b.used /\ c.slot = b.slot /\ c.tokens = b.tokens
  <1> DEFINE avail == Least(b.capacity, Refilled(b, t) - (actual - Estimate))
             x == Touched(b, t)
  <1>1. avail \in Int
    BY RefilledType, LeaseAssumption DEF BucketRow, Least
  <1>2. settleBucket(b, actual, t) =
          [x EXCEPT !.available = avail, !.spent = x.spent + actual]
    BY DEF settleBucket
  <1>3. x \in BucketRow /\ x.tokens = b.tokens /\ x.slot = b.slot /\ x.used = b.used
    BY TouchedRow
  <1> HIDE DEF avail, x
  <1>4. x.spent + actual \in Nat
    BY <1>3 DEF BucketRow
  <1> QED
    BY <1>1, <1>2, <1>3, <1>4 DEF BucketRow

(* The leases that hold a slot of a scope are a finite set.                *)
LEMMA FiniteRequests ==
    ASSUME NEW S \in SUBSET Requests
    PROVE  IsFiniteSet(S) /\ Cardinality(S) \in Nat
  BY FS_Subset, FS_CardinalityType, LeaseAssumption

LEMMA ReleasedRow ==
    ASSUME TypeOK, NEW s \in Scopes, NEW rs \in SUBSET Requests, NEW t \in Nat
    PROVE  LET c == releaseBucket(s, rs, t) IN
           /\ c \in BucketRow
           /\ c.used = Most(0, bucket[s].used - Cardinality({r \in rs : s \in lease[r].slots}))
           /\ c.slot = bucket[s].slot /\ c.tokens = bucket[s].tokens
  <1> DEFINE b == bucket[s]
             slots == {r \in rs : s \in lease[r].slots}
             holds == {r \in rs : s \in lease[r].tokens}
             back == {r \in holds : lease[r].state = "reserved"}
             lost == {r \in holds : lease[r].state = "forwarded"}
             base == IF RefundFirst(holds) THEN Refilled(b, t) ELSE b.available
             used == Most(0, b.used - Cardinality(slots))
             avail == IF back = {} THEN b.available
                      ELSE Least(b.capacity, base + Estimate * Cardinality(back))
             x == IF holds = {} THEN b ELSE Touched(b, t)
             loss == Estimate * Cardinality(lost)
  <1>1. b \in BucketRow
    BY DEF TypeOK
  <1>2. Cardinality(slots) \in Nat /\ Cardinality(back) \in Nat /\ Cardinality(lost) \in Nat
    <2>1. slots \in SUBSET Requests /\ back \in SUBSET Requests /\ lost \in SUBSET Requests
      OBVIOUS
    <2> QED
      BY <2>1, FiniteRequests
  <1>3. base \in Int /\ Estimate \in Nat
    BY <1>1, RefilledType, LeaseAssumption DEF BucketRow
  <1>4. /\ x \in BucketRow /\ x.tokens = b.tokens /\ x.slot = b.slot /\ x.used = b.used
        /\ x.available = b.available
    BY <1>1, TouchedRow
  <1>5. releaseBucket(s, rs, t) =
          [x EXCEPT !.used = Most(0, @ - Cardinality(slots)),
                    !.available = IF back = {} THEN @
                                  ELSE Least(b.capacity, base + Estimate * Cardinality(back)),
                    !.spent = @ + loss]
    BY DEF releaseBucket
  <1>6. releaseBucket(s, rs, t) =
          [x EXCEPT !.used = used, !.available = avail, !.spent = x.spent + loss]
    BY <1>4, <1>5
  <1>7. used \in Nat /\ avail \in Int /\ loss \in Nat
    <2> HIDE DEF base, slots, back, lost, b
    <2>1. Estimate * Cardinality(back) \in Nat /\ Estimate * Cardinality(lost) \in Nat
      BY <1>2, <1>3
    <2> QED
      BY <1>1, <1>2, <1>3, <2>1 DEF BucketRow, Most, Least
  <1>8. used = Most(0, bucket[s].used - Cardinality({r \in rs : s \in lease[r].slots}))
    OBVIOUS
  <1> HIDE DEF used, avail, x, loss
  <1>9. x.spent + loss \in Nat
    BY <1>4, <1>7 DEF BucketRow
  <1> QED
    BY <1>1, <1>4, <1>6, <1>7, <1>8, <1>9 DEF BucketRow

-----------------------------------------------------------------------------
(***************************************************************************)
(* What happens to holds: they are kept, rows without holds are deleted,   *)
(* leases are released, a lease is made.                                   *)
(***************************************************************************)
HoldsInv == OnlyHeldHold /\ SlotsMatchLeases /\ HoldsHaveRows

LEMMA HoldsKept ==
    ASSUME IInv,
           \A r \in Requests :
               /\ lease'[r].slots = lease[r].slots /\ lease'[r].tokens = lease[r].tokens
               /\ lease'[r].state \in Held <=> lease[r].state \in Held,
           \A s \in Scopes :
               /\ bucket'[s].used = bucket[s].used
               /\ bucket'[s].slot = bucket[s].slot /\ bucket'[s].tokens = bucket[s].tokens
    PROVE  HoldsInv'
  <1>1. OnlyHeldHold'
    BY DEF IInv, OnlyHeldHold
  <1>2. SlotsMatchLeases'
    <2>1. ASSUME NEW s \in Scopes
          PROVE  {r \in Requests : s \in lease'[r].slots} = {r \in Requests : s \in lease[r].slots}
      OBVIOUS
    <2> QED
      BY <2>1 DEF IInv, SlotsMatchLeases
  <1>3. HoldsHaveRows'
    <2>1. ASSUME NEW r \in Requests PROVE RowsExist(r)'
      <3>1. RowsExist(r) /\ lease[r].slots \subseteq Scopes /\ lease[r].tokens \subseteq Scopes
        BY DEF IInv, HoldsHaveRows, TypeOK, LeaseRow
      <3> QED
        BY <3>1 DEF RowsExist
    <2> QED
      BY <2>1 DEF HoldsHaveRows
  <1> QED
    BY <1>1, <1>2, <1>3 DEF HoldsInv

LEMMA NoHolders ==
    ASSUME IInv, NEW s \in Scopes, Holders(s) = {}, NEW r \in Requests
    PROVE  s \notin lease[r].slots /\ s \notin lease[r].tokens
  BY DEF IInv, OnlyHeldHold, Holders

LEMMA RowsDeleted ==
    ASSUME IInv, lease' = lease, NEW D \in SUBSET Scopes,
           \A s \in D : Holders(s) = {},
           bucket' = [s \in Scopes |-> IF s \in D THEN NoRow ELSE bucket[s]]
    PROVE  HoldsInv' /\ bucket' \in [Scopes -> BucketRow]
  <1>1. OnlyHeldHold'
    BY DEF IInv, OnlyHeldHold
  <1>2. SlotsMatchLeases'
    <2> SUFFICES ASSUME NEW s \in Scopes
                 PROVE  bucket'[s].used = Cardinality({r \in Requests : s \in lease[r].slots})
      BY DEF SlotsMatchLeases
    <2>1. CASE s \in D
      <3>1. {r \in Requests : s \in lease[r].slots} = {}
        BY <2>1, NoHolders
      <3>2. bucket'[s].used = 0
        BY <2>1 DEF NoRow
      <3> QED
        BY <3>1, <3>2, FS_EmptySet
    <2>2. CASE s \notin D
      BY <2>2 DEF IInv, SlotsMatchLeases
    <2> QED
      BY <2>1, <2>2
  <1>3. HoldsHaveRows'
    <2>1. ASSUME NEW r \in Requests PROVE RowsExist(r)'
      <3>1. RowsExist(r) /\ lease[r].slots \subseteq Scopes /\ lease[r].tokens \subseteq Scopes
        BY DEF IInv, HoldsHaveRows, TypeOK, LeaseRow
      <3>2. \A s \in D : s \notin lease[r].slots /\ s \notin lease[r].tokens
        BY NoHolders
      <3> QED
        BY <3>1, <3>2 DEF RowsExist
    <2> QED
      BY <2>1 DEF HoldsHaveRows
  <1>4. bucket' \in [Scopes -> BucketRow]
    BY DEF IInv, TypeOK, NoRow, BucketRow
  <1> QED
    BY <1>1, <1>2, <1>3, <1>4 DEF HoldsInv

(* A released lease as Released leaves it.                                 *)
LEMMA ReleasedLease ==
    ASSUME NEW l \in LeaseRow
    PROVE  LET m == [l EXCEPT !.state = "released", !.slots = {}, !.tokens = {},
                              !.plan = NoPlan, !.expires = 0]
           IN  m \in LeaseRow /\ m.state = "released" /\ m.slots = {} /\ m.tokens = {}
  <1>1. NoPlan \in Plan
    BY DEF NoPlan, Plan
  <1>2. "released" \in LeaseState /\ {} \in SUBSET Scopes
    BY DEF LeaseState
  <1> QED
    BY <1>1, <1>2 DEF LeaseRow

LEMMA ReleasedKeeps ==
    ASSUME IInv, NEW rs \in SUBSET Requests, NEW t \in Nat, Released(rs, t)
    PROVE  HoldsInv' /\ bucket' \in [Scopes -> BucketRow] /\ lease' \in [Requests -> LeaseRow]
  <1> DEFINE after(l) == [l EXCEPT !.state = "released", !.slots = {}, !.tokens = {},
                                   !.plan = NoPlan, !.expires = 0]
  <1>1. /\ bucket' = [s \in Scopes |-> releaseBucket(s, rs, t)]
        /\ lease' = [r \in Requests |-> IF r \in rs THEN after(lease[r]) ELSE lease[r]]
    BY DEF Released
  <1>2. \A l \in LeaseRow : /\ after(l) \in LeaseRow /\ after(l).state = "released"
                            /\ after(l).slots = {} /\ after(l).tokens = {}
    BY ReleasedLease
  <1> HIDE DEF after
  <1>3. TypeOK /\ lease \in [Requests -> LeaseRow]
    BY DEF IInv, TypeOK
  <1>4. lease' \in [Requests -> LeaseRow]
    BY <1>1, <1>2, <1>3
  <1>5. \A r \in Requests :
           /\ r \in rs => lease'[r].state = "released" /\ lease'[r].slots = {} /\ lease'[r].tokens = {}
           /\ r \notin rs => lease'[r] = lease[r]
    BY <1>1, <1>2, <1>3
  <1>6. \A s \in Scopes :
           /\ bucket'[s] \in BucketRow
           /\ bucket'[s].used = Most(0, bucket[s].used - Cardinality({r \in rs : s \in lease[r].slots}))
           /\ bucket'[s].slot = bucket[s].slot /\ bucket'[s].tokens = bucket[s].tokens
    <2> SUFFICES ASSUME NEW s \in Scopes
                 PROVE  LET c == releaseBucket(s, rs, t) IN
                   /\ c \in BucketRow
                   /\ c.used = Most(0, bucket[s].used - Cardinality({r \in rs : s \in lease[r].slots}))
                   /\ c.slot = bucket[s].slot /\ c.tokens = bucket[s].tokens
      BY <1>1
    <2> QED
      BY <1>3, ReleasedRow
  <1>7. OnlyHeldHold'
    BY <1>5 DEF IInv, OnlyHeldHold
  <1>8. SlotsMatchLeases'
    <2> SUFFICES ASSUME NEW s \in Scopes
                 PROVE  bucket'[s].used = Cardinality({r \in Requests : s \in lease'[r].slots})
      BY DEF SlotsMatchLeases
    <2> DEFINE S == {r \in Requests : s \in lease[r].slots}
    <2>1. {r \in Requests : s \in lease'[r].slots} = S \ rs
      BY <1>5
    <2>2. {r \in rs : s \in lease[r].slots} = S \cap rs
      OBVIOUS
    <2>3. bucket[s].used = Cardinality(S)
      BY DEF IInv, SlotsMatchLeases
    <2>4. S \in SUBSET Requests /\ S \ rs \in SUBSET Requests /\ S \cap rs \in SUBSET Requests
      OBVIOUS
    <2> HIDE DEF S
    <2>5. /\ IsFiniteSet(S) /\ Cardinality(S) \in Nat
          /\ Cardinality(S \ rs) \in Nat /\ Cardinality(S \cap rs) \in Nat
      BY <2>4, FiniteRequests
    <2>6. Cardinality(S \ rs) = Cardinality(S) - Cardinality(S \cap rs)
      BY <2>5, FS_Difference
    <2>7. bucket'[s].used = Most(0, Cardinality(S) - Cardinality(S \cap rs))
      BY <1>6, <2>2, <2>3
    <2>8. bucket'[s].used = Cardinality(S \ rs)
      BY <2>5, <2>6, <2>7 DEF Most
    <2> QED
      BY <2>1, <2>8, Zenon
  <1>9. HoldsHaveRows'
    <2>1. ASSUME NEW r \in Requests PROVE RowsExist(r)'
      <3>1. RowsExist(r) /\ lease[r].slots \subseteq Scopes /\ lease[r].tokens \subseteq Scopes
        BY DEF IInv, HoldsHaveRows, TypeOK, LeaseRow
      <3>2. lease'[r].slots \subseteq lease[r].slots /\ lease'[r].tokens \subseteq lease[r].tokens
        BY <1>5
      <3>3. /\ \A s \in lease'[r].slots : bucket'[s].slot = bucket[s].slot
            /\ \A s \in lease'[r].tokens : bucket'[s].tokens = bucket[s].tokens
        BY <1>6, <3>1, <3>2
      <3> QED
        BY <3>1, <3>2, <3>3 DEF RowsExist
    <2> QED
      BY <2>1 DEF HoldsHaveRows
  <1>10. bucket' \in [Scopes -> BucketRow]
    <2>1. bucket' = [s \in Scopes |-> bucket'[s]]
      BY <1>1
    <2> QED
      BY <1>6, <2>1
  <1> QED
    BY <1>4, <1>7, <1>8, <1>9, <1>10 DEF HoldsInv

(* Resolution evicts entries nobody holds, and never a scope it reserves   *)
(* in.                                                                     *)
LEMMA ResolutionFacts ==
    ASSUME NEW plan \in Plans, NEW t, NEW x \in Resolutions(plan, t)
    PROVE  /\ x.evict \subseteq SourceScopes /\ x.scopes \subseteq Scopes
           /\ x.evict \cap x.scopes = {}
           /\ \A s \in x.evict : Holders(s) = {}
  <1> DEFINE new == (plan.scopes \cap SourceScopes) \ InTable
             keep == [evict |-> {}, scopes |-> plan.scopes]
             over == (plan.scopes \ new) \cup {Overflow[s] : s \in new}
  <1>1. plan \in Plan /\ plan.scopes \subseteq Scopes
    BY LeaseAssumption DEF Plan
  <1>2. CASE x = keep
    BY <1>1, <1>2
  <1>3. CASE new # {} /\ \E v \in Victims(t) : x = [keep EXCEPT !.evict = {v}]
    <2>1. PICK v \in Victims(t) : x = [keep EXCEPT !.evict = {v}]
      BY <1>3
    <2>2. x.evict = {v} /\ x.scopes = plan.scopes
      BY <2>1
    <2>3. v \in SourceScopes /\ v \in InTable /\ Holders(v) = {}
      BY DEF Victims, InTable, safeIdleSourceScope
    <2>4. PICK s \in new : TRUE
      BY <1>3
    <2>5. plan.scopes \cap SourceScopes = {s} /\ s \notin InTable
      BY <2>4, LeaseAssumption
    <2>6. v \notin plan.scopes
      BY <2>3, <2>5
    <2> QED
      BY <1>1, <2>2, <2>3, <2>6
  <1>4. CASE x = [keep EXCEPT !.scopes = over]
    <2>1. x.evict = {} /\ x.scopes = over
      BY <1>4
    <2>2. \A s \in new : Overflow[s] \in Scopes
      BY LeaseAssumption
    <2> QED
      BY <1>1, <2>1, <2>2
  <1>5. x = keep \/ (new # {} /\ \E v \in Victims(t) : x = [keep EXCEPT !.evict = {v}])
                 \/ x = [keep EXCEPT !.scopes = over]
    BY DEF Resolutions
  <1> QED
    BY <1>2, <1>3, <1>4, <1>5

LEMMA ProvisionKeeps ==
    ASSUME IInv, NEW r \in Requests, NEW p \in Procs, NEW plan \in Plans,
           NEW t \in Nat, NEW told \in BOOLEAN, Provision(r, p, plan, t, told)
    PROVE  /\ HoldsInv'
           /\ bucket' \in [Scopes -> BucketRow] /\ source' \in [SourceScopes -> Nat]
           /\ lease' \in [Requests -> LeaseRow] /\ req' \in [Requests -> Request]
  <1> DEFINE New(x) == [state |-> "reserved", node |-> NodeOf[p], epoch |-> proc[p].epoch,
                        expires |-> t + TTL, plan |-> plan,
                        slots |-> {s \in x.scopes : shouldReserveConcurrency(plan, s)},
                        tokens |-> {s \in x.scopes : plan.burst[s] > 0}]
  <1>1. PICK x \in Resolutions(plan, t) :
          /\ bucket' = [s \in Scopes |-> IF s \in x.evict THEN NoRow
                           ELSE IF s \in x.scopes THEN Reserved(bucket[s], plan, s, t)
                           ELSE bucket[s]]
          /\ source' = [s \in SourceScopes |-> IF s \in x.evict THEN 0
                           ELSE IF s \in x.scopes THEN t ELSE source[s]]
          /\ lease' = [lease EXCEPT ![r] = New(x)]
    BY DEF Provision
  <1> DEFINE l == New(x)
  <1>2. /\ x.evict \subseteq SourceScopes /\ x.scopes \subseteq Scopes
        /\ x.evict \cap x.scopes = {}
        /\ \A s \in x.evict : Holders(s) = {}
    BY ResolutionFacts
  <1>3. TypeOK /\ plan \in Plan /\ t + TTL \in Nat /\ NodeOf[p] \in Nodes
    BY LeaseAssumption DEF IInv
  <1>4. /\ l \in LeaseRow /\ l.state = "reserved"
        /\ l.slots = {s \in x.scopes : shouldReserveConcurrency(plan, s)}
        /\ l.tokens = {s \in x.scopes : plan.burst[s] > 0}
    <2>1. proc[p].epoch \in Nat
      BY <1>3 DEF TypeOK, Process
    <2> QED
      BY <1>2, <1>3, <2>1 DEF LeaseRow, LeaseState, Held
  <1>5. lease' = [lease EXCEPT ![r] = l]
    BY <1>1
  <1> HIDE DEF l, New
  <1>6. /\ lease' \in [Requests -> LeaseRow] /\ lease'[r] = l
        /\ \A q \in Requests \ {r} : lease'[q] = lease[q]
    BY <1>3, <1>4, <1>5 DEF TypeOK
  <1>7. lease[r].slots = {} /\ lease[r].tokens = {}
    BY DEF Provision, IInv, OnlyHeldHold, Held
  <1>8. \A s \in Scopes :
           LET c == Reserved(bucket[s], plan, s, t) IN
           /\ c \in BucketRow
           /\ c.used = IF shouldReserveConcurrency(plan, s) THEN bucket[s].used + 1 ELSE bucket[s].used
           /\ shouldReserveConcurrency(plan, s) \/ bucket[s].slot => c.slot
           /\ plan.burst[s] > 0 \/ bucket[s].tokens => c.tokens
    BY <1>3, ReservedRow DEF TypeOK
  <1>9. bucket' \in [Scopes -> BucketRow]
    <2>1. NoRow \in BucketRow
      BY DEF NoRow, BucketRow
    <2>2. \A s \in Scopes : bucket[s] \in BucketRow
      BY <1>3 DEF TypeOK
    <2> QED
      BY <1>1, <1>8, <2>1, <2>2
  <1>10. source' \in [SourceScopes -> Nat]
    BY <1>1, <1>3 DEF TypeOK
  <1>11. req' \in [Requests -> Request]
    <2>1. Granted(p, FALSE, FALSE, t + TTL) \in Request /\ NoReq \in Request
      BY <1>3 DEF Granted, NoReq, Request, PCs
    <2> QED
      BY <1>3, <2>1 DEF Provision, TypeOK
  <1>12. OnlyHeldHold'
    BY <1>4, <1>6 DEF IInv, OnlyHeldHold, Held
  <1>13. SlotsMatchLeases'
    <2> SUFFICES ASSUME NEW s \in Scopes
                 PROVE  bucket'[s].used = Cardinality({q \in Requests : s \in lease'[q].slots})
      BY DEF SlotsMatchLeases
    <2> DEFINE S == {q \in Requests : s \in lease[q].slots}
               T == {q \in Requests : s \in lease'[q].slots}
    <2>1. bucket[s].used = Cardinality(S) /\ r \notin S
      BY <1>7 DEF IInv, SlotsMatchLeases
    <2>2. CASE s \in x.evict
      <3>1. s \notin l.slots
        BY <1>2, <1>4, <2>2
      <3>2. T = {}
        BY <1>2, <1>6, <2>2, <3>1, NoHolders
      <3>3. bucket'[s].used = 0
        BY <1>1, <2>2 DEF NoRow
      <3> QED
        BY <3>2, <3>3, FS_EmptySet
    <2>3. CASE s \in l.slots
      <3>1. T = S \cup {r}
        BY <1>6, <2>3
      <3>2. bucket'[s] = Reserved(bucket[s], plan, s, t) /\ shouldReserveConcurrency(plan, s)
        BY <1>1, <1>2, <1>4, <2>3
      <3>3. bucket'[s].used = bucket[s].used + 1
        BY <1>8, <3>2
      <3>4. S \in SUBSET Requests
        OBVIOUS
      <3> HIDE DEF S
      <3>5. Cardinality(S \cup {r}) = Cardinality(S) + 1
        BY <2>1, <3>4, FiniteRequests, FS_AddElement
      <3> QED
        BY <2>1, <3>1, <3>3, <3>5
    <2>4. CASE s \notin x.evict /\ s \notin l.slots
      <3>1. T = S
        BY <1>6, <1>7, <2>4
      <3>2. CASE s \in x.scopes
        <4>1. bucket'[s] = Reserved(bucket[s], plan, s, t) /\ ~shouldReserveConcurrency(plan, s)
          BY <1>1, <1>4, <2>4, <3>2
        <4> QED
          BY <1>8, <2>1, <3>1, <4>1
      <3>3. CASE s \notin x.scopes
        BY <1>1, <2>1, <2>4, <3>1, <3>3
      <3> QED
        BY <3>2, <3>3
    <2> QED
      BY <2>2, <2>3, <2>4
  <1>14. HoldsHaveRows'
    <2> SUFFICES ASSUME NEW q \in Requests PROVE RowsExist(q)'
      BY DEF HoldsHaveRows
    <2>1. CASE q = r
      <3>1. \A s \in l.slots \cup l.tokens : bucket'[s] = Reserved(bucket[s], plan, s, t)
        BY <1>1, <1>2, <1>4
      <3>2. ASSUME NEW s \in l.slots PROVE bucket'[s].slot
        <4>1. s \in Scopes /\ shouldReserveConcurrency(plan, s)
          BY <1>2, <1>4
        <4> QED
          BY <1>8, <3>1, <4>1
      <3>3. ASSUME NEW s \in l.tokens PROVE bucket'[s].tokens
        <4>1. s \in Scopes /\ plan.burst[s] > 0
          BY <1>2, <1>4
        <4> QED
          BY <1>8, <3>1, <4>1
      <3>4. lease'[q] = l
        BY <1>6, <2>1
      <3>5. /\ \A s \in lease'[q].slots : bucket'[s].slot
            /\ \A s \in lease'[q].tokens : bucket'[s].tokens
        BY <3>2, <3>3, <3>4
      <3> QED
        BY <3>5 DEF RowsExist
    <2>2. CASE q # r
      <3>1. /\ RowsExist(q) /\ lease'[q] = lease[q]
            /\ lease[q].slots \subseteq Scopes /\ lease[q].tokens \subseteq Scopes
        BY <1>6, <2>2 DEF IInv, HoldsHaveRows, TypeOK, LeaseRow
      <3>2. \A s \in x.evict : s \notin lease[q].slots /\ s \notin lease[q].tokens
        BY <1>2, NoHolders, LeaseAssumption
      <3>3. \A s \in Scopes \ x.evict : /\ bucket[s].slot => bucket'[s].slot
                                        /\ bucket[s].tokens => bucket'[s].tokens
        BY <1>1, <1>8
      <3>4. /\ \A s \in lease[q].slots : s \in Scopes \ x.evict /\ bucket[s].slot
            /\ \A s \in lease[q].tokens : s \in Scopes \ x.evict /\ bucket[s].tokens
        BY <3>1, <3>2 DEF RowsExist
      <3>5. /\ \A s \in lease'[q].slots : bucket'[s].slot
            /\ \A s \in lease'[q].tokens : bucket'[s].tokens
        BY <3>1, <3>3, <3>4
      <3> QED
        BY <3>5 DEF RowsExist
    <2> QED
      BY <2>1, <2>2
  <1> QED
    BY <1>6, <1>9, <1>10, <1>11, <1>12, <1>13, <1>14 DEF HoldsInv

-----------------------------------------------------------------------------
(***************************************************************************)
(* Each action keeps the invariant.                                        *)
(***************************************************************************)
LEMMA InitIInv == Init => IInv
  <1> SUFFICES ASSUME Init PROVE IInv
    OBVIOUS
  <1>1. NoLease \in LeaseRow /\ NoReq \in Request /\ NoRow \in BucketRow
    <2>1. NoPlan \in Plan
      BY DEF NoPlan, Plan
    <2> QED
      BY <2>1 DEF NoLease, NoReq, NoRow, LeaseRow, Request, BucketRow, LeaseState, PCs
  <1>2. TypeOK
    BY <1>1 DEF Init, TypeOK, MemberRow, Process
  <1>3. OnlyHeldHold /\ HoldsHaveRows
    BY DEF Init, OnlyHeldHold, HoldsHaveRows, RowsExist, NoLease
  <1>4. SlotsMatchLeases
    <2> SUFFICES ASSUME NEW s \in Scopes
                 PROVE  bucket[s].used = Cardinality({r \in Requests : s \in lease[r].slots})
      BY DEF SlotsMatchLeases
    <2>1. bucket[s].used = 0
      BY DEF Init, NoRow
    <2>2. {r \in Requests : s \in lease[r].slots} = {}
      BY DEF Init, NoLease
    <2> QED
      BY <2>1, <2>2, FS_EmptySet
  <1> QED
    BY <1>2, <1>3, <1>4 DEF IInv

LEMMA HoldsSame ==
    ASSUME IInv, lease' = lease, bucket' = bucket
    PROVE  HoldsInv'
  BY HoldsKept

LEMMA FencedType ==
    ASSUME TypeOK, NEW p, NEW c
    PROVE  FencedIf(p, c) \in [Procs -> Process]
  BY DEF FencedIf, TypeOK, Process

(* Membership leaves leases and buckets alone.                             *)
LEMMA MembershipKeeps ==
    ASSUME IInv, NEW p \in Procs,
           \/ Register(p) \/ Heartbeat(p) \/ MarkDraining(p) \/ Close(p) \/ Crash(p)
           \/ FindFenced(p)
    PROVE  IInv'
  <1>1. lease' = lease /\ bucket' = bucket /\ source' = source /\ now' = now
    BY DEF Register, Heartbeat, MarkDraining, Close, Crash, FindFenced
  <1>2. TypeOK /\ NodeOf[p] \in Nodes
    BY LeaseAssumption DEF IInv
  <1>3. member' \in [Nodes -> MemberRow]
    <2> DEFINE row == member[NodeOf[p]]
               fresh == [epoch |-> row.epoch + 1, state |-> "ready", seen |-> now]
               beat == [row EXCEPT !.seen = now]
               drain == [row EXCEPT !.state = "draining", !.seen = now]
               stop == [row EXCEPT !.state = "stopped", !.seen = now]
    <2>1. row \in MemberRow /\ now \in Nat
      BY <1>2 DEF TypeOK
    <2>2. fresh \in MemberRow /\ beat \in MemberRow /\ drain \in MemberRow /\ stop \in MemberRow
      <3> HIDE DEF row
      <3>1. row.epoch \in Nat /\ row.epoch + 1 \in Nat
        BY <2>1 DEF MemberRow
      <3>2. fresh \in MemberRow
        BY <2>1, <3>1 DEF MemberRow
      <3>3. beat \in MemberRow
        BY <2>1 DEF MemberRow
      <3>4. drain \in MemberRow
        BY <2>1 DEF MemberRow
      <3>5. stop \in MemberRow
        BY <2>1 DEF MemberRow
      <3> QED
        BY <3>2, <3>3, <3>4, <3>5
    <2>3. \/ member' = member
          \/ \E m \in {fresh, beat, drain, stop} : member' = [member EXCEPT ![NodeOf[p]] = m]
      <3>1. CASE Register(p)
        BY <3>1 DEF Register, RowOf
      <3>2. CASE Heartbeat(p)
        BY <3>2 DEF Heartbeat
      <3>3. CASE MarkDraining(p)
        BY <3>3 DEF MarkDraining
      <3>4. CASE Close(p)
        BY <3>4 DEF Close
      <3>5. CASE Crash(p) \/ FindFenced(p)
        BY <3>5 DEF Crash, FindFenced
      <3> QED
        BY <3>1, <3>2, <3>3, <3>4, <3>5
    <2> HIDE DEF fresh, beat, drain, stop
    <2> QED
      BY <1>2, <2>2, <2>3 DEF TypeOK
  <1>4. proc' \in [Procs -> Process]
    <2>1. CASE Register(p)
      BY <1>2, <2>1 DEF Register, RowOf, TypeOK, MemberRow, Process
    <2>2. CASE Heartbeat(p) \/ MarkDraining(p) \/ FindFenced(p)
      <3>1. proc' = proc \/ proc' = FencedIf(p, TRUE)
        BY <2>2 DEF Heartbeat, MarkDraining, FindFenced
      <3>2. FencedIf(p, TRUE) \in [Procs -> Process]
        BY <1>2, FencedType
      <3> QED
        BY <1>2, <3>1, <3>2 DEF TypeOK
    <2>3. CASE Close(p) \/ Crash(p)
      BY ZenonT(60), <1>2, <2>3 DEF Close, Crash, Exit, TypeOK, Process
    <2> QED
      BY <2>1, <2>2, <2>3
  <1>5. req' \in [Requests -> Request]
    <2>1. NoReq \in Request
      BY DEF NoReq, Request, PCs
    <2>2. CASE Close(p) \/ Crash(p)
      BY <1>2, <2>1, <2>2 DEF Close, Crash, Exit, TypeOK
    <2>3. CASE ~(Close(p) \/ Crash(p))
      BY <1>2, <2>3 DEF Register, Heartbeat, MarkDraining, FindFenced, TypeOK
    <2> QED
      BY <2>2, <2>3
  <1>6. TypeOK'
    BY <1>1, <1>2, <1>3, <1>4, <1>5 DEF TypeOK
  <1> QED
    BY <1>1, <1>6, HoldsSame DEF IInv, HoldsInv

(* A lease changes its state or expiry and keeps its holds.                *)
LEMMA LeaseMoved ==
    ASSUME IInv, NEW r \in Requests, NEW l \in LeaseRow,
           l.slots = lease[r].slots, l.tokens = lease[r].tokens,
           l.state \in Held, lease[r].state \in Held,
           lease' = [lease EXCEPT ![r] = l],
           \A s \in Scopes :
               /\ bucket'[s].used = bucket[s].used
               /\ bucket'[s].slot = bucket[s].slot /\ bucket'[s].tokens = bucket[s].tokens
    PROVE  HoldsInv' /\ lease' \in [Requests -> LeaseRow]
  <1>1. lease \in [Requests -> LeaseRow]
    BY DEF IInv, TypeOK
  <1>2. /\ lease' \in [Requests -> LeaseRow] /\ lease'[r] = l
        /\ \A q \in Requests \ {r} : lease'[q] = lease[q]
    BY <1>1
  <1>3. \A q \in Requests :
           /\ lease'[q].slots = lease[q].slots /\ lease'[q].tokens = lease[q].tokens
           /\ lease'[q].state \in Held <=> lease[q].state \in Held
    BY <1>2
  <1> QED
    BY <1>2, <1>3, HoldsKept

(* Steps that only the request itself sees.                                *)
LEMMA RequestAloneKeeps ==
    ASSUME IInv, NEW r \in Requests,
           \/ \E t \in TxStart, p \in Procs, plan \in Plans : Replay(r, p, plan, t)
           \/ AlreadyForwarded(r) \/ EndUpstream(r) \/ Fail(r)
           \/ \E t \in TxStart : SettleNothing(r, t)
    PROVE  IInv'
  <1>1. /\ lease' = lease /\ bucket' = bucket /\ source' = source /\ now' = now
        /\ member' = member
    BY DEF Replay, AlreadyForwarded, EndUpstream, SettleNothing, Fail
  <1>2. TypeOK /\ req[r] \in Request /\ lease[r] \in LeaseRow
    BY DEF IInv, TypeOK
  <1>3. proc' \in [Procs -> Process]
    <2>1. CASE Fail(r)
      <3>1. proc' = FencedIf(req[r].proc, Lapsed(req[r].proc))
        BY <2>1 DEF Fail
      <3> QED
        BY <1>2, <3>1, FencedType
    <2>2. CASE ~Fail(r)
      BY <1>2, <2>2 DEF Replay, AlreadyForwarded, EndUpstream, SettleNothing, TypeOK
    <2> QED
      BY <2>1, <2>2
  <1>4. \E q \in Request : req' = [req EXCEPT ![r] = q]
    <2>1. ASSUME NEW t \in TxStart, NEW p \in Procs, NEW plan \in Plans, Replay(r, p, plan, t)
          PROVE  \E q \in Request : req' = [req EXCEPT ![r] = q]
      <3>1. lease[r].expires \in Nat
        BY <1>2 DEF LeaseRow
      <3>2. Granted(p, lease[r].state = "forwarded", lease[r].state = "settled",
                    lease[r].expires) \in Request
        BY <3>1 DEF Granted, Request, PCs
      <3> QED
        BY <2>1, <3>2 DEF Replay
    <2>2. CASE AlreadyForwarded(r)
      <3>1. [req[r] EXCEPT !.pc = "upstream"] \in Request
        BY <1>2 DEF Request, PCs
      <3> QED
        BY <2>2, <3>1 DEF AlreadyForwarded
    <2>3. CASE EndUpstream(r)
      <3>1. /\ [req[r] EXCEPT !.pc = "settling"] \in Request
            /\ [req[r] EXCEPT !.pc = "releasing"] \in Request
        BY <1>2 DEF Request, PCs
      <3> QED
        BY <2>3, <3>1 DEF EndUpstream
    <2>4. CASE \E t \in TxStart : SettleNothing(r, t)
      <3>1. [req[r] EXCEPT !.pc = "releasing", !.settled = TRUE] \in Request
        BY <1>2 DEF Request, PCs
      <3> QED
        BY <2>4, <3>1 DEF SettleNothing
    <2>5. CASE Fail(r)
      <3>1. [req[r] EXCEPT !.pc = "releasing"] \in Request /\ NoReq \in Request
        BY <1>2 DEF NoReq, Request, PCs
      <3> QED
        BY <2>5, <3>1 DEF Fail
    <2> QED
      BY <2>1, <2>2, <2>3, <2>4, <2>5
  <1>5. TypeOK'
    BY <1>1, <1>2, <1>3, <1>4 DEF TypeOK
  <1> QED
    BY <1>1, <1>5, HoldsSame DEF IInv, HoldsInv

LEMMA MarkForwardedKeeps ==
    ASSUME IInv, NEW r \in Requests, NEW t \in Nat, NEW told \in BOOLEAN,
           MarkForwarded(r, t, told)
    PROVE  IInv'
  <1> DEFINE l == [lease[r] EXCEPT !.state = "forwarded"]
             q == IF told THEN [req[r] EXCEPT !.pc = "upstream", !.forwarded = TRUE,
                                              !.expires = lease[r].expires]
                  ELSE [req[r] EXCEPT !.pc = "releasing"]
  <1>1. TypeOK /\ req[r] \in Request /\ lease[r] \in LeaseRow
    BY DEF IInv, TypeOK
  <1>2. /\ l \in LeaseRow /\ l.slots = lease[r].slots /\ l.tokens = lease[r].tokens
        /\ l.state \in Held
    BY <1>1 DEF LeaseRow, LeaseState, Held
  <1>3. q \in Request
    <2>1. lease[r].expires \in Nat
      BY <1>1 DEF LeaseRow
    <2> QED
      BY <1>1, <2>1 DEF Request, PCs
  <1>4. /\ lease' = [lease EXCEPT ![r] = l] /\ req' = [req EXCEPT ![r] = q]
        /\ lease[r].state \in Held
        /\ UNCHANGED <<now, member, proc, bucket, source>>
    BY DEF MarkForwarded, Held
  <1> HIDE DEF l, q
  <1>5. HoldsInv' /\ lease' \in [Requests -> LeaseRow]
    BY <1>2, <1>4, LeaseMoved
  <1>6. TypeOK'
    BY <1>1, <1>3, <1>4, <1>5 DEF TypeOK
  <1> QED
    BY <1>5, <1>6 DEF IInv, HoldsInv

LEMMA RenewKeeps ==
    ASSUME IInv, NEW r \in Requests, NEW t \in Nat, NEW told \in BOOLEAN, Renew(r, t, told)
    PROVE  IInv'
  <1> DEFINE l == [lease[r] EXCEPT !.expires = t + TTL]
             q == [req[r] EXCEPT !.expires = IF told THEN t + TTL ELSE @]
  <1>1. TypeOK /\ req[r] \in Request /\ lease[r] \in LeaseRow /\ t + TTL \in Nat
    BY LeaseAssumption DEF IInv, TypeOK
  <1>2. /\ lease' = [lease EXCEPT ![r] = l] /\ req' = [req EXCEPT ![r] = q]
        /\ lease[r].state \in Held
        /\ UNCHANGED <<now, member, proc, bucket, source>>
    BY DEF Renew, Held
  <1>3. /\ l \in LeaseRow /\ l.slots = lease[r].slots /\ l.tokens = lease[r].tokens
        /\ l.state \in Held
    BY <1>1, <1>2 DEF LeaseRow
  <1>4. q \in Request
    BY <1>1 DEF Request
  <1> HIDE DEF l, q
  <1>5. HoldsInv' /\ lease' \in [Requests -> LeaseRow]
    BY <1>2, <1>3, LeaseMoved
  <1>6. TypeOK'
    BY <1>1, <1>2, <1>4, <1>5 DEF TypeOK
  <1> QED
    BY <1>5, <1>6 DEF IInv, HoldsInv

LEMMA SettleKeeps ==
    ASSUME IInv, NEW r \in Requests, NEW actual \in Actuals, NEW t \in Nat,
           NEW told \in BOOLEAN, Settle(r, actual, t, told)
    PROVE  IInv'
  <1> DEFINE l == [lease[r] EXCEPT !.state = "settled"]
             q == [req[r] EXCEPT !.pc = "releasing", !.settled = told]
  <1>1. TypeOK /\ req[r] \in Request /\ lease[r] \in LeaseRow /\ actual \in Nat
    BY LeaseAssumption DEF IInv, TypeOK
  <1>2. /\ lease' = [lease EXCEPT ![r] = l] /\ req' = [req EXCEPT ![r] = q]
        /\ lease[r].state \in Held
        /\ bucket' = [s \in Scopes |-> IF s \in lease[r].tokens
                                       THEN settleBucket(bucket[s], actual, t) ELSE bucket[s]]
        /\ UNCHANGED <<now, member, proc, source>>
    BY DEF Settle, Held
  <1>3. /\ l \in LeaseRow /\ l.slots = lease[r].slots /\ l.tokens = lease[r].tokens
        /\ l.state \in Held
    BY <1>1 DEF LeaseRow, LeaseState, Held
  <1>4. q \in Request
    BY <1>1 DEF Request, PCs
  <1> HIDE DEF l, q
  <1>5. \A s \in Scopes :
           LET c == settleBucket(bucket[s], actual, t) IN
           /\ c \in BucketRow
           /\ c.used = bucket[s].used /\ c.slot = bucket[s].slot /\ c.tokens = bucket[s].tokens
    BY <1>1, SettledRow DEF TypeOK
  <1>6. \A s \in Scopes :
           /\ bucket'[s].used = bucket[s].used
           /\ bucket'[s].slot = bucket[s].slot /\ bucket'[s].tokens = bucket[s].tokens
    BY <1>2, <1>5
  <1>7. bucket' \in [Scopes -> BucketRow]
    <2>1. \A s \in Scopes : bucket[s] \in BucketRow
      BY <1>1 DEF TypeOK
    <2> QED
      BY <1>2, <1>5, <2>1
  <1>8. HoldsInv' /\ lease' \in [Requests -> LeaseRow]
    BY <1>2, <1>3, <1>6, LeaseMoved
  <1>9. TypeOK'
    BY <1>1, <1>2, <1>4, <1>7, <1>8 DEF TypeOK
  <1> QED
    BY <1>8, <1>9 DEF IInv, HoldsInv

LEMMA ReleaseKeeps ==
    ASSUME IInv, NEW r \in Requests, NEW t \in Nat, Release(r, t)
    PROVE  IInv'
  <1>1. TypeOK /\ NoReq \in Request
    BY DEF IInv, NoReq, Request, PCs
  <1>2. req' = [req EXCEPT ![r] = NoReq] /\ UNCHANGED <<now, member, proc, source>>
    BY DEF Release
  <1>3. HoldsInv' /\ bucket' \in [Scopes -> BucketRow] /\ lease' \in [Requests -> LeaseRow]
    <2>1. CASE Released({r}, t)
      <3>1. {r} \in SUBSET Requests
        OBVIOUS
      <3> QED
        BY <2>1, <3>1, ReleasedKeeps
    <2>2. CASE UNCHANGED <<bucket, lease>>
      BY <1>1, <2>2, HoldsSame DEF TypeOK
    <2> QED
      BY <2>1, <2>2 DEF Release
  <1>4. TypeOK'
    BY <1>1, <1>2, <1>3 DEF TypeOK
  <1> QED
    BY <1>3, <1>4 DEF IInv, HoldsInv

LEMMA ReapKeeps ==
    ASSUME IInv, NEW p \in Procs, NEW t \in Nat, Reap(p, t)
    PROVE  IInv'
  <1> DEFINE expired == {r \in Requests : lease[r].state \in Held /\ lease[r].expires <= t}
  <1>1. Released(expired, t) /\ UNCHANGED <<now, member, proc, source, req>>
    BY DEF Reap
  <1>2. expired \in SUBSET Requests
    OBVIOUS
  <1> HIDE DEF expired
  <1>3. HoldsInv' /\ bucket' \in [Scopes -> BucketRow] /\ lease' \in [Requests -> LeaseRow]
    BY <1>1, <1>2, ReleasedKeeps
  <1>4. TypeOK'
    BY <1>1, <1>3 DEF IInv, TypeOK
  <1> QED
    BY <1>3, <1>4 DEF IInv, HoldsInv

LEMMA RemoveScopeKeeps ==
    ASSUME IInv, NEW p \in Procs, NEW s \in Removable, RemoveScope(p, s)
    PROVE  IInv'
  <1>1. s \in Scopes /\ TypeOK
    BY LeaseAssumption DEF IInv
  <1>2. bucket' = [u \in Scopes |-> IF u \in {s} THEN NoRow ELSE bucket[u]]
    BY <1>1 DEF RemoveScope, TypeOK
  <1>3. /\ lease' = lease /\ \A u \in {s} : Holders(u) = {}
        /\ UNCHANGED <<now, member, proc, source, req>>
    BY DEF RemoveScope
  <1>4. HoldsInv' /\ bucket' \in [Scopes -> BucketRow]
    BY <1>1, <1>2, <1>3, RowsDeleted
  <1>5. TypeOK'
    BY <1>1, <1>3, <1>4 DEF TypeOK
  <1> QED
    BY <1>4, <1>5 DEF IInv, HoldsInv

LEMMA MaintainSourcesKeeps ==
    ASSUME IInv, MaintainSources
    PROVE  IInv'
  <1> DEFINE idle == {s \in SourceScopes : safeIdleSourceScope(s, now)}
  <1>1. /\ bucket' = [s \in Scopes |-> IF s \in idle THEN NoRow ELSE bucket[s]]
        /\ source' = [s \in SourceScopes |-> IF s \in idle THEN 0 ELSE source[s]]
        /\ lease' = lease /\ UNCHANGED <<now, member, proc, req>>
    BY DEF MaintainSources
  <1>2. idle \in SUBSET Scopes /\ TypeOK
    BY LeaseAssumption DEF IInv
  <1>3. \A s \in idle : Holders(s) = {}
    BY DEF safeIdleSourceScope
  <1> HIDE DEF idle
  <1>4. HoldsInv' /\ bucket' \in [Scopes -> BucketRow]
    BY <1>1, <1>2, <1>3, RowsDeleted
  <1>5. source' \in [SourceScopes -> Nat]
    BY <1>1, <1>2 DEF TypeOK
  <1>6. TypeOK'
    BY <1>1, <1>2, <1>4, <1>5 DEF TypeOK
  <1> QED
    BY <1>4, <1>6 DEF IInv, HoldsInv

LEMMA TxStartNat == ASSUME TypeOK PROVE TxStart \subseteq Nat
  BY DEF TxStart, TypeOK

LEMMA NextIInv == IInv /\ [Next]_vars => IInv'
  <1> SUFFICES ASSUME IInv, [Next]_vars PROVE IInv'
    OBVIOUS
  <1>1. TxStart \subseteq Nat
    BY TxStartNat DEF IInv
  <1>2. ASSUME NEW r \in Requests, RequestStep(r) PROVE IInv'
    <2>1. ASSUME NEW t \in TxStart, NEW told \in BOOLEAN, NEW p \in Procs, NEW plan \in Plans,
                 Provision(r, p, plan, t, told)
          PROVE  IInv'
      <3>1. t \in Nat
        BY <1>1
      <3>2. /\ HoldsInv'
            /\ bucket' \in [Scopes -> BucketRow] /\ source' \in [SourceScopes -> Nat]
            /\ lease' \in [Requests -> LeaseRow] /\ req' \in [Requests -> Request]
        BY <2>1, <3>1, ProvisionKeeps
      <3>3. UNCHANGED <<now, member, proc>>
        BY <2>1 DEF Provision
      <3>4. TypeOK'
        BY <3>2, <3>3 DEF IInv, TypeOK
      <3> QED
        BY <3>2, <3>4 DEF IInv, HoldsInv
    <2>2. ASSUME NEW t \in TxStart, NEW told \in BOOLEAN,
                 \/ MarkForwarded(r, t, told) \/ Renew(r, t, told)
                 \/ \E actual \in Actuals : Settle(r, actual, t, told)
          PROVE  IInv'
      BY <1>1, <2>2, MarkForwardedKeeps, RenewKeeps, SettleKeeps
    <2>3. ASSUME NEW t \in TxStart, NEW p \in Procs, NEW plan \in Plans, Replay(r, p, plan, t)
          PROVE  IInv'
      BY <2>3, RequestAloneKeeps
    <2>4. ASSUME NEW t \in TxStart, Release(r, t) PROVE IInv'
      BY <1>1, <2>4, ReleaseKeeps
    <2>5. ASSUME \/ AlreadyForwarded(r) \/ EndUpstream(r) \/ Fail(r)
                 \/ \E t \in TxStart : SettleNothing(r, t)
          PROVE  IInv'
      BY <2>5, RequestAloneKeeps
    <2> QED
      BY <1>2, <2>1, <2>2, <2>3, <2>4, <2>5 DEF RequestStep
  <1>3. ASSUME NEW p \in Procs, ProcStep(p) PROVE IInv'
    <2>1. ASSUME NEW t \in TxStart, Reap(p, t) PROVE IInv'
      BY <1>1, <2>1, ReapKeeps
    <2>2. ASSUME NEW s \in Removable, RemoveScope(p, s) PROVE IInv'
      BY <2>2, RemoveScopeKeeps
    <2> QED
      BY <1>3, <2>1, <2>2, MembershipKeeps DEF ProcStep
  <1>4. CASE MaintainSources
    BY <1>4, MaintainSourcesKeeps
  <1>5. CASE Tick
    <2>1. UNCHANGED <<member, proc, bucket, source, lease, req>> /\ now' = now + 1
      BY <1>5 DEF Tick
    <2>2. TypeOK'
      BY <2>1 DEF IInv, TypeOK
    <2> QED
      BY <2>1, <2>2, HoldsSame DEF IInv, HoldsInv
  <1>6. CASE UNCHANGED vars
    <2>1. UNCHANGED <<now, member, proc, bucket, source, lease, req>>
      BY <1>6 DEF vars
    <2>2. TypeOK'
      BY <2>1 DEF IInv, TypeOK
    <2> QED
      BY <2>1, <2>2, HoldsSame DEF IInv, HoldsInv
  <1> QED
    BY <1>2, <1>3, <1>4, <1>5, <1>6 DEF Next

(* The inductive invariant holds in every reachable state.                 *)
THEOREM Invariance == Spec => []IInv
  BY InitIInv, NextIInv, PTL DEF Spec

(* Membership, processes, bucket rows, leases and handles stay well typed; *)
(* in particular concurrency_used never goes negative (releaseBucket).     *)
THEOREM TypeCorrect == Spec => []TypeOK
  <1>1. IInv => TypeOK
    BY DEF IInv
  <1> QED
    BY <1>1, Invariance, PTL

(* INV-15 in a cluster: concurrency_used is the number of leases that hold *)
(* a slot, whatever crashes, expires, is reaped, replayed or evicted.      *)
THEOREM SlotAccounting == Spec => []SlotsMatchLeases
  <1>1. IInv => SlotsMatchLeases
    BY DEF IInv
  <1> QED
    BY <1>1, Invariance, PTL

(* Eviction, maintenance and scope removal never delete the rows of a live *)
(* hold, so settlement and release never miss a row.                       *)
THEOREM HoldsKeepTheirRows == Spec => []HoldsHaveRows
  <1>1. IInv => HoldsHaveRows
    BY DEF IInv
  <1> QED
    BY <1>1, Invariance, PTL

-----------------------------------------------------------------------------
(***************************************************************************)
(* Who moves a lease on.                                                   *)
(***************************************************************************)
(* Only the three transitions of a live handle change a lease otherwise.   *)
LEMMA LeaseChanges ==
    ASSUME IInv, [Next]_vars, NEW r \in Requests,
           lease'[r] # lease[r], lease'[r].state # "released", lease[r].state # "none"
    PROVE  \E t \in TxStart, told \in BOOLEAN :
              \/ MarkForwarded(r, t, told) \/ Renew(r, t, told)
              \/ \E actual \in Actuals : Settle(r, actual, t, told)
  <1>1. lease \in [Requests -> LeaseRow]
    BY DEF IInv, TypeOK
  <1>2. ASSUME NEW rs \in SUBSET Requests, NEW t, Released(rs, t) PROVE FALSE
    <2>1. lease[r] \in LeaseRow
      BY <1>1
    <2>2. CASE r \in rs
      <3>1. lease'[r] = [lease[r] EXCEPT !.state = "released", !.slots = {}, !.tokens = {},
                                         !.plan = NoPlan, !.expires = 0]
        BY <1>2, <2>2 DEF Released
      <3> QED
        BY <2>1, <3>1, ReleasedLease
    <2>3. CASE r \notin rs
      BY <1>2, <2>3 DEF Released
    <2> QED
      BY <2>2, <2>3
  <1>3. ASSUME NEW p \in Procs, ProcStep(p) PROVE FALSE
    <2>1. ASSUME NEW t, Reap(p, t) PROVE FALSE
      <3> DEFINE expired == {q \in Requests : lease[q].state \in Held /\ lease[q].expires <= t}
      <3>1. Released(expired, t) /\ expired \in SUBSET Requests
        BY <2>1 DEF Reap
      <3> QED
        BY <1>2, <3>1
    <2>2. CASE \/ Register(p) \/ Heartbeat(p) \/ MarkDraining(p) \/ Close(p) \/ Crash(p)
               \/ FindFenced(p) \/ \E s \in Removable : RemoveScope(p, s)
      BY <2>2 DEF Register, Heartbeat, MarkDraining, Close, Crash, FindFenced, RemoveScope
    <2> QED
      BY <1>3, <2>1, <2>2 DEF ProcStep
  <1>4. ~(MaintainSources \/ Tick \/ UNCHANGED vars)
    BY DEF MaintainSources, Tick, vars
  <1>5. PICK q \in Requests : RequestStep(q)
    BY <1>3, <1>4 DEF Next
  <1>6. ASSUME NEW p \in Procs, NEW plan \in Plans, NEW t, NEW told, Provision(q, p, plan, t, told)
        PROVE  FALSE
    <2>1. lease[q].state = "none" /\ \E l : lease' = [lease EXCEPT ![q] = l]
      BY <1>6 DEF Provision
    <2> QED
      BY <1>1, <2>1
  <1>7. ASSUME NEW t, Release(q, t) PROVE FALSE
    <2>1. Released({q}, t) \/ lease' = lease
      BY <1>7 DEF Release
    <2>2. {q} \in SUBSET Requests
      OBVIOUS
    <2> QED
      BY <1>2, <2>1, <2>2
  <1>8. ~(\/ AlreadyForwarded(q) \/ EndUpstream(q) \/ Fail(q)
          \/ (\E t \in TxStart, p \in Procs, plan \in Plans : Replay(q, p, plan, t))
          \/ (\E t \in TxStart : SettleNothing(q, t)))
    BY DEF AlreadyForwarded, EndUpstream, Fail, Replay, SettleNothing
  <1>9. PICK t \in TxStart, told \in BOOLEAN :
           \/ MarkForwarded(q, t, told) \/ Renew(q, t, told)
           \/ \E actual \in Actuals : Settle(q, actual, t, told)
    BY <1>5, <1>6, <1>7, <1>8 DEF RequestStep
  <1>10. \E l : lease' = [lease EXCEPT ![q] = l]
    BY <1>9 DEF MarkForwarded, Renew, Settle
  <1>11. q = r
    BY <1>1, <1>10
  <1> QED
    BY <1>9, <1>11

(* A process that lost its node, to a successor or by silence, cannot      *)
(* forward, renew or settle a lease (requireNodeOwnership in every         *)
(* transaction), and nobody can once it has expired.                       *)
THEOREM OwnershipFences == Spec => OnlyOwnerAdvances
  <1>1. ASSUME IInv, [Next]_vars
        PROVE  [\A r \in Requests :
                  lease'[r] # lease[r] /\ lease'[r].state # "released" /\ lease[r].state # "none"
                  => /\ member[lease[r].node].epoch = lease[r].epoch
                     /\ lease[r].expires > now - MaxLag]_vars
    <2> SUFFICES ASSUME NEW r \in Requests, lease'[r] # lease[r],
                        lease'[r].state # "released", lease[r].state # "none"
                 PROVE  /\ member[lease[r].node].epoch = lease[r].epoch
                        /\ lease[r].expires > now - MaxLag
      OBVIOUS
    <2>1. PICK t \in TxStart, told \in BOOLEAN :
             \/ MarkForwarded(r, t, told) \/ Renew(r, t, told)
             \/ \E actual \in Actuals : Settle(r, actual, t, told)
      BY <1>1, LeaseChanges
    <2>2. /\ Owns(req[r].proc, TRUE, t) \/ Owns(req[r].proc, FALSE, t)
          /\ Mine(r) /\ lease[r].expires > t
      BY <2>1 DEF MarkForwarded, Renew, Settle
    <2>3. Current(req[r].proc)
      BY <2>2 DEF Owns
    <2>4. member[lease[r].node].epoch = lease[r].epoch
      BY <2>2, <2>3 DEF Current, RowOf, Mine
    <2>5. lease[r].expires \in Nat /\ now \in Nat /\ MaxLag \in Nat /\ t \in Nat /\ now - MaxLag <= t
      BY <1>1, LeaseAssumption DEF IInv, TypeOK, LeaseRow, TxStart
    <2> QED
      BY <2>2, <2>4, <2>5
  <1> QED
    BY <1>1, Invariance, PTL DEF Spec, OnlyOwnerAdvances

-----------------------------------------------------------------------------
(***************************************************************************)
(* What a request was told of its lease.                                   *)
(***************************************************************************)
Working == {"granted", "upstream", "settling"}

(* A request at work belongs to a running process.                         *)
RunsInProc(r) ==
    req[r].pc # "idle" => req[r].proc \in Procs /\ proc[req[r].proc].up

(* No lease, and nothing a request was told, reaches further than a TTL    *)
(* from now.                                                               *)
NotTooFar(r) == lease[r].expires <= now + TTL /\ req[r].expires <= now + TTL

(* Up to a transaction's duration before the time it was told, its lease   *)
(* is held, its own, and does not expire earlier than that.                *)
Backed(r) ==
    req[r].pc \in Working /\ now + MaxLag < req[r].expires
    => /\ lease[r].state \in Held
       /\ lease[r].node = NodeOf[req[r].proc] /\ lease[r].epoch = proc[req[r].proc].epoch
       /\ req[r].expires <= lease[r].expires + MaxLag

RInv(r) == RunsInProc(r) /\ NotTooFar(r) /\ Backed(r)

(* A request that takes no part in a step keeps what it was told.          *)
LEMMA BystanderKeeps ==
    ASSUME TypeOK, NEW r \in Requests, RInv(r),
           req'[r] = req[r], lease'[r] = lease[r], now' = now,
           req[r].proc \in Procs /\ proc[req[r].proc].up
             => /\ proc'[req[r].proc].up
                /\ proc'[req[r].proc].epoch = proc[req[r].proc].epoch
    PROVE  RInv(r)'
  BY DEF RInv, RunsInProc, NotTooFar, Backed, Working

(* The clock only shortens what it was told.                               *)
LEMMA TickKeeps ==
    ASSUME TypeOK, NEW r \in Requests, RInv(r), Tick
    PROVE  RInv(r)'
  <1>1. /\ now \in Nat /\ now' = now + 1 /\ req' = req /\ lease' = lease /\ proc' = proc
        /\ lease[r].expires \in Nat /\ req[r].expires \in Nat /\ TTL \in Nat
        /\ MaxLag \in Nat
    BY LeaseAssumption DEF Tick, TypeOK, LeaseRow, Request
  <1>2. RunsInProc(r)'
    BY <1>1 DEF RInv, RunsInProc
  <1>3. NotTooFar(r)'
    BY <1>1 DEF RInv, NotTooFar
  <1>4. Backed(r)'
    BY <1>1 DEF RInv, Backed
  <1> QED
    BY <1>2, <1>3, <1>4 DEF RInv

(* Membership: a process that registers was not running, one that stops    *)
(* takes its requests with it.                                             *)
LEMMA MembershipRInv ==
    ASSUME TypeOK, NEW r \in Requests, RInv(r), NEW p \in Procs,
           \/ Register(p) \/ Heartbeat(p) \/ MarkDraining(p) \/ Close(p) \/ Crash(p)
           \/ FindFenced(p)
    PROVE  RInv(r)'
  <1>1. lease' = lease /\ now' = now
    BY DEF Register, Heartbeat, MarkDraining, Close, Crash, FindFenced
  <1>2. proc \in [Procs -> Process] /\ req \in [Requests -> Request]
    BY DEF TypeOK
  <1>3. CASE Register(p)
    <2>1. /\ ~proc[p].up /\ req' = req
          /\ \A q \in Procs \ {p} : proc'[q] = proc[q]
      BY <1>2, <1>3 DEF Register
    <2> QED
      BY <1>1, <2>1, BystanderKeeps
  <1>4. CASE Heartbeat(p) \/ MarkDraining(p) \/ FindFenced(p)
    <2>1. req' = req /\ (proc' = proc \/ proc' = FencedIf(p, TRUE))
      BY <1>4 DEF Heartbeat, MarkDraining, FindFenced
    <2>2. \A q \in Procs : proc'[q].up = proc[q].up /\ proc'[q].epoch = proc[q].epoch
      BY <1>2, <2>1 DEF FencedIf, Process
    <2> QED
      BY <1>1, <2>1, <2>2, BystanderKeeps
  <1>5. CASE Close(p) \/ Crash(p)
    <2>1. /\ proc' = [proc EXCEPT ![p].up = FALSE]
          /\ req'[r] = IF req[r].proc = p THEN NoReq ELSE req[r]
      BY <1>5 DEF Close, Crash, Exit
    <2>2. CASE req[r].proc = p
      <3>1. req'[r].pc = "idle" /\ req'[r].expires = 0
        BY <2>1, <2>2 DEF NoReq
      <3>2. 0 <= now + TTL
        BY LeaseAssumption DEF TypeOK
      <3> QED
        BY <1>1, <3>1, <3>2 DEF RInv, RunsInProc, NotTooFar, Backed, Working
    <2>3. CASE req[r].proc # p
      <3>1. \A q \in Procs \ {p} : proc'[q] = proc[q]
        BY <1>2, <2>1
      <3> QED
        BY <1>1, <2>1, <2>3, <3>1, BystanderKeeps
    <2> QED
      BY <2>2, <2>3
  <1> QED
    BY <1>3, <1>4, <1>5

(* A request's step is not seen by the others.                             *)
LEMMA OthersKeep ==
    ASSUME TypeOK, NEW r \in Requests, NEW q \in Requests \ {r}, RInv(q), RequestStep(r)
    PROVE  RInv(q)'
  <1>1. /\ lease \in [Requests -> LeaseRow] /\ req \in [Requests -> Request]
        /\ proc \in [Procs -> Process]
    BY DEF TypeOK
  <1>2. now' = now
    BY ZenonT(60)
       DEF RequestStep, Provision, MarkForwarded, Renew, Settle, Replay, SettleNothing, Release,
           AlreadyForwarded, EndUpstream, Fail
  <1>3. req'[q] = req[q] /\ lease'[q] = lease[q]
    <2>1. ASSUME NEW t \in TxStart, NEW told \in BOOLEAN, NEW p \in Procs, NEW plan \in Plans,
                 Provision(r, p, plan, t, told) \/ Replay(r, p, plan, t)
          PROVE  req'[q] = req[q] /\ lease'[q] = lease[q]
      BY <1>1, <2>1 DEF Provision, Replay
    <2>2. ASSUME NEW t \in TxStart, NEW told \in BOOLEAN,
                 \/ MarkForwarded(r, t, told) \/ Renew(r, t, told)
                 \/ \E actual \in Actuals : Settle(r, actual, t, told)
          PROVE  req'[q] = req[q] /\ lease'[q] = lease[q]
      BY <1>1, <2>2 DEF MarkForwarded, Renew, Settle
    <2>3. ASSUME NEW t \in TxStart, Release(r, t)
          PROVE  req'[q] = req[q] /\ lease'[q] = lease[q]
      BY <1>1, <2>3 DEF Release, Released
    <2>4. ASSUME \/ AlreadyForwarded(r) \/ EndUpstream(r) \/ Fail(r)
                 \/ \E t \in TxStart : SettleNothing(r, t)
          PROVE  req'[q] = req[q] /\ lease'[q] = lease[q]
      BY <1>1, <2>4 DEF AlreadyForwarded, EndUpstream, Fail, SettleNothing
    <2> QED
      BY <2>1, <2>2, <2>3, <2>4 DEF RequestStep
  <1>4. \A p \in Procs : proc'[p].up = proc[p].up /\ proc'[p].epoch = proc[p].epoch
    <2>1. proc' = proc \/ \E p, c : proc' = FencedIf(p, c)
      <3>1. CASE Fail(r)
        BY <3>1 DEF Fail
      <3>2. CASE ~Fail(r)
        BY <3>2, ZenonT(60)
           DEF RequestStep, Provision, MarkForwarded, Renew, Settle, Replay, SettleNothing,
               Release, AlreadyForwarded, EndUpstream
      <3> QED
        BY <3>1, <3>2
    <2> QED
      BY <1>1, <2>1 DEF FencedIf, Process
  <1> QED
    BY <1>1, <1>2, <1>3, <1>4, BystanderKeeps

(* A transaction began at most MaxLag ticks ago.                           *)
LEMMA TxTime ==
    ASSUME TypeOK, NEW t \in TxStart
    PROVE  t \in Nat /\ now \in Nat /\ MaxLag \in Nat /\ t <= now /\ now <= t + MaxLag
  BY LeaseAssumption DEF TxStart, TypeOK

(* A grant, new or replayed, is told what the authority stored.            *)
LEMMA GrantRInv ==
    ASSUME TypeOK, NEW r \in Requests, RInv(r), NEW t \in TxStart, NEW p \in Procs, NEW plan \in Plans,
           \/ \E told \in BOOLEAN : Provision(r, p, plan, t, told)
           \/ Replay(r, p, plan, t)
    PROVE  RInv(r)'
  <1>1. /\ lease \in [Requests -> LeaseRow] /\ req \in [Requests -> Request]
        /\ now \in Nat /\ TTL \in Nat /\ MaxLag \in Nat
        /\ t \in Nat /\ t <= now /\ now <= t + MaxLag
    BY TxTime, LeaseAssumption DEF TypeOK
  <1>2. proc[p].up /\ proc' = proc /\ now' = now
    BY DEF Provision, Replay, Owns
  <1>3. ASSUME NEW told \in BOOLEAN, Provision(r, p, plan, t, told) PROVE RInv(r)'
    <2>1. /\ lease'[r].state = "reserved" /\ lease'[r].node = NodeOf[p]
          /\ lease'[r].epoch = proc[p].epoch /\ lease'[r].expires = t + TTL
      BY <1>1, <1>3 DEF Provision
    <2>2. req'[r] = IF told THEN Granted(p, FALSE, FALSE, t + TTL) ELSE NoReq
      BY <1>1, <1>3 DEF Provision
    <2>3. \/ req'[r].pc = "idle" /\ req'[r].expires = 0
          \/ req'[r].proc = p /\ req'[r].expires = t + TTL
      BY <2>2 DEF Granted, NoReq
    <2>4. RunsInProc(r)'
      BY <1>2, <2>3 DEF RunsInProc
    <2>5. NotTooFar(r)'
      BY <1>1, <1>2, <2>1, <2>3 DEF NotTooFar
    <2>6. Backed(r)'
      BY <1>1, <1>2, <2>1, <2>3 DEF Backed, Working, Held
    <2> QED
      BY <2>4, <2>5, <2>6 DEF RInv
  <1>4. CASE Replay(r, p, plan, t)
    <2>1. /\ lease[r].state \in Held /\ lease' = lease
          /\ lease[r].node = NodeOf[p] /\ lease[r].epoch = proc[p].epoch
      BY <1>4 DEF Replay
    <2>2. req'[r] = Granted(p, lease[r].state = "forwarded", lease[r].state = "settled",
                            lease[r].expires)
      BY <1>1, <1>4 DEF Replay
    <2>3. req'[r].proc = p /\ req'[r].expires = lease[r].expires
      BY <2>2 DEF Granted
    <2>4. RunsInProc(r)'
      BY <1>2, <2>3 DEF RunsInProc
    <2>5. NotTooFar(r)'
      BY <1>2, <2>1, <2>3 DEF RInv, NotTooFar
    <2>6. lease[r].expires \in Nat
      BY <1>1 DEF LeaseRow
    <2>7. Backed(r)'
      BY <1>1, <1>2, <2>1, <2>3, <2>6 DEF Backed
    <2> QED
      BY <2>4, <2>5, <2>7 DEF RInv
  <1> QED
    BY <1>3, <1>4

(* A lease moves on with its request: the expiry is not brought forward by *)
(* more than a transaction's duration.                                     *)
LEMMA AdvanceRInv ==
    ASSUME TypeOK, NEW r \in Requests, RInv(r), NEW t \in TxStart, NEW told \in BOOLEAN,
           \/ MarkForwarded(r, t, told) \/ Renew(r, t, told)
           \/ \E actual \in Actuals : Settle(r, actual, t, told)
    PROVE  RInv(r)'
  <1> DEFINE p == req[r].proc
  <1>1. /\ lease[r] \in LeaseRow /\ req[r] \in Request
        /\ lease \in [Requests -> LeaseRow] /\ req \in [Requests -> Request]
        /\ now \in Nat /\ TTL \in Nat /\ MaxLag \in Nat
        /\ t \in Nat /\ t <= now /\ now <= t + MaxLag
    BY TxTime, LeaseAssumption DEF TypeOK
  <1>2. /\ proc' = proc /\ now' = now /\ req[r].pc # "idle" /\ Mine(r)
    BY DEF MarkForwarded, Renew, Settle
  <1>3. p \in Procs /\ proc[p].up
    BY <1>2 DEF RInv, RunsInProc
  <1>4. lease[r].expires \in Nat /\ req[r].expires \in Nat
    BY <1>1 DEF LeaseRow, Request
  <1>5. req'[r].proc = p
    <2>1. CASE MarkForwarded(r, t, told)
      BY <1>1, <2>1 DEF MarkForwarded, Request
    <2>2. CASE Renew(r, t, told)
      BY <1>1, <2>2 DEF Renew, Request
    <2>3. CASE \E actual \in Actuals : Settle(r, actual, t, told)
      BY <1>1, <2>3 DEF Settle, Request
    <2> QED
      BY <2>1, <2>2, <2>3
  <1>6. /\ lease'[r].node = lease[r].node /\ lease'[r].epoch = lease[r].epoch
        /\ lease'[r].state \in Held
    <2>1. CASE MarkForwarded(r, t, told)
      BY <1>1, <2>1 DEF MarkForwarded, LeaseRow, Held
    <2>2. CASE Renew(r, t, told)
      BY <1>1, <2>2 DEF Renew, LeaseRow, Held
    <2>3. CASE \E actual \in Actuals : Settle(r, actual, t, told)
      BY <1>1, <2>3 DEF Settle, LeaseRow, Held
    <2> QED
      BY <2>1, <2>2, <2>3
  <1>7. \/ lease'[r].expires = lease[r].expires
        \/ lease'[r].expires = t + TTL
    <2>1. CASE Renew(r, t, told)
      BY <1>1, <2>1 DEF Renew, LeaseRow
    <2>2. CASE MarkForwarded(r, t, told)
      BY <1>1, <2>2 DEF MarkForwarded, LeaseRow
    <2>3. CASE \E actual \in Actuals : Settle(r, actual, t, told)
      BY <1>1, <2>3 DEF Settle, LeaseRow
    <2> QED
      BY <2>1, <2>2, <2>3
  <1>8. \/ req'[r].expires = req[r].expires
        \/ req'[r].expires = lease[r].expires
        \/ req'[r].expires = t + TTL
    <2>1. CASE Renew(r, t, told)
      BY <1>1, <2>1 DEF Renew, Request
    <2>2. CASE MarkForwarded(r, t, told)
      BY <1>1, <2>2 DEF MarkForwarded, Request
    <2>3. CASE \E actual \in Actuals : Settle(r, actual, t, told)
      BY <1>1, <2>3 DEF Settle, Request
    <2> QED
      BY <2>1, <2>2, <2>3
  <1>9. NotTooFar(r)'
    BY <1>1, <1>2, <1>4, <1>7, <1>8 DEF RInv, NotTooFar
  <1>10. req'[r].pc \in Working /\ now + MaxLag < req'[r].expires
         => req'[r].expires <= lease'[r].expires + MaxLag
    <2>1. CASE MarkForwarded(r, t, told)
      <3>1. /\ req'[r].pc = "releasing" \/ req'[r].expires = lease[r].expires
            /\ lease'[r].expires = lease[r].expires
        BY <1>1, <2>1 DEF MarkForwarded, Request, LeaseRow
      <3> QED
        BY <1>1, <1>4, <3>1 DEF Working
    <2>2. CASE Renew(r, t, told)
      <3>1. lease'[r].expires = t + TTL
        BY <1>1, <2>2 DEF Renew, LeaseRow
      <3>2. req'[r].expires <= now + TTL
        BY <1>2, <1>9 DEF NotTooFar
      <3>3. req'[r].expires \in Nat
        BY <1>1, <1>4, <1>8
      <3> QED
        BY <1>1, <3>1, <3>2, <3>3
    <2>3. CASE \E actual \in Actuals : Settle(r, actual, t, told)
      <3>1. req'[r].pc = "releasing"
        BY <1>1, <2>3 DEF Settle, Request
      <3> QED
        BY <3>1 DEF Working
    <2> QED
      BY <2>1, <2>2, <2>3
  <1>11. Backed(r)'
    BY <1>2, <1>5, <1>6, <1>10 DEF Backed, Mine
  <1>12. RunsInProc(r)'
    BY <1>2, <1>3, <1>5 DEF RunsInProc
  <1> QED
    BY <1>9, <1>11, <1>12 DEF RInv

(* The steps that take a request further without its lease.                *)
LEMMA RequestRInv ==
    ASSUME TypeOK, NEW r \in Requests, RInv(r), NEW t \in TxStart,
           \/ AlreadyForwarded(r) \/ EndUpstream(r) \/ Fail(r) \/ SettleNothing(r, t)
    PROVE  RInv(r)'
  <1>1. /\ req[r] \in Request /\ req \in [Requests -> Request] /\ proc \in [Procs -> Process]
    BY DEF TypeOK
  <1>2. lease' = lease /\ now' = now
    BY DEF AlreadyForwarded, EndUpstream, Fail, SettleNothing
  <1>3. req[r].pc # "idle"
    BY DEF AlreadyForwarded, EndUpstream, Fail, SettleNothing
  <1>4. \A p \in Procs : proc'[p].up = proc[p].up /\ proc'[p].epoch = proc[p].epoch
    <2>1. proc' = proc \/ \E p, c : proc' = FencedIf(p, c)
      BY DEF AlreadyForwarded, EndUpstream, Fail, SettleNothing
    <2> QED
      BY <1>1, <2>1 DEF FencedIf, Process
  <1>5. \/ req'[r].pc = "idle" /\ req'[r].expires = 0
        \/ /\ req'[r].proc = req[r].proc /\ req'[r].expires = req[r].expires
           /\ req'[r].pc \in Working => req[r].pc \in Working
    <2>1. CASE AlreadyForwarded(r)
      BY <1>1, <2>1 DEF AlreadyForwarded, Request, Working
    <2>2. CASE EndUpstream(r)
      BY <1>1, <2>2 DEF EndUpstream, Request, Working
    <2>3. CASE Fail(r)
      BY <1>1, <2>3 DEF Fail, Request, Working, NoReq
    <2>4. CASE SettleNothing(r, t)
      BY <1>1, <2>4 DEF SettleNothing, Request, Working
    <2> QED
      BY <2>1, <2>2, <2>3, <2>4
  <1>6. req[r].proc \in Procs /\ proc[req[r].proc].up
    BY <1>3 DEF RInv, RunsInProc
  <1>7. RunsInProc(r)'
    BY <1>4, <1>5, <1>6 DEF RunsInProc
  <1>8. NotTooFar(r)'
    <2>1. 0 <= now + TTL
      BY LeaseAssumption DEF TypeOK
    <2> QED
      BY <1>2, <1>5, <2>1 DEF RInv, NotTooFar
  <1>9. Backed(r)'
    BY <1>2, <1>4, <1>5, <1>6 DEF RInv, Backed, Working
  <1> QED
    BY <1>7, <1>8, <1>9 DEF RInv

(* A lease that is given back, by its request or the reaper, is one that   *)
(* no request at work still counts on.                                     *)
LEMMA ReturnRInv ==
    ASSUME TypeOK, NEW r \in Requests, RInv(r), NEW t \in TxStart,
           \/ Release(r, t)
           \/ \E p \in Procs : Reap(p, t)
    PROVE  RInv(r)'
  <1>1. /\ lease[r] \in LeaseRow /\ req \in [Requests -> Request] /\ req[r] \in Request
        /\ now \in Nat /\ TTL \in Nat /\ MaxLag \in Nat
        /\ t \in Nat /\ t <= now /\ now <= t + MaxLag
    BY TxTime, LeaseAssumption DEF TypeOK
  <1>2. lease[r].expires \in Nat /\ req[r].expires \in Nat
    BY <1>1 DEF LeaseRow, Request
  <1>3. proc' = proc /\ now' = now
    BY DEF Release, Reap
  <1>4. ASSUME NEW rs \in SUBSET Requests, Released(rs, t)
        PROVE  IF r \in rs THEN lease'[r].expires = 0 ELSE lease'[r] = lease[r]
    <2>1. lease'[r] = IF r \in rs
                      THEN [lease[r] EXCEPT !.state = "released", !.slots = {}, !.tokens = {},
                                            !.plan = NoPlan, !.expires = 0]
                      ELSE lease[r]
      BY <1>4 DEF Released
    <2> QED
      BY <1>1, <2>1 DEF LeaseRow
  <1>5. CASE Release(r, t)
    <2>1. req'[r].pc = "idle" /\ req'[r].expires = 0
      BY <1>1, <1>5 DEF Release, NoReq
    <2>2. lease' = lease \/ Released({r}, t)
      BY <1>5 DEF Release
    <2>3. {r} \in SUBSET Requests
      OBVIOUS
    <2>4. lease'[r] = lease[r] \/ lease'[r].expires = 0
      BY <1>4, <2>2, <2>3
    <2>5. NotTooFar(r)'
      BY <1>1, <1>2, <1>3, <2>1, <2>4 DEF RInv, NotTooFar
    <2> QED
      BY <2>1, <2>5 DEF RInv, RunsInProc, Backed, Working
  <1>6. ASSUME NEW p \in Procs, Reap(p, t) PROVE RInv(r)'
    <2> DEFINE expired == {q \in Requests : lease[q].state \in Held /\ lease[q].expires <= t}
    <2>1. req' = req /\ Released(expired, t) /\ expired \in SUBSET Requests
      BY <1>6 DEF Reap
    <2>2. CASE r \notin expired
      <3>1. lease'[r] = lease[r]
        BY <1>4, <2>1, <2>2
      <3> QED
        BY <1>3, <2>1, <3>1, BystanderKeeps
    <2>3. CASE r \in expired
      <3>1. lease[r].expires <= t /\ lease'[r].expires = 0
        BY <1>4, <2>1, <2>3
      <3>2. ~(req[r].pc \in Working /\ now + MaxLag < req[r].expires)
        BY <1>1, <1>2, <3>1 DEF RInv, Backed
      <3>3. RunsInProc(r)'
        BY <1>3, <2>1 DEF RInv, RunsInProc
      <3>4. NotTooFar(r)'
        BY <1>1, <1>3, <2>1, <3>1 DEF RInv, NotTooFar
      <3>5. Backed(r)'
        BY <1>3, <2>1, <3>2 DEF Backed
      <3> QED
        BY <3>3, <3>4, <3>5 DEF RInv
    <2> QED
      BY <2>2, <2>3
  <1> QED
    BY <1>5, <1>6

LEMMA NextRInv ==
    ASSUME TypeOK, [Next]_vars, NEW r \in Requests, RInv(r)
    PROVE  RInv(r)'
  <1>1. ASSUME NEW q \in Requests, RequestStep(q) PROVE RInv(r)'
    <2>1. CASE q # r
      <3>1. r \in Requests \ {q}
        BY <2>1
      <3> QED
        BY <1>1, <3>1, OthersKeep
    <2>2. CASE q = r
      <3>1. \/ \E t \in TxStart :
                  \/ \E p \in Procs, plan \in Plans :
                        \/ \E told \in BOOLEAN : Provision(r, p, plan, t, told)
                        \/ Replay(r, p, plan, t)
                  \/ \E told \in BOOLEAN :
                        \/ MarkForwarded(r, t, told) \/ Renew(r, t, told)
                        \/ \E actual \in Actuals : Settle(r, actual, t, told)
                  \/ SettleNothing(r, t)
                  \/ Release(r, t)
            \/ AlreadyForwarded(r) \/ EndUpstream(r) \/ Fail(r)
        BY <1>1, <2>2 DEF RequestStep
      <3>2. now \in TxStart
        BY LeaseAssumption DEF TxStart, TypeOK
      <3> QED
        BY <3>1, <3>2, GrantRInv, AdvanceRInv, RequestRInv, ReturnRInv
    <2> QED
      BY <2>1, <2>2
  <1>2. ASSUME NEW p \in Procs, ProcStep(p) PROVE RInv(r)'
    <2>1. ASSUME NEW t \in TxStart, Reap(p, t) PROVE RInv(r)'
      BY <2>1, ReturnRInv
    <2>2. ASSUME NEW s \in Removable, RemoveScope(p, s) PROVE RInv(r)'
      <3>1. UNCHANGED <<now, proc, lease, req>>
        BY <2>2 DEF RemoveScope
      <3> QED
        BY <3>1, BystanderKeeps
    <2> QED
      BY <1>2, <2>1, <2>2, MembershipRInv DEF ProcStep
  <1>3. CASE MaintainSources \/ UNCHANGED vars
    <2>1. UNCHANGED <<now, proc, lease, req>>
      BY <1>3 DEF MaintainSources, vars
    <2> QED
      BY <2>1, BystanderKeeps
  <1>4. CASE Tick
    BY <1>4, TickKeeps
  <1> QED
    BY <1>1, <1>2, <1>3, <1>4 DEF Next

(* Until a transaction's duration before the time it was last told, nobody *)
(* takes a request's lease away: work at the backend is backed by a slot   *)
(* (renewReservation), however long transactions wait for locks.           *)
THEOREM BackendWorkIsBacked == Spec => []UpstreamHoldsLease
  <1> DEFINE All == \A r \in Requests : RInv(r)
  <1>1. Init => All
    <2> SUFFICES ASSUME Init, NEW r \in Requests PROVE RInv(r)
      OBVIOUS
    <2>1. /\ req[r].pc = "idle" /\ req[r].expires = 0
          /\ lease[r].expires = 0 /\ now = 1 /\ TTL \in Nat
      BY LeaseAssumption DEF Init, NoReq, NoLease
    <2> QED
      BY <2>1 DEF RInv, RunsInProc, NotTooFar, Backed, Working
  <1>2. ASSUME IInv, [Next]_vars, All PROVE All'
    BY <1>2, NextRInv DEF IInv
  <1>3. All => UpstreamHoldsLease
    BY DEF RInv, Backed, Working, UpstreamHoldsLease, Mine
  <1> QED
    <2> HIDE DEF All
    <2> QED
      BY <1>1, <1>2, <1>3, Invariance, PTL DEF Spec

-----------------------------------------------------------------------------
(***************************************************************************)
(* The ledger of the token rows.                                           *)
(***************************************************************************)
(* What the token row b answers for when u leases hold an estimate of it.  *)
Owed(b, u) == b.available + Estimate * u + b.spent

(* What the policies gave the row, and the refill it was paid: up to its   *)
(* updated_at, and a transaction's duration for each one that moved it     *)
(* back.                                                                   *)
Due(b) == b.updated - b.created + MaxLag * b.late

Credit(b) == b.granted + Rate * Due(b)

(* Nothing of the capacity gets lost, and a row that is created has no     *)
(* history.                                                                *)
Floor(b, u) ==
    /\ ~b.tokens => b.spent = 0
    /\ b.tokens => b.available <= b.capacity /\ b.capacity <= Owed(b, u)

(* Nothing is minted.                                                      *)
Ceiling(b, u) == b.tokens => Owed(b, u) <= Credit(b)

(* The row was not updated after t.                                        *)
NotAhead(b, t) == b.tokens => b.updated <= t

LedgerInv(s) ==
    /\ Floor(bucket[s], Cardinality(Unsettled(s)))
    /\ Ceiling(bucket[s], Cardinality(Unsettled(s)))
    /\ NotAhead(bucket[s], now)

LEMMA Product ==
    ASSUME NEW e \in Nat, NEW m \in Nat, NEW n \in Nat
    PROVE  e * m \in Nat /\ e * (m + n) = e * m + e * n
  OBVIOUS

LEMMA RefillOver ==
    ASSUME NEW a \in Int, NEW b \in Int
    PROVE  /\ Rate * a \in Int
           /\ Rate * (a + b) = Rate * a + Rate * b
           /\ a <= b => Rate * a <= Rate * b
  <1>1. Rate \in Nat
    BY LeaseAssumption
  <1>2. ASSUME a <= b PROVE Rate * a <= Rate * b
    <2>1. b - a \in Nat /\ Rate * (b - a) = Rate * b - Rate * a
      BY <1>1, <1>2
    <2>2. Rate * (b - a) \in Nat
      BY <1>1, <2>1
    <2> QED
      BY <1>1, <2>1, <2>2
  <1> QED
    BY <1>1, <1>2

LEMMA CreditType ==
    ASSUME NEW b \in BucketRow
    PROVE  Due(b) \in Int /\ Credit(b) \in Int
  <1>1. MaxLag \in Nat /\ b.late \in Nat /\ b.updated \in Nat /\ b.created \in Nat /\ b.granted \in Nat
    BY LeaseAssumption DEF BucketRow
  <1>2. MaxLag * b.late \in Nat
    BY <1>1
  <1>3. Due(b) \in Int
    BY <1>1, <1>2 DEF Due
  <1>4. Rate * Due(b) \in Int
    BY <1>3, RefillOver
  <1> QED
    BY <1>1, <1>3, <1>4 DEF Credit

(* An update pays the row at most what it is credited: refill for the time *)
(* since updated_at, or nothing when that is later.                        *)
LEMMA RefilledBounds ==
    ASSUME NEW b \in BucketRow, NEW t \in Nat
    PROVE  LET c == Touched(b, t) IN
           /\ b.updated <= t + MaxLag =>
                /\ Credit(b) <= Credit(c)
                /\ Refilled(b, t) - b.available <= Credit(c) - Credit(b)
           /\ b.available <= b.capacity => b.available <= Refilled(b, t)
  <1> DEFINE c == Touched(b, t)
             gain == Rate * (t - b.updated)
             due == Rate * Due(b)
  <1>1. /\ b.capacity \in Int /\ b.available \in Int /\ b.updated \in Nat /\ b.created \in Nat
        /\ b.late \in Nat /\ b.granted \in Nat /\ Rate \in Nat /\ MaxLag \in Nat
        /\ MaxLag * b.late \in Nat /\ MaxLag * (b.late + 1) = MaxLag * b.late + MaxLag
    BY LeaseAssumption, Product DEF BucketRow
  <1>2. /\ c \in BucketRow /\ c.created = b.created /\ c.granted = b.granted /\ c.updated = t
        /\ c.late = IF t < b.updated THEN b.late + 1 ELSE b.late
    BY TouchedRow
  <1>3. Refilled(b, t) = IF Rate > 0 /\ t > b.updated THEN Least(b.capacity, b.available + gain)
                         ELSE b.available
    BY DEF Refilled
  <1> HIDE DEF c
  <1>4. Due(b) \in Int /\ Due(c) \in Int /\ t - b.updated \in Int
    BY <1>1, <1>2, CreditType
  <1>5. gain \in Int /\ due \in Int /\ (0 <= t - b.updated => 0 <= gain)
    <2>1. \A x \in Int : Rate * x \in Int /\ (0 <= x => Rate * 0 <= Rate * x)
      BY RefillOver
    <2>2. gain \in Int /\ due \in Int /\ (0 <= t - b.updated => Rate * 0 <= gain)
      BY <1>4, <2>1, Zenon
    <2>3. Rate * 0 = 0
      BY <1>1
    <2> QED
      BY <2>2, <2>3
  <1>6. CASE t < b.updated
    <2>1. Refilled(b, t) = b.available
      BY <1>1, <1>3, <1>6
    <2>2. b.updated <= t + MaxLag => Due(b) <= Due(c)
      BY <1>1, <1>2, <1>6 DEF Due
    <2>3. b.updated <= t + MaxLag => Rate * Due(b) <= Rate * Due(c)
      BY <1>4, <2>2, RefillOver
    <2>4. Rate * Due(c) \in Int /\ Rate * Due(b) \in Int
      BY <1>4, RefillOver
    <2>5. b.updated <= t + MaxLag => Credit(b) <= Credit(c)
      BY <1>1, <1>2, <2>3, <2>4 DEF Credit
    <2>6. Credit(b) \in Int /\ Credit(c) \in Int
      BY <1>2, CreditType
    <2> QED
      BY <1>1, <2>1, <2>5, <2>6 DEF c
  <1>7. CASE ~(t < b.updated)
    <2>1. Due(c) = Due(b) + (t - b.updated)
      BY <1>1, <1>2, <1>7 DEF Due
    <2>2. Rate * Due(c) = due + gain
      BY <1>4, <2>1, RefillOver
    <2>3. Credit(c) = Credit(b) + gain
      <3> HIDE DEF gain
      <3> QED
        BY <1>1, <1>2, <1>5, <2>2 DEF Credit
    <2>4. 0 <= gain
      <3> HIDE DEF gain
      <3> QED
        BY <1>1, <1>5, <1>7
    <2>5. Credit(b) \in Int /\ Credit(c) \in Int
      BY <1>2, CreditType
    <2> HIDE DEF gain
    <2>6. /\ Refilled(b, t) <= b.available + gain
          /\ b.available <= b.capacity => b.available <= Refilled(b, t)
          /\ Refilled(b, t) \in Int
      BY <1>1, <1>3, <1>5, <2>4 DEF Least
    <2> QED
      BY <1>1, <1>5, <2>3, <2>4, <2>5, <2>6 DEF c
  <1> QED
    BY <1>6, <1>7

LEMMA LoadLedger ==
    ASSUME NEW b \in BucketRow, NEW burst \in Nat, NEW t \in Nat, NEW u \in Nat,
           ~b.tokens => u = 0, Floor(b, u), Ceiling(b, u), NotAhead(b, t + MaxLag)
    PROVE  LET c == loadResourceBucket(b, burst, t) IN
           Floor(c, u) /\ Ceiling(c, u) /\ c.updated = t
  <1> DEFINE c == loadResourceBucket(b, burst, t)
             e == Estimate * u
  <1>1. /\ c \in BucketRow /\ c.tokens
        /\ b.capacity \in Int /\ b.available \in Int /\ b.updated \in Int /\ t \in Int
        /\ b.spent \in Nat /\ b.granted \in Int /\ b.created \in Int /\ burst \in Int
    <2>1. c \in BucketRow /\ c.tokens
      BY LoadKeepsRow
    <2> HIDE DEF c
    <2> QED
      BY <2>1 DEF BucketRow
  <1>2. e \in Nat /\ (u = 0 => e = 0)
    BY Product, LeaseAssumption
  <1>3. CASE ~b.tokens
    <2>1. /\ c.capacity = burst /\ c.available = burst /\ c.updated = t /\ c.granted = burst
          /\ c.created = t /\ c.spent = b.spent
      BY <1>3 DEF loadResourceBucket, BucketRow
    <2>2. b.spent = 0 /\ e = 0
      BY <1>2, <1>3 DEF Floor
    <2> HIDE DEF c, e
    <2>3. c.available + e + c.spent = burst
      BY <1>1, <2>1, <2>2
    <2>4. Owed(c, u) = burst
      BY <2>3 DEF Owed, e
    <2>5. burst <= Credit(c)
      <3>1. MaxLag * c.late \in Nat
        BY <1>1, Product, LeaseAssumption DEF BucketRow
      <3>2. 0 <= Due(c) /\ Due(c) \in Int
        BY <1>1, <2>1, <3>1 DEF Due
      <3>3. Rate * 0 <= Rate * Due(c) /\ Rate * Due(c) \in Int
        BY <3>2, RefillOver
      <3>4. Rate * 0 = 0
        BY LeaseAssumption
      <3> QED
        BY <1>1, <2>1, <3>3, <3>4 DEF Credit
    <2>6. Ceiling(c, u) /\ Floor(c, u)
      BY <1>1, <2>1, <2>4, <2>5 DEF Ceiling, Floor
    <2> QED
      BY <2>1, <2>6 DEF c
  <1>4. CASE b.tokens
    <2> DEFINE raised == IF burst > b.capacity THEN burst - b.capacity ELSE 0
               avail == Least(burst, Refilled(b, t) + raised)
               x == Touched(b, t)
    <2>1. /\ x \in BucketRow /\ x.spent = b.spent /\ x.granted = b.granted /\ x.updated = t
          /\ Credit(b) \in Int /\ Credit(x) \in Int /\ Due(x) \in Int
      BY TouchedRow, CreditType
    <2>2. c = [x EXCEPT !.capacity = burst, !.available = avail, !.granted = @ + raised]
      BY <1>4 DEF loadResourceBucket
    <2> HIDE DEF c, x
    <2>3. /\ c.capacity = burst /\ c.available = avail /\ c.updated = t
          /\ c.granted = x.granted + raised /\ c.spent = b.spent
          /\ c.created = x.created /\ c.late = x.late /\ c.updated = x.updated
      <3> HIDE DEF avail, raised
      <3> QED
        BY <2>1, <2>2 DEF BucketRow
    <2>4. Refilled(b, t) \in Int
      BY RefilledType
    <2>5. raised \in Nat /\ (burst > b.capacity => raised = burst - b.capacity)
                         /\ (burst <= b.capacity => raised = 0)
      BY <1>1
    <2>6. /\ avail \in Int /\ avail <= Refilled(b, t) + raised /\ avail <= burst
          /\ avail = burst \/ avail = Refilled(b, t) + raised
      <3> HIDE DEF raised
      <3> QED
        BY <1>1, <2>4, <2>5 DEF Least
    <2> HIDE DEF avail, raised, e
    <2>7. /\ Credit(b) <= Credit(x)
          /\ Refilled(b, t) - b.available <= Credit(x) - Credit(b)
          /\ b.available <= b.capacity => b.available <= Refilled(b, t)
      BY <1>4, RefilledBounds DEF NotAhead, x
    <2>8. Credit(c) = Credit(x) + raised
      <3>1. Due(c) = Due(x)
        BY <2>3 DEF Due
      <3>2. Rate * Due(x) \in Int
        BY <2>1, RefillOver
      <3> QED
        BY <1>1, <2>1, <2>3, <2>5, <3>1, <3>2 DEF Credit
    <2>9. Owed(c, u) = avail + e + b.spent /\ Owed(b, u) = b.available + e + b.spent
      BY <2>3 DEF Owed, e
    <2>10. /\ b.available <= b.capacity /\ b.capacity <= b.available + e + b.spent
           /\ b.available + e + b.spent <= Credit(b)
      BY <1>4, <2>9 DEF Floor, Ceiling
    <2>11. burst <= avail + e + b.spent
      BY <1>1, <1>2, <2>4, <2>5, <2>6, <2>7, <2>10
    <2>12. avail + e + b.spent <= Credit(c)
      BY <1>1, <1>2, <2>1, <2>4, <2>5, <2>6, <2>7, <2>8, <2>10
    <2>13. Floor(c, u) /\ Ceiling(c, u)
      BY <1>1, <2>3, <2>6, <2>9, <2>11, <2>12 DEF Floor, Ceiling
    <2> QED
      BY <2>3, <2>13 DEF c
  <1> QED
    BY <1>3, <1>4

(* A row whose tokens are those of another one.                            *)
SameTokens(b, c) ==
    /\ c.tokens = b.tokens /\ c.capacity = b.capacity /\ c.available = b.available
    /\ c.updated = b.updated /\ c.spent = b.spent /\ c.created = b.created
    /\ c.granted = b.granted /\ c.late = b.late

LEMMA SameLedger ==
    ASSUME NEW b, NEW c, NEW u, NEW t, SameTokens(b, c)
    PROVE  /\ Floor(b, u) => Floor(c, u)
           /\ Ceiling(b, u) => Ceiling(c, u)
           /\ NotAhead(b, t) => NotAhead(c, t)
  BY DEF SameTokens, Floor, Ceiling, Owed, Credit, Due, NotAhead

(* A new lease of the row.                                                 *)
LEMMA TakenLedger ==
    ASSUME NEW b \in BucketRow, NEW burst \in Nat, NEW t \in Nat, NEW u \in Nat,
           ~b.tokens => u = 0, Floor(b, u), Ceiling(b, u), NotAhead(b, t + MaxLag)
    PROVE  LET d == TokensTaken(b, burst, t) IN
           Floor(d, u + 1) /\ Ceiling(d, u + 1) /\ d.updated = t
  <1> DEFINE c == loadResourceBucket(b, burst, t)
             d == [c EXCEPT !.available = c.available - Estimate]
  <1>1. Floor(c, u) /\ Ceiling(c, u) /\ c.updated = t
    BY LoadLedger
  <1>2. c \in BucketRow /\ c.tokens
    BY LoadKeepsRow
  <1>3. TokensTaken(b, burst, t) = d
    BY DEF TokensTaken
  <1> HIDE DEF c
  <1>4. /\ d.capacity = c.capacity /\ d.updated = c.updated /\ d.available = c.available - Estimate
        /\ d.tokens = c.tokens /\ d.spent = c.spent /\ d.created = c.created
        /\ d.granted = c.granted /\ d.late = c.late
    BY <1>2 DEF BucketRow
  <1> HIDE DEF d
  <1>5. /\ Estimate \in Nat /\ Estimate * u \in Nat
        /\ Estimate * (u + 1) = Estimate * u + Estimate
    BY Product, LeaseAssumption
  <1>6. c.available \in Int /\ c.spent \in Int /\ c.capacity \in Int
    BY <1>2 DEF BucketRow
  <1>7. d.available + Estimate * (u + 1) + d.spent = c.available + Estimate * u + c.spent
    BY <1>4, <1>5, <1>6
  <1>8. Owed(d, u + 1) = Owed(c, u)
    BY <1>7 DEF Owed
  <1>9. Credit(d) = Credit(c)
    BY <1>4 DEF Credit, Due
  <1>10. c.available <= c.capacity => d.available <= d.capacity
    BY <1>4, <1>5, <1>6
  <1> QED
    BY <1>1, <1>2, <1>3, <1>4, <1>8, <1>9, <1>10 DEF Floor, Ceiling

(* The other changes of a row move what it answers for by the refill at    *)
(* most, and lose something only at the capacity.                          *)
LEMMA PostedLedger ==
    ASSUME NEW b \in BucketRow, NEW c \in BucketRow, NEW u \in Nat, NEW v \in Nat,
           c.tokens = b.tokens, b.tokens, c.capacity = b.capacity, c.available <= c.capacity,
           c.capacity <= Owed(c, v) \/ Owed(b, u) <= Owed(c, v),
           Owed(c, v) <= Owed(b, u) + (Credit(c) - Credit(b)),
           Floor(b, u), Ceiling(b, u)
    PROVE  Floor(c, v) /\ Ceiling(c, v)
  <1>1. Estimate * u \in Nat /\ Estimate * v \in Nat
    BY Product, LeaseAssumption
  <1>2. /\ Owed(b, u) \in Int /\ Owed(c, v) \in Int /\ b.capacity \in Int
        /\ Credit(b) \in Int /\ Credit(c) \in Int
    BY <1>1, CreditType DEF Owed, BucketRow
  <1> QED
    BY <1>2 DEF Floor, Ceiling

LEMMA SettledLedger ==
    ASSUME NEW b \in BucketRow, NEW actual \in Nat, NEW t \in Nat, NEW v \in Nat, b.tokens,
           Floor(b, v + 1), Ceiling(b, v + 1), NotAhead(b, t + MaxLag)
    PROVE  LET c == settleBucket(b, actual, t) IN
           Floor(c, v) /\ Ceiling(c, v) /\ c.updated = t
  <1> DEFINE c == settleBucket(b, actual, t)
             x == Touched(b, t)
             avail == Least(b.capacity, Refilled(b, t) - (actual - Estimate))
             e == Estimate * v
  <1>1. c \in BucketRow /\ c.tokens = b.tokens
    BY SettledRow
  <1>2. /\ x \in BucketRow /\ x.capacity = b.capacity /\ x.spent = b.spent /\ x.updated = t
        /\ Credit(b) \in Int /\ Credit(x) \in Int
    BY TouchedRow, CreditType
  <1>3. c = [x EXCEPT !.available = avail, !.spent = @ + actual]
    BY DEF settleBucket
  <1> HIDE DEF c, x
  <1>4. /\ c.capacity = b.capacity /\ c.updated = t /\ c.available = avail
        /\ c.spent = b.spent + actual
        /\ c.created = x.created /\ c.granted = x.granted /\ c.late = x.late
        /\ c.updated = x.updated
    <2> HIDE DEF avail
    <2> QED
      BY <1>2, <1>3 DEF BucketRow
  <1>5. /\ b.available \in Int /\ b.capacity \in Int /\ b.spent \in Nat /\ Estimate \in Nat
        /\ Refilled(b, t) \in Int
    BY RefilledType, LeaseAssumption DEF BucketRow
  <1>6. /\ avail \in Int /\ avail <= Refilled(b, t) - (actual - Estimate) /\ avail <= b.capacity
        /\ avail = b.capacity \/ avail = Refilled(b, t) - (actual - Estimate)
    BY <1>5 DEF Least
  <1>7. e \in Nat /\ Estimate * (v + 1) = e + Estimate
    BY Product, LeaseAssumption
  <1>8. /\ Owed(c, v) = avail + e + (b.spent + actual)
        /\ Owed(b, v + 1) = b.available + (e + Estimate) + b.spent
    BY <1>4, <1>7 DEF Owed
  <1> HIDE DEF avail, e
  <1>9. Credit(c) = Credit(x)
    BY <1>4 DEF Credit, Due
  <1>10. /\ Refilled(b, t) - b.available <= Credit(x) - Credit(b)
         /\ b.available <= Refilled(b, t)
    BY RefilledBounds DEF NotAhead, Floor, x
  <1>11. c.capacity <= Owed(c, v) \/ Owed(b, v + 1) <= Owed(c, v)
    BY <1>4, <1>5, <1>6, <1>7, <1>8, <1>10
  <1>12. Owed(c, v) <= Owed(b, v + 1) + (Credit(c) - Credit(b))
    BY <1>2, <1>5, <1>6, <1>7, <1>8, <1>9, <1>10
  <1>13. v + 1 \in Nat /\ c.available <= c.capacity
    BY <1>4, <1>6
  <1>14. Floor(c, v) /\ Ceiling(c, v)
    BY <1>1, <1>4, <1>11, <1>12, <1>13, PostedLedger
  <1> QED
    BY <1>4, <1>14 DEF c

(* The leases that are released leave the unsettled ones.                  *)
LEMMA ReleasedLedger ==
    ASSUME TypeOK, NEW s \in Scopes, NEW rs \in SUBSET Requests, NEW t \in Nat,
           bucket[s].tokens, NotAhead(bucket[s], t + MaxLag),
           Floor(bucket[s], Cardinality(Unsettled(s))),
           Ceiling(bucket[s], Cardinality(Unsettled(s)))
    PROVE  LET c == releaseBucket(s, rs, t)
               v == Cardinality(Unsettled(s) \ rs)
           IN  Floor(c, v) /\ Ceiling(c, v) /\ c.updated \in {bucket[s].updated, t}
  <1> DEFINE b == bucket[s]
             c == releaseBucket(s, rs, t)
             holds == {r \in rs : s \in lease[r].tokens}
             back == {r \in holds : lease[r].state = "reserved"}
             lost == {r \in holds : lease[r].state = "forwarded"}
             base == IF RefundFirst(holds) THEN Refilled(b, t) ELSE b.available
             avail == IF back = {} THEN b.available
                      ELSE Least(b.capacity, base + Estimate * Cardinality(back))
             x == IF holds = {} THEN b ELSE Touched(b, t)
             U == Unsettled(s)
             V == Unsettled(s) \ rs
             u == Cardinality(U)
             v == Cardinality(V)
             nb == Cardinality(back)
             nl == Cardinality(lost)
  <1>1. b \in BucketRow /\ c \in BucketRow /\ c.tokens = b.tokens
    BY ReleasedRow DEF TypeOK
  <1>2. /\ x \in BucketRow /\ x.capacity = b.capacity /\ x.spent = b.spent
        /\ x.available = b.available /\ x.updated \in {b.updated, t}
        /\ Credit(b) \in Int /\ Credit(x) \in Int
    BY <1>1, TouchedRow, CreditType
  <1>3. /\ c.capacity = b.capacity /\ c.available = avail /\ c.spent = b.spent + Estimate * nl
        /\ c.created = x.created /\ c.granted = x.granted /\ c.late = x.late
        /\ c.updated = x.updated
    <2> DEFINE used == Most(0, x.used - Cardinality({r \in rs : s \in lease[r].slots}))
               kept == IF back = {} THEN x.available
                       ELSE Least(b.capacity, base + Estimate * nb)
               spent == x.spent + Estimate * nl
    <2>1. c = [x EXCEPT !.used = used, !.available = kept, !.spent = spent]
      BY DEF releaseBucket
    <2>2. kept = avail /\ spent = b.spent + Estimate * nl
      BY <1>2
    <2> HIDE DEF c, x, used, kept, spent, avail, nl
    <2>3. /\ c.capacity = x.capacity /\ c.available = kept /\ c.spent = spent
          /\ c.created = x.created /\ c.granted = x.granted /\ c.late = x.late
          /\ c.updated = x.updated
      BY <1>2, <2>1 DEF BucketRow
    <2> QED
      BY <1>2, <2>2, <2>3
  <1>4. /\ U \in SUBSET Requests /\ V \in SUBSET Requests
        /\ back \in SUBSET Requests /\ lost \in SUBSET Requests
        /\ U = V \cup (back \cup lost) /\ V \cap (back \cup lost) = {} /\ back \cap lost = {}
    BY DEF Unsettled
  <1>5. u \in Nat /\ v \in Nat /\ nb \in Nat /\ nl \in Nat /\ u = v + (nb + nl)
    <2> HIDE DEF U, V, back, lost
    <2>1. /\ IsFiniteSet(V) /\ IsFiniteSet(back) /\ IsFiniteSet(lost)
          /\ u \in Nat /\ v \in Nat /\ nb \in Nat /\ nl \in Nat
      BY <1>4, FiniteRequests
    <2>2. /\ IsFiniteSet(back \cup lost)
          /\ Cardinality(back \cup lost) = nb + nl - Cardinality(back \cap lost)
      BY <2>1, FS_Union
    <2>3. Cardinality(V \cup (back \cup lost))
            = v + Cardinality(back \cup lost) - Cardinality(V \cap (back \cup lost))
      BY <2>1, <2>2, FS_Union
    <2>4. Cardinality(back \cap lost) = 0 /\ Cardinality(V \cap (back \cup lost)) = 0
      BY <1>4, FS_EmptySet
    <2>5. u = Cardinality(V \cup (back \cup lost))
      BY <1>4
    <2> HIDE DEF u, v, nb, nl
    <2> QED
      BY <2>1, <2>2, <2>3, <2>4, <2>5
  <1>6. /\ back = {} => avail = b.available /\ nb = 0
        /\ back # {} => avail = Least(b.capacity, base + Estimate * nb)
    BY FS_EmptySet
  <1>7. /\ Credit(b) <= Credit(x)
        /\ back # {} => base - b.available <= Credit(x) - Credit(b)
        /\ b.available <= b.capacity /\ b.available <= base
    <2>1. /\ Credit(b) <= Credit(Touched(b, t))
          /\ Refilled(b, t) - b.available <= Credit(Touched(b, t)) - Credit(b)
          /\ b.available <= b.capacity /\ b.available <= Refilled(b, t)
          /\ Credit(Touched(b, t)) \in Int /\ Refilled(b, t) \in Int
      <3>1. b.updated <= t + MaxLag /\ b.available <= b.capacity
        BY DEF NotAhead, Floor
      <3>2. Touched(b, t) \in BucketRow
        BY <1>1, TouchedRow
      <3> HIDE DEF b
      <3> QED
        BY <1>1, <3>1, <3>2, RefilledBounds, RefilledType, CreditType
    <2>2. b.available \in Int /\ (back # {} => holds # {})
      BY <1>1 DEF BucketRow
    <2>3. holds = {} \/ x = Touched(b, t)
      OBVIOUS
    <2>4. holds # {} \/ x = b
      OBVIOUS
    <2>5. base = Refilled(b, t) \/ base = b.available
      OBVIOUS
    <2> HIDE DEF b, x, base, holds, back
    <2> QED
      BY <1>2, <2>1, <2>2, <2>3, <2>4, <2>5
  <1>8. /\ base \in Int /\ b.available \in Int /\ b.capacity \in Int /\ b.spent \in Nat
    BY <1>1, RefilledType DEF BucketRow
  <1>9. b.tokens /\ Floor(b, u) /\ Ceiling(b, u)
    OBVIOUS
  <1> HIDE DEF b, c, holds, back, lost, base, avail, x, U, V, u, v, nb, nl
  <1> DEFINE eb == Estimate * nb
             el == Estimate * nl
             ev == Estimate * v
  <1>10. /\ eb \in Nat /\ el \in Nat /\ ev \in Nat /\ Estimate * u = ev + (eb + el)
         /\ nb = 0 => eb = 0
    <2>1. Estimate \in Nat /\ nb + nl \in Nat
      BY <1>5, LeaseAssumption
    <2>2. Estimate * (v + (nb + nl)) = ev + Estimate * (nb + nl)
      BY <1>5, <2>1, Product
    <2>3. Estimate * (nb + nl) = eb + el
      BY <1>5, <2>1, Product
    <2> QED
      BY <1>5, <2>1, <2>2, <2>3, Product
  <1>11. /\ Owed(b, u) = b.available + (ev + (eb + el)) + b.spent
         /\ Owed(c, v) = avail + ev + (b.spent + el)
    BY <1>3, <1>10 DEF Owed
  <1>12. back # {} => avail = Least(b.capacity, base + eb)
    BY <1>6
  <1> HIDE DEF eb, el, ev
  <1>13. /\ back = {} => avail = b.available /\ eb = 0
         /\ back # {} => /\ avail \in Int /\ avail <= base + eb /\ avail <= b.capacity
                         /\ avail = b.capacity \/ avail = base + eb
    BY <1>6, <1>8, <1>10, <1>12 DEF Least
  <1>14. c.capacity <= Owed(c, v) \/ Owed(b, u) <= Owed(c, v)
    BY <1>3, <1>7, <1>8, <1>10, <1>11, <1>13
  <1>15. Credit(c) = Credit(x)
    BY <1>3 DEF Credit, Due
  <1>16. Owed(c, v) <= Owed(b, u) + (Credit(c) - Credit(b)) /\ c.available <= c.capacity
    BY <1>2, <1>3, <1>7, <1>8, <1>10, <1>11, <1>13, <1>15
  <1>17. Floor(c, v) /\ Ceiling(c, v)
    BY <1>1, <1>3, <1>5, <1>9, <1>14, <1>16, PostedLedger, ZenonT(60)
  <1>18. c.updated \in {b.updated, t}
    BY <1>2, <1>3
  <1> QED
    BY <1>17, <1>18 DEF b, c, v, V

LEMMA UnsettledCount ==
    ASSUME IInv, NEW s \in Scopes
    PROVE  /\ Unsettled(s) \in SUBSET Requests /\ IsFiniteSet(Unsettled(s))
           /\ Cardinality(Unsettled(s)) \in Nat
           /\ ~bucket[s].tokens => Cardinality(Unsettled(s)) = 0
  <1>1. Unsettled(s) \in SUBSET Requests
    BY DEF Unsettled
  <1>2. ~bucket[s].tokens => Unsettled(s) = {}
    BY DEF IInv, HoldsHaveRows, RowsExist, Unsettled
  <1> QED
    BY <1>1, <1>2, FiniteRequests, FS_EmptySet

(* A row whose tokens and leases nobody touched.                           *)
LEMMA LedgerStays ==
    ASSUME IInv, NEW s \in Scopes, LedgerInv(s), SameTokens(bucket[s], bucket'[s]),
           Unsettled(s)' = Unsettled(s), now' \in {now, now + 1}
    PROVE  LedgerInv(s)'
  <1> DEFINE u == Cardinality(Unsettled(s))
  <1>1. Cardinality(Unsettled(s))' = u
    OBVIOUS
  <1>2. Floor(bucket[s], u) /\ Ceiling(bucket[s], u) /\ NotAhead(bucket[s], now)
    BY DEF LedgerInv
  <1>3. NotAhead(bucket[s], now) => NotAhead(bucket[s], now')
    BY DEF NotAhead, IInv, TypeOK, BucketRow
  <1> HIDE DEF u
  <1>4. Floor(bucket'[s], u) /\ Ceiling(bucket'[s], u) /\ NotAhead(bucket'[s], now')
    BY <1>2, <1>3, SameLedger
  <1> QED
    BY <1>1, <1>4 DEF LedgerInv, Floor, Ceiling, Owed, Credit, Due, NotAhead

(* What has to be shown of a row that moves.                               *)
LEMMA LedgerMoves ==
    ASSUME NEW s \in Scopes, NEW c, NEW v,
           bucket'[s] = c, Cardinality(Unsettled(s))' = v,
           Floor(c, v), Ceiling(c, v), NotAhead(c, now')
    PROVE  LedgerInv(s)'
  BY DEF LedgerInv, Floor, Ceiling, Owed, Credit, Due, NotAhead

LEMMA LedgerGone ==
    ASSUME NEW s \in Scopes, bucket'[s] = NoRow
    PROVE  LedgerInv(s)'
  <1>1. ~NoRow.tokens /\ NoRow.spent = 0
    BY DEF NoRow
  <1>2. \A v : Floor(NoRow, v) /\ Ceiling(NoRow, v) /\ NotAhead(NoRow, now')
    BY <1>1 DEF Floor, Ceiling, NotAhead
  <1> QED
    BY <1>2, LedgerMoves

(* A transaction finds no row updated more than its duration after it      *)
(* began.                                                                  *)
LEMMA TxNotAhead ==
    ASSUME TypeOK, NEW t \in TxStart, NEW b \in BucketRow, NotAhead(b, now)
    PROVE  NotAhead(b, t + MaxLag)
  <1>1. t \in Nat /\ now \in Nat /\ MaxLag \in Nat /\ now <= t + MaxLag
    BY TxTime
  <1> QED
    BY <1>1 DEF NotAhead, BucketRow

(* A slot does not touch the tokens of its row.                            *)
LEMMA ReservedTokens ==
    ASSUME NEW b \in BucketRow, NEW plan \in Plan, NEW s \in Scopes, NEW t \in Nat
    PROVE  /\ plan.burst[s] > 0 =>
                SameTokens(TokensTaken(b, plan.burst[s], t), Reserved(b, plan, s, t))
           /\ ~(plan.burst[s] > 0) => SameTokens(b, Reserved(b, plan, s, t))
  <1> DEFINE x == IF plan.burst[s] > 0 THEN TokensTaken(b, plan.burst[s], t) ELSE b
  <1>1. plan.burst[s] \in Nat /\ plan.cap[s] \in Nat
    BY DEF Plan
  <1>2. x \in BucketRow
    <2>1. CASE plan.burst[s] > 0
      <3>1. x = TokensTaken(b, plan.burst[s], t)
        BY <2>1
      <3> HIDE DEF x
      <3> QED
        BY <1>1, <3>1, TokensTakenRow
    <2>2. CASE ~(plan.burst[s] > 0)
      BY <2>2
    <2> QED
      BY <2>1, <2>2
  <1>3. Reserved(b, plan, s, t) =
          IF shouldReserveConcurrency(plan, s) THEN SlotTaken(x, plan.cap[s]) ELSE x
    BY DEF Reserved
  <1>4. /\ plan.burst[s] > 0 => x = TokensTaken(b, plan.burst[s], t)
        /\ ~(plan.burst[s] > 0) => x = b
    OBVIOUS
  <1> HIDE DEF x
  <1>5. SameTokens(x, SlotTaken(x, plan.cap[s])) /\ SameTokens(x, x)
    BY <1>2 DEF SlotTaken, SameTokens, BucketRow
  <1>6. SameTokens(x, Reserved(b, plan, s, t))
    BY <1>3, <1>5
  <1> QED
    BY <1>4, <1>6

LEMMA ProvisionLedger ==
    ASSUME IInv, NEW r \in Requests, NEW p \in Procs, NEW plan \in Plans,
           NEW t \in TxStart, NEW told \in BOOLEAN, Provision(r, p, plan, t, told),
           NEW s \in Scopes, LedgerInv(s)
    PROVE  LedgerInv(s)'
  <1> DEFINE New(x) == [state |-> "reserved", node |-> NodeOf[p], epoch |-> proc[p].epoch,
                        expires |-> t + TTL, plan |-> plan,
                        slots |-> {z \in x.scopes : shouldReserveConcurrency(plan, z)},
                        tokens |-> {z \in x.scopes : plan.burst[z] > 0}]
  <1>1. PICK x \in Resolutions(plan, t) :
          /\ bucket' = [z \in Scopes |-> IF z \in x.evict THEN NoRow
                           ELSE IF z \in x.scopes THEN Reserved(bucket[z], plan, z, t)
                           ELSE bucket[z]]
          /\ lease' = [lease EXCEPT ![r] = New(x)]
    BY DEF Provision
  <1> DEFINE l == New(x)
             b == bucket[s]
             u == Cardinality(Unsettled(s))
             burst == plan.burst[s]
  <1>2. x.scopes \subseteq Scopes /\ x.evict \cap x.scopes = {}
    BY ResolutionFacts
  <1>3. /\ TypeOK /\ plan \in Plan /\ t \in Nat /\ now' = now /\ t <= now /\ now \in Nat
        /\ b \in BucketRow /\ burst \in Nat
    BY TxStartNat, LeaseAssumption DEF IInv, Provision, TxStart, TypeOK, Plan
  <1>4. l.state = "reserved" /\ l.tokens = {z \in x.scopes : plan.burst[z] > 0}
    OBVIOUS
  <1>5. lease'[r] = l /\ \A q \in Requests \ {r} : lease'[q] = lease[q]
    BY <1>1, <1>3 DEF TypeOK
  <1> HIDE DEF l, New
  <1>6. r \notin Unsettled(s)
    BY DEF Provision, Unsettled
  <1>7. CASE s \in x.evict
    BY <1>1, <1>7, LedgerGone
  <1>8. CASE s \in x.scopes /\ burst > 0
    <2> DEFINE c == Reserved(b, plan, s, t)
    <2>1. Unsettled(s)' = Unsettled(s) \cup {r}
      BY <1>4, <1>5, <1>8 DEF Unsettled
    <2>2. u \in Nat /\ IsFiniteSet(Unsettled(s)) /\ (~b.tokens => u = 0)
      BY UnsettledCount
    <2>3. Cardinality(Unsettled(s) \cup {r}) = u + 1
      BY <1>6, <2>2, FS_AddElement
    <2>4. Cardinality(Unsettled(s))' = u + 1
      BY <2>1, <2>3
    <2>5. bucket'[s] = c
      BY <1>1, <1>2, <1>8
    <2>6. SameTokens(TokensTaken(b, burst, t), c)
      BY <1>3, <1>8, ReservedTokens
    <2> DEFINE d == TokensTaken(b, burst, t)
    <2>7. Floor(b, u) /\ Ceiling(b, u) /\ NotAhead(b, now)
      BY DEF LedgerInv
    <2> HIDE DEF b, u, c
    <2>8. NotAhead(b, t + MaxLag)
      BY <1>3, <2>7, TxNotAhead
    <2>9. Floor(d, u + 1) /\ Ceiling(d, u + 1) /\ d.updated = t
      BY <1>3, <2>2, <2>7, <2>8, TakenLedger
    <2> HIDE DEF d
    <2>10. NotAhead(d, now')
      BY <1>3, <2>9 DEF NotAhead
    <2>11. Floor(c, u + 1) /\ Ceiling(c, u + 1) /\ NotAhead(c, now')
      BY <2>6, <2>9, <2>10, SameLedger DEF d
    <2> QED
      BY <2>4, <2>5, <2>11, LedgerMoves
  <1>9. CASE s \notin x.evict /\ ~(s \in x.scopes /\ burst > 0)
    <2>1. Unsettled(s)' = Unsettled(s)
      <3>1. s \notin lease'[r].tokens
        BY <1>4, <1>5, <1>9
      <3> QED
        BY <1>5, <1>6, <3>1 DEF Unsettled
    <2>2. SameTokens(b, bucket'[s])
      <3>1. CASE s \in x.scopes
        <4>1. bucket'[s] = Reserved(b, plan, s, t) /\ ~(plan.burst[s] > 0)
          BY <1>1, <1>9, <3>1
        <4> QED
          BY <1>3, <4>1, ReservedTokens
      <3>2. CASE s \notin x.scopes
        BY <1>1, <1>9, <3>2 DEF SameTokens
      <3> QED
        BY <3>1, <3>2
    <2> QED
      BY <1>3, <2>1, <2>2, LedgerStays
  <1> QED
    BY <1>7, <1>8, <1>9

LEMMA SettleLedger ==
    ASSUME IInv, NEW r \in Requests, NEW actual \in Actuals, NEW t \in TxStart,
           NEW told \in BOOLEAN, Settle(r, actual, t, told), NEW s \in Scopes, LedgerInv(s)
    PROVE  LedgerInv(s)'
  <1> DEFINE b == bucket[s]
             U == Unsettled(s)
             u == Cardinality(U)
             v == Cardinality(U \ {r})
  <1>1. /\ TypeOK /\ t \in Nat /\ now' = now /\ t <= now /\ now \in Nat
        /\ b \in BucketRow /\ actual \in Nat
    BY TxStartNat, LeaseAssumption DEF IInv, Settle, TxStart, TypeOK
  <1>2. /\ lease'[r].state = "settled" /\ lease'[r].tokens = lease[r].tokens
        /\ lease[r].state \in {"reserved", "forwarded"}
        /\ \A q \in Requests \ {r} : lease'[q] = lease[q]
    BY <1>1 DEF Settle, TypeOK, LeaseRow
  <1>3. bucket'[s] = IF s \in lease[r].tokens THEN settleBucket(b, actual, t) ELSE b
    BY DEF Settle
  <1>4. Unsettled(s)' = U \ {r}
    BY <1>2 DEF Unsettled
  <1>5. CASE s \in lease[r].tokens
    <2> DEFINE c == settleBucket(b, actual, t)
    <2>1. r \in U /\ b.tokens
      BY <1>2, <1>5 DEF Unsettled, IInv, HoldsHaveRows, RowsExist
    <2>2. IsFiniteSet(U) /\ u \in Nat /\ U \in SUBSET Requests
      BY UnsettledCount
    <2>3. v \in Nat /\ u = v + 1
      <3> HIDE DEF U
      <3>1. Cardinality(U \ {r}) = Cardinality(U) - 1
        BY <2>1, <2>2, FS_RemoveElement
      <3>2. U \ {r} \in SUBSET Requests
        BY <2>2
      <3>3. v \in Nat
        BY <3>2, FiniteRequests
      <3> QED
        BY <2>2, <3>1, <3>3
    <2>4. Cardinality(Unsettled(s))' = v /\ bucket'[s] = c
      BY <1>3, <1>4, <1>5
    <2>5. Floor(b, u) /\ Ceiling(b, u) /\ NotAhead(b, now)
      BY DEF LedgerInv
    <2> HIDE DEF b, u, v, U
    <2>6. NotAhead(b, t + MaxLag)
      BY <1>1, <2>5, TxNotAhead
    <2>7. Floor(c, v) /\ Ceiling(c, v) /\ c.updated = t
      BY <1>1, <2>1, <2>3, <2>5, <2>6, SettledLedger
    <2> HIDE DEF c
    <2>8. NotAhead(c, now')
      BY <1>1, <2>7 DEF NotAhead
    <2> QED
      BY <2>4, <2>7, <2>8, LedgerMoves
  <1>6. CASE s \notin lease[r].tokens
    <2>1. U \ {r} = U /\ SameTokens(bucket[s], bucket'[s])
      BY <1>3, <1>6 DEF Unsettled, SameTokens
    <2> QED
      BY <1>1, <1>4, <2>1, LedgerStays
  <1> QED
    BY <1>5, <1>6

LEMMA ReleaseLedger ==
    ASSUME IInv, NEW rs \in SUBSET Requests, NEW t \in TxStart, Released(rs, t), now' = now,
           NEW s \in Scopes, LedgerInv(s)
    PROVE  LedgerInv(s)'
  <1> DEFINE b == bucket[s]
             c == releaseBucket(s, rs, t)
             u == Cardinality(Unsettled(s))
             v == Cardinality(Unsettled(s) \ rs)
  <1>1. TypeOK /\ t \in Nat /\ t <= now /\ now \in Nat /\ b \in BucketRow
    BY TxStartNat DEF IInv, TxStart, TypeOK
  <1>2. bucket'[s] = c
    BY DEF Released
  <1>3. Unsettled(s)' = Unsettled(s) \ rs
    <2>1. \A r \in Requests : /\ r \in rs => lease'[r].state = "released"
                              /\ r \notin rs => lease'[r] = lease[r]
      BY <1>1 DEF Released, TypeOK, LeaseRow
    <2> QED
      BY <2>1 DEF Unsettled
  <1>4. Cardinality(Unsettled(s))' = v
    BY <1>3
  <1>5. Floor(b, u) /\ Ceiling(b, u) /\ NotAhead(b, now)
    BY DEF LedgerInv
  <1>6. c \in BucketRow /\ c.tokens = b.tokens
    BY <1>1, ReleasedRow
  <1>7. CASE b.tokens
    <2>1. NotAhead(b, t + MaxLag)
      BY <1>1, <1>5, TxNotAhead
    <2>2. Floor(c, v) /\ Ceiling(c, v) /\ c.updated \in {b.updated, t}
      BY <1>1, <1>5, <1>7, <2>1, ReleasedLedger
    <2> HIDE DEF b, c, u, v
    <2>3. NotAhead(c, now')
      BY <1>1, <1>5, <1>7, <2>2 DEF NotAhead
    <2> QED
      BY <1>2, <1>4, <2>2, <2>3, LedgerMoves
  <1>8. CASE ~b.tokens
    <2>1. c.spent = 0
      <3> DEFINE lost == {r \in {q \in rs : s \in lease[q].tokens} : lease[r].state = "forwarded"}
      <3>1. lost = {}
        BY <1>8 DEF IInv, HoldsHaveRows, RowsExist
      <3>2. {q \in rs : s \in lease[q].tokens} = {}
        BY <1>8 DEF IInv, HoldsHaveRows, RowsExist
      <3>3. Estimate * Cardinality(lost) = 0
        <4>1. Cardinality(lost) = 0
          BY <3>1, FS_EmptySet
        <4> HIDE DEF lost
        <4> QED
          BY <4>1, LeaseAssumption
      <3> DEFINE used == Most(0, b.used - Cardinality({q \in rs : s \in lease[q].slots}))
                 back == {r \in {q \in rs : s \in lease[q].tokens} : lease[r].state = "reserved"}
      <3>4. back = {}
        BY <3>2
      <3>5. c = [b EXCEPT !.used = used, !.available = b.available,
                          !.spent = b.spent + Estimate * Cardinality(lost)]
        BY <3>2, <3>4 DEF releaseBucket
      <3>6. b.spent = 0
        BY <1>5, <1>8 DEF Floor
      <3> HIDE DEF lost, b, c, used
      <3> QED
        BY <1>1, <3>3, <3>5, <3>6 DEF BucketRow
    <2> HIDE DEF b, c, u, v
    <2>2. Floor(c, v) /\ Ceiling(c, v) /\ NotAhead(c, now')
      BY <1>6, <1>8, <2>1 DEF Floor, Ceiling, NotAhead
    <2> QED
      BY <1>2, <1>4, <2>2, LedgerMoves
  <1> QED
    BY <1>7, <1>8

LEMMA NextLedger ==
    ASSUME IInv, [Next]_vars, NEW s \in Scopes, LedgerInv(s)
    PROVE  LedgerInv(s)'
  <1>1. ASSUME bucket' = bucket, Unsettled(s)' = Unsettled(s), now' \in {now, now + 1}
        PROVE  LedgerInv(s)'
    BY <1>1, LedgerStays DEF SameTokens
  <1>2. ASSUME bucket' = bucket, lease' = lease, now' \in {now, now + 1}
        PROVE  LedgerInv(s)'
    BY <1>1, <1>2 DEF Unsettled
  <1>3. ASSUME NEW D \in SUBSET Scopes, lease' = lease, now' = now,
               bucket' = [z \in Scopes |-> IF z \in D THEN NoRow ELSE bucket[z]]
        PROVE  LedgerInv(s)'
    <2>1. CASE s \in D
      BY <1>3, <2>1, LedgerGone
    <2>2. CASE s \notin D
      <3>1. bucket'[s] = bucket[s] /\ Unsettled(s)' = Unsettled(s)
        BY <1>3, <2>2 DEF Unsettled
      <3> QED
        BY <1>3, <3>1, LedgerStays DEF SameTokens
    <2> QED
      BY <2>1, <2>2
  <1>4. ASSUME NEW r \in Requests, RequestStep(r) PROVE LedgerInv(s)'
    <2>1. ASSUME NEW t \in TxStart, NEW told \in BOOLEAN, NEW p \in Procs, NEW plan \in Plans,
                 Provision(r, p, plan, t, told)
          PROVE  LedgerInv(s)'
      BY <2>1, ProvisionLedger
    <2>2. ASSUME NEW t \in TxStart, NEW told \in BOOLEAN, NEW actual \in Actuals,
                 Settle(r, actual, t, told)
          PROVE  LedgerInv(s)'
      BY <2>2, SettleLedger
    <2>3. ASSUME NEW t \in TxStart, NEW told \in BOOLEAN,
                 MarkForwarded(r, t, told) \/ Renew(r, t, told)
          PROVE  LedgerInv(s)'
      <3>1. bucket' = bucket /\ now' = now
        BY <2>3 DEF MarkForwarded, Renew
      <3>2. /\ lease[r].state \in {"reserved", "forwarded"}
            /\ lease'[r].state \in {"reserved", "forwarded"}
            /\ lease'[r].tokens = lease[r].tokens
            /\ \A q \in Requests \ {r} : lease'[q] = lease[q]
        <4>1. lease \in [Requests -> LeaseRow]
          BY DEF IInv, TypeOK
        <4>2. CASE MarkForwarded(r, t, told)
          <5>1. /\ lease' = [lease EXCEPT ![r].state = "forwarded"]
                /\ lease[r].state = "reserved"
            BY <4>2 DEF MarkForwarded
          <5> QED
            BY <4>1, <5>1 DEF LeaseRow
        <4>3. CASE Renew(r, t, told)
          <5>1. /\ lease' = [lease EXCEPT ![r].expires = t + TTL]
                /\ lease[r].state \in {"reserved", "forwarded"}
            BY <4>3 DEF Renew
          <5> QED
            BY <4>1, <5>1 DEF LeaseRow
        <4> QED
          BY <2>3, <4>2, <4>3
      <3>3. Unsettled(s)' = Unsettled(s)
        BY <3>2 DEF Unsettled
      <3> QED
        BY <1>1, <3>1, <3>3
    <2>4. ASSUME NEW t \in TxStart, Release(r, t) PROVE LedgerInv(s)'
      <3>1. now' = now /\ (Released({r}, t) \/ UNCHANGED <<bucket, lease>>)
        BY <2>4 DEF Release
      <3>2. {r} \in SUBSET Requests
        OBVIOUS
      <3>3. CASE Released({r}, t)
        BY <3>1, <3>2, <3>3, ReleaseLedger
      <3>4. CASE UNCHANGED <<bucket, lease>>
        BY <1>2, <3>1, <3>4
      <3> QED
        BY <3>1, <3>3, <3>4
    <2>5. ASSUME \/ AlreadyForwarded(r) \/ EndUpstream(r) \/ Fail(r)
                 \/ \E t \in TxStart : SettleNothing(r, t)
                 \/ \E t \in TxStart, p \in Procs, plan \in Plans : Replay(r, p, plan, t)
          PROVE  LedgerInv(s)'
      <3>1. bucket' = bucket /\ lease' = lease /\ now' = now
        BY <2>5 DEF AlreadyForwarded, EndUpstream, Fail, SettleNothing, Replay
      <3> QED
        BY <1>2, <3>1
    <2> QED
      BY <1>4, <2>1, <2>2, <2>3, <2>4, <2>5 DEF RequestStep
  <1>5. ASSUME NEW p \in Procs, ProcStep(p) PROVE LedgerInv(s)'
    <2>1. ASSUME NEW t \in TxStart, Reap(p, t) PROVE LedgerInv(s)'
      <3> DEFINE expired == {r \in Requests : lease[r].state \in Held /\ lease[r].expires <= t}
      <3>1. Released(expired, t) /\ now' = now
        BY <2>1 DEF Reap
      <3>2. expired \in SUBSET Requests
        OBVIOUS
      <3> HIDE DEF expired
      <3> QED
        BY <3>1, <3>2, ReleaseLedger
    <2>2. ASSUME NEW z \in Removable, RemoveScope(p, z) PROVE LedgerInv(s)'
      <3>1. {z} \in SUBSET Scopes
        BY LeaseAssumption
      <3>2. bucket' = [y \in Scopes |-> IF y \in {z} THEN NoRow ELSE bucket[y]]
        BY <2>2, <3>1 DEF RemoveScope, IInv, TypeOK
      <3>3. lease' = lease /\ now' = now
        BY <2>2 DEF RemoveScope
      <3> QED
        BY <1>3, <3>1, <3>2, <3>3
    <2>3. ASSUME \/ Register(p) \/ Heartbeat(p) \/ MarkDraining(p) \/ Close(p) \/ Crash(p)
                 \/ FindFenced(p)
          PROVE  LedgerInv(s)'
      <3>1. bucket' = bucket /\ lease' = lease /\ now' = now
        BY <2>3 DEF Register, Heartbeat, MarkDraining, Close, Crash, FindFenced
      <3> QED
        BY <1>2, <3>1
    <2> QED
      BY <1>5, <2>1, <2>2, <2>3 DEF ProcStep
  <1>6. CASE MaintainSources
    <2> DEFINE idle == {z \in SourceScopes : safeIdleSourceScope(z, now)}
    <2>1. /\ bucket' = [z \in Scopes |-> IF z \in idle THEN NoRow ELSE bucket[z]]
          /\ lease' = lease /\ now' = now
      BY <1>6 DEF MaintainSources
    <2>2. idle \in SUBSET Scopes
      BY LeaseAssumption
    <2> HIDE DEF idle
    <2> QED
      BY <1>3, <2>1, <2>2
  <1>7. CASE Tick
    BY <1>2, <1>7 DEF Tick
  <1>8. CASE UNCHANGED vars
    BY <1>2, <1>8 DEF vars
  <1> QED
    BY <1>4, <1>5, <1>6, <1>7, <1>8 DEF Next

(* The ledger of every token row is kept, with the inductive invariant.    *)
THEOREM LedgerInvariance == Spec => [](IInv /\ \A s \in Scopes : LedgerInv(s))
  <1> DEFINE All == \A s \in Scopes : LedgerInv(s)
  <1>1. Init => All
    <2> SUFFICES ASSUME Init, NEW s \in Scopes PROVE LedgerInv(s)
      OBVIOUS
    <2>1. ~bucket[s].tokens /\ bucket[s].spent = 0
      BY DEF Init, NoRow
    <2> QED
      BY <2>1 DEF LedgerInv, Floor, Ceiling, NotAhead
  <1>2. ASSUME IInv, [Next]_vars, All PROVE All'
    BY <1>2, NextLedger
  <1> QED
    <2> HIDE DEF All
    <2>1. Spec => [](IInv /\ All)
      BY <1>1, <1>2, Invariance, PTL DEF Spec
    <2> QED
      BY <2>1 DEF All

(* What a bucket can still grant, what is reserved of it and what was      *)
(* consumed balance (TokenLedger), whatever the policies, the latency of   *)
(* transactions and the order of settlement, release, expiry and replay    *)
(* (loadResourceBucket, settleBucket, releaseBucket): nothing of the       *)
(* capacity gets lost, and beyond what the policies gave and the time      *)
(* refilled a row gains at most the refill of a transaction's duration     *)
(* for each transaction that overtook a later one.                         *)
THEOREM TokensBalance == Spec => []TokenLedger
  <1> DEFINE All == \A s \in Scopes : LedgerInv(s)
  <1>1. ASSUME IInv, All PROVE TokenLedger
    <2> SUFFICES ASSUME NEW s \in Scopes, bucket[s].tokens
                 PROVE  LET b == bucket[s]
                            owed == b.available + Estimate * Cardinality(Unsettled(s)) + b.spent
                        IN  /\ owed <= b.granted + Rate * (now - b.created + MaxLag * b.late)
                            /\ owed >= b.capacity
      BY DEF TokenLedger
    <2> DEFINE b == bucket[s]
               owed == Owed(b, Cardinality(Unsettled(s)))
               due == now - b.created + MaxLag * b.late
    <2>1. LedgerInv(s)
      BY <1>1
    <2>2. b.capacity <= owed /\ owed <= Credit(b) /\ b.updated <= now
      BY <2>1 DEF LedgerInv, Floor, Ceiling, NotAhead
    <2>3. b \in BucketRow /\ now \in Int
      BY <1>1 DEF IInv, TypeOK
    <2>4. Cardinality(Unsettled(s)) \in Nat
      BY <1>1, UnsettledCount
    <2>5. owed = b.available + Estimate * Cardinality(Unsettled(s)) + b.spent
      BY DEF Owed
    <2> HIDE DEF b
    <2>6. /\ b.available \in Int /\ b.spent \in Int /\ b.granted \in Int /\ b.capacity \in Int
          /\ b.updated \in Int /\ b.created \in Int /\ MaxLag * b.late \in Int
      BY <2>3, Product, LeaseAssumption DEF BucketRow
    <2>7. owed \in Int
      <3>1. Estimate * Cardinality(Unsettled(s)) \in Nat
        BY <2>4, Product, LeaseAssumption
      <3> QED
        BY <2>5, <2>6, <3>1
    <2>8. Due(b) \in Int /\ due \in Int /\ Due(b) <= due
      BY <2>2, <2>3, <2>6 DEF Due
    <2> HIDE DEF owed, due
    <2>9. Rate * Due(b) \in Int /\ Rate * due \in Int /\ Rate * Due(b) <= Rate * due
      BY <2>8, RefillOver
    <2>10. owed <= b.granted + Rate * due /\ owed >= b.capacity
      BY <2>2, <2>6, <2>7, <2>9 DEF Credit
    <2> QED
      BY <2>5, <2>10 DEF b, due
  <1> HIDE DEF All
  <1>2. Spec => [](IInv /\ All)
    BY LedgerInvariance DEF All
  <1> QED
    BY <1>1, <1>2, PTL
=============================================================================
