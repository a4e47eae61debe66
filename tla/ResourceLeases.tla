---------------------------- MODULE ResourceLeases ----------------------------
(***************************************************************************)
(* Resource reservations of a cluster on the shared PostgreSQL authority   *)
(* (internal/statepg/resource.go), under node membership and fencing       *)
(* (internal/statepg/membership.go), driven by the proxy's request         *)
(* lifecycle (internal/proxy/proxy.go).                                    *)
(*                                                                         *)
(*   - A gateway process registers under its node id and gets a new epoch; *)
(*     every authority transaction checks that the epoch is still the      *)
(*     node's and that its heartbeat is not older than the lease TTL.      *)
(*   - A request reserves a concurrency slot and an estimate in each of    *)
(*     its scopes, all or nothing, as one lease with a TTL; it marks the   *)
(*     lease forwarded before it contacts the backend, renews it, settles  *)
(*     the actual use and releases it.                                     *)
(*   - Leases whose owner is gone are released by any node's reaper.       *)
(*                                                                         *)
(* A transaction is one step: it locks the rows it changes, in one order,  *)
(* until it commits.  The time it works with is the database clock at its  *)
(* start, up to MaxLag ticks before its commit.  A commit whose answer is  *)
(* lost is an error to the caller (told = FALSE).  One token dimension;    *)
(* readiness of behaviour, policy and cryptography is that of other        *)
(* modules.  Released rows are kept, as they are for the retention time.   *)
(***************************************************************************)
EXTENDS Integers, FiniteSets

CONSTANTS
    Nodes,
    Procs,          \* gateway processes
    NodeOf,         \* process -> the node id it is configured with
    None,           \* no process, no node
    Requests,       \* requests, and the request ids they carry
    Scopes,
    SourceScopes,   \* the scopes of the bounded source table
    Overflow,       \* source scope -> the shared scope it overflows to
    MaxSourceScopes, SourceIdle,
    Plans,          \* scope sets with the limits the policy puts on them
    Estimate,       \* tokens reserved per scope
    Actuals,        \* tokens a request may turn out to have used
    Rate,           \* tokens a bucket regains per tick
    TTL,            \* lease and membership TTL
    Removable,      \* scopes RemoveScope may be called for (evicted lanes)
    MaxLag,         \* bound on the duration of a transaction
    Horizon,        \* bound on the time of provisions, renewals and crashes
    MaxTime,        \* bound on the clock
    MaxEpoch        \* bound on restarts of a node

Plan == [scopes : SUBSET Scopes, cap : [Scopes -> Nat], burst : [Scopes -> Nat]]

ASSUME LeaseAssumption ==
    /\ IsFiniteSet(Requests)
    /\ NodeOf \in [Procs -> Nodes]
    /\ None \notin Procs /\ None \notin Nodes
    /\ SourceScopes \subseteq Scopes
    /\ Overflow \in [SourceScopes -> Scopes \ SourceScopes]
    /\ MaxSourceScopes \in Nat /\ SourceIdle \in Nat
    /\ Plans \subseteq Plan
    /\ \A p \in Plans : \A s \in p.scopes \cap SourceScopes :
          /\ p.scopes \cap SourceScopes = {s}
          /\ Overflow[s] \notin p.scopes
          /\ p.cap[Overflow[s]] = p.cap[s] /\ p.burst[Overflow[s]] = p.burst[s]
    /\ Estimate \in Nat /\ Actuals \subseteq Nat /\ Rate \in Nat
    /\ TTL \in Nat \ {0} /\ MaxLag \in Nat
    /\ Removable \subseteq Scopes \ SourceScopes
    /\ Horizon \in Nat /\ MaxTime \in Nat /\ Horizon + TTL <= MaxTime
    /\ MaxEpoch \in Nat

VARIABLES
    now,        \* the database clock
    member,     \* node -> gripline_membership row
    proc,       \* process -> running, its epoch, its fenced flag
    bucket,     \* scope -> its rows of gripline_resource_buckets
    source,     \* source scope -> last_used_at, 0 when not in the table
    lease,      \* request id -> gripline_resource_leases row and its holds
    req         \* request -> the proxy's progress and reservation handle

vars == <<now, member, proc, bucket, source, lease, req>>

Held == {"reserved", "forwarded", "settled"}

(* The concurrency row of a scope (slot, used; cap and room are its        *)
(* capacity and available columns) and its token row.  The last four are   *)
(* history: what was consumed of the token row, its creation, the burst    *)
(* and headroom policies gave it, the updates that moved its time back.    *)
NoRow == [slot |-> FALSE, used |-> 0, cap |-> 0, room |-> 0,
          tokens |-> FALSE, capacity |-> 0, available |-> 0, updated |-> 0,
          spent |-> 0, created |-> 0, granted |-> 0, late |-> 0]

NoPlan == [scopes |-> {}, cap |-> [s \in Scopes |-> 0], burst |-> [s \in Scopes |-> 0]]

NoLease == [state |-> "none", node |-> None, epoch |-> 0, expires |-> 0,
            slots |-> {}, tokens |-> {}, plan |-> NoPlan]

NoReq == [pc |-> "idle", proc |-> None, forwarded |-> FALSE, settled |-> FALSE,
          expires |-> 0]

(* The handle of a lease.                                                  *)
Granted(p, forwarded, settled, expires) ==
    [pc |-> "granted", proc |-> p, forwarded |-> forwarded, settled |-> settled,
     expires |-> expires]

Init ==
    /\ now = 1
    /\ member = [n \in Nodes |-> [epoch |-> 0, state |-> "stopped", seen |-> 0]]
    /\ proc = [p \in Procs |-> [up |-> FALSE, epoch |-> 0, fenced |-> FALSE]]
    /\ bucket = [s \in Scopes |-> NoRow]
    /\ source = [s \in SourceScopes |-> 0]
    /\ lease = [r \in Requests |-> NoLease]
    /\ req = [r \in Requests |-> NoReq]

-----------------------------------------------------------------------------
(***************************************************************************)
(* Membership and fencing.                                                 *)
(***************************************************************************)
RowOf(p) == member[NodeOf[p]]

Current(p) == RowOf(p).epoch = proc[p].epoch

(* Mutant: the epoch of the row is not compared.                           *)
OwnsAnyEpoch(p, allowDraining, t) ==
    /\ proc[p].up /\ ~proc[p].fenced
    /\ t - RowOf(p).seen < TTL
    /\ RowOf(p).state = "ready" \/ (allowDraining /\ RowOf(p).state = "draining")

(* requireNodeMembership passes, for a transaction that began at t.        *)
Owns(p, allowDraining, t) ==
    /\ proc[p].up /\ ~proc[p].fenced /\ Current(p)
    /\ t - RowOf(p).seen < TTL
    /\ RowOf(p).state = "ready" \/ (allowDraining /\ RowOf(p).state = "draining")

(* It finds the process replaced, silent for too long, or stopped, and     *)
(* fences it for good.                                                     *)
Lapsed(p) == ~Current(p) \/ now - RowOf(p).seen >= TTL \/ RowOf(p).state = "stopped"

FencedIf(p, cond) == [proc EXCEPT ![p].fenced = @ \/ cond]

(* registerNode: refused while an instance of the node is alive.           *)
Register(p) ==
    LET row == RowOf(p) IN
    /\ ~proc[p].up /\ row.epoch < MaxEpoch
    /\ row.state = "stopped" \/ now - row.seen >= TTL
    /\ member' = [member EXCEPT ![NodeOf[p]] =
                    [epoch |-> row.epoch + 1, state |-> "ready", seen |-> now]]
    /\ proc' = [proc EXCEPT ![p] = [up |-> TRUE, epoch |-> row.epoch + 1, fenced |-> FALSE]]
    /\ UNCHANGED <<now, bucket, source, lease, req>>

(* heartbeatNode: it does not look at the age of the last one.             *)
Heartbeat(p) ==
    /\ proc[p].up /\ ~proc[p].fenced
    /\ IF Current(p) /\ RowOf(p).state # "stopped"
       THEN /\ member' = [member EXCEPT ![NodeOf[p]].seen = now]
            /\ UNCHANGED proc
       ELSE /\ proc' = FencedIf(p, TRUE)
            /\ UNCHANGED member
    /\ UNCHANGED <<now, bucket, source, lease, req>>

MarkDraining(p) ==
    /\ proc[p].up /\ ~proc[p].fenced /\ now <= Horizon
    /\ IF Current(p) /\ RowOf(p).state # "stopped"
       THEN /\ member' = [member EXCEPT ![NodeOf[p]] =
                            [@ EXCEPT !.state = "draining", !.seen = now]]
            /\ UNCHANGED proc
       ELSE /\ proc' = FencedIf(p, TRUE)
            /\ UNCHANGED member
    /\ UNCHANGED <<now, bucket, source, lease, req>>

(* The requests of a process end with it; their leases stay behind.        *)
Exit(p) ==
    /\ proc' = [proc EXCEPT ![p].up = FALSE]
    /\ req' = [r \in Requests |->
                 IF req[r].proc = p THEN NoReq ELSE req[r]]

(* Close: markNodeStopped, when the row is still this instance's.          *)
Close(p) ==
    /\ proc[p].up /\ now <= Horizon
    /\ IF Current(p)
       THEN member' = [member EXCEPT ![NodeOf[p]] =
                         [@ EXCEPT !.state = "stopped", !.seen = now]]
       ELSE UNCHANGED member
    /\ Exit(p)
    /\ UNCHANGED <<now, bucket, source, lease>>

(* A crash, or the supervisor ending a fenced process.                     *)
Crash(p) ==
    /\ proc[p].up /\ (now <= Horizon \/ proc[p].fenced)
    /\ Exit(p)
    /\ UNCHANGED <<now, member, bucket, source, lease>>

-----------------------------------------------------------------------------
(***************************************************************************)
(* Bucket rows.                                                            *)
(***************************************************************************)
Least(a, b) == IF a <= b THEN a ELSE b

Most(a, b) == IF a <= b THEN b ELSE a

(* Continuous refill up to capacity.                                       *)
Refilled(b, t) ==
    IF Rate > 0 /\ t > b.updated
    THEN Least(b.capacity, b.available + Rate * (t - b.updated))
    ELSE b.available

(* updated_at becomes the time of the transaction, which may be earlier.   *)
Touched(b, t) ==
    [b EXCEPT !.updated = t, !.late = IF t < b.updated THEN @ + 1 ELSE @]

(* loadResourceBucket: create the row, or refill it and take over the      *)
(* limits of the present policy, adding the headroom of a higher capacity. *)
loadResourceBucket(b, burst, t) ==
    IF ~b.tokens
    THEN [b EXCEPT !.tokens = TRUE, !.capacity = burst, !.available = burst,
                   !.updated = t, !.created = t, !.granted = burst]
    ELSE LET raised == IF burst > b.capacity THEN burst - b.capacity ELSE 0
         IN  [Touched(b, t) EXCEPT !.capacity = burst,
                                   !.available = Least(burst, Refilled(b, t) + raised),
                                   !.granted = @ + raised]

shouldReserveConcurrency(plan, s) == plan.cap[s] > 0 \/ plan.burst[s] = 0

(* reserveResourceGauge admits the scope's slot and its tokens.            *)
Admits(b, plan, s, t) ==
    /\ shouldReserveConcurrency(plan, s) => b.used + 1 <= plan.cap[s]
    /\ plan.burst[s] > 0 => loadResourceBucket(b, plan.burst[s], t).available >= Estimate

(* The concurrency row's available column is its capacity at creation; it  *)
(* follows the capacity down and not up.                                   *)
SlotTaken(b, cap) ==
    [b EXCEPT !.slot = TRUE, !.used = @ + 1, !.cap = cap,
              !.room = IF b.slot THEN Least(@, cap) ELSE cap]

TokensTaken(b, burst, t) ==
    [loadResourceBucket(b, burst, t) EXCEPT !.available = @ - Estimate]

Reserved(b, plan, s, t) ==
    LET x == IF plan.burst[s] > 0 THEN TokensTaken(b, plan.burst[s], t) ELSE b
    IN  IF shouldReserveConcurrency(plan, s) THEN SlotTaken(x, plan.cap[s]) ELSE x

settleBucket(b, actual, t) ==
    [Touched(b, t) EXCEPT
        !.available = Least(b.capacity, Refilled(b, t) - (actual - Estimate)),
        !.spent = @ + actual]

(* releaseBucket for the slots and the tokens of a set of leases: slots    *)
(* come back, only a lease that was never forwarded refunds its estimate.  *)
(* updated_at moves in either case, the refill is only computed for a      *)
(* refund, and a row refunded after one that was not finds it moved.       *)
RefundFirst(rs) ==
    \E r \in rs : lease[r].state = "reserved" /\ \A q \in rs : lease[r].expires <= lease[q].expires

(* Mutant: a forwarded lease keeps its slot.                               *)
releaseBucketKeepsForwarded(s, rs, t) ==
    [bucket[s] EXCEPT !.used = Most(0, @ - Cardinality(
        {r \in rs : s \in lease[r].slots /\ lease[r].state # "forwarded"}))]

(* Mutant: a forwarded lease refunds its estimate too.                     *)
releaseBucketRefundsForwarded(s, rs, t) ==
    LET b == bucket[s]
        slots == {r \in rs : s \in lease[r].slots}
        holds == {r \in rs : s \in lease[r].tokens}
        back == {r \in holds : lease[r].state \in {"reserved", "forwarded"}}
        lost == {r \in holds : lease[r].state = "forwarded"}
    IN  [(IF holds = {} THEN b ELSE Touched(b, t)) EXCEPT
            !.used = Most(0, @ - Cardinality(slots)),
            !.available = Least(b.capacity, @ + Estimate * Cardinality(back)),
            !.spent = @ + Estimate * Cardinality(lost)]

releaseBucket(s, rs, t) ==
    LET b == bucket[s]
        slots == {r \in rs : s \in lease[r].slots}
        holds == {r \in rs : s \in lease[r].tokens}
        back == {r \in holds : lease[r].state = "reserved"}
        lost == {r \in holds : lease[r].state = "forwarded"}
        base == IF RefundFirst(holds) THEN Refilled(b, t) ELSE b.available
    IN  [(IF holds = {} THEN b ELSE Touched(b, t)) EXCEPT
            !.used = Most(0, @ - Cardinality(slots)),
            !.available = IF back = {} THEN @
                          ELSE Least(b.capacity, base + Estimate * Cardinality(back)),
            !.spent = @ + Estimate * Cardinality(lost)]

(* Every row a lease holds is still there, or its release fails.           *)
RowsExist(r) ==
    /\ \A s \in lease[r].slots : bucket[s].slot
    /\ \A s \in lease[r].tokens : bucket[s].tokens

-----------------------------------------------------------------------------
(***************************************************************************)
(* Source scopes: a bounded table, eviction of idle entries, overflow.     *)
(***************************************************************************)
Holders(s) == {r \in Requests : lease[r].state \in Held /\ s \in lease[r].slots \cup lease[r].tokens}

InTable == {s \in SourceScopes : source[s] # 0}

(* Mutant: holds are not looked at.                                        *)
safeIdleSourceScopeInUse(s, t) ==
    /\ source[s] # 0 /\ source[s] <= t - SourceIdle
    /\ bucket[s].tokens =>
          bucket[s].available + Rate * (t - bucket[s].updated) >= bucket[s].capacity

safeIdleSourceScope(s, t) ==
    /\ source[s] # 0 /\ source[s] <= t - SourceIdle
    /\ Holders(s) = {}
    /\ bucket[s].used = 0 /\ bucket[s].room >= bucket[s].cap
    /\ bucket[s].tokens =>
          bucket[s].available + Rate * (t - bucket[s].updated) >= bucket[s].capacity

(* The table has room for s, possibly after evicting the idlest entry.     *)
Victims(t) ==
    {s \in InTable : safeIdleSourceScope(s, t)
        /\ \A u \in InTable : safeIdleSourceScope(u, t) => source[s] <= source[u]}

(* resolveResourceScope: the entries to evict and the scopes to reserve    *)
(* in.  A new source goes into the table when there is, or eviction makes, *)
(* room; otherwise it is accounted under its overflow scope.               *)
Resolutions(plan, t) ==
    LET new == (plan.scopes \cap SourceScopes) \ InTable
        keep == [evict |-> {}, scopes |-> plan.scopes]
    IN  IF new = {} \/ Cardinality(InTable) < MaxSourceScopes THEN {keep}
        ELSE IF Victims(t) # {} THEN {[keep EXCEPT !.evict = {v}] : v \in Victims(t)}
        ELSE {[keep EXCEPT !.scopes = (@ \ new) \cup {Overflow[s] : s \in new}]}

-----------------------------------------------------------------------------
(***************************************************************************)
(* Reservations.                                                           *)
(***************************************************************************)
TxStart == {t \in 1..now : now - MaxLag <= t}

Mine(r) ==
    /\ lease[r].node = NodeOf[req[r].proc]
    /\ lease[r].epoch = proc[req[r].proc].epoch

(* provisionDistributedOnce for a new request id.                          *)
Provision(r, p, plan, t, told) ==
    /\ req[r].pc = "idle" /\ now <= Horizon
    /\ Owns(p, FALSE, t)
    /\ lease[r].state = "none"
    /\ \E x \in Resolutions(plan, t) :
          /\ \A s \in x.scopes : Admits(bucket[s], plan, s, t)
          /\ bucket' = [s \in Scopes |-> IF s \in x.evict THEN NoRow
                          ELSE IF s \in x.scopes THEN Reserved(bucket[s], plan, s, t)
                          ELSE bucket[s]]
          /\ source' = [s \in SourceScopes |-> IF s \in x.evict THEN 0
                          ELSE IF s \in x.scopes THEN t ELSE source[s]]
          /\ lease' = [lease EXCEPT ![r] =
                [state |-> "reserved", node |-> NodeOf[p], epoch |-> proc[p].epoch,
                 expires |-> t + TTL, plan |-> plan,
                 slots |-> {s \in x.scopes : shouldReserveConcurrency(plan, s)},
                 tokens |-> {s \in x.scopes : plan.burst[s] > 0}]]
    /\ req' = [req EXCEPT ![r] = IF told THEN Granted(p, FALSE, FALSE, t + TTL)
                                 ELSE NoReq]
    /\ UNCHANGED <<now, member, proc>>

(* The same for a request id that has a lease: the original hold, if it is *)
(* this instance's, for the same payload, and alive.  (The shipped proxy   *)
(* draws a new id for each request; the authority promises the original    *)
(* hold to a caller that repeats an operation under its id.)               *)
Replay(r, p, plan, t) ==
    /\ req[r].pc = "idle" /\ now <= Horizon
    /\ Owns(p, FALSE, t)
    /\ lease[r].state \in Held
    /\ lease[r].plan = plan
    /\ lease[r].node = NodeOf[p] /\ lease[r].epoch = proc[p].epoch
    /\ lease[r].expires > t
    /\ req' = [req EXCEPT ![r] = Granted(p, lease[r].state = "forwarded",
                                         lease[r].state = "settled", lease[r].expires)]
    /\ UNCHANGED <<now, member, proc, bucket, source, lease>>

(* MarkForwarded, then the request is sent to the backend.                 *)
MarkForwarded(r, t, told) ==
    /\ req[r].pc = "granted" /\ ~req[r].settled /\ ~req[r].forwarded
    /\ Owns(req[r].proc, FALSE, t)
    /\ lease[r].state = "reserved" /\ Mine(r) /\ lease[r].expires > t
    /\ lease' = [lease EXCEPT ![r].state = "forwarded"]
    /\ req' = [req EXCEPT ![r] =
                 IF told THEN [@ EXCEPT !.pc = "upstream", !.forwarded = TRUE,
                                        !.expires = lease[r].expires]
                 ELSE [@ EXCEPT !.pc = "releasing"]]
    /\ UNCHANGED <<now, member, proc, bucket, source>>

(* MarkForwarded of a replayed handle that was forwarded or settled.       *)
AlreadyForwarded(r) ==
    /\ req[r].pc = "granted" /\ (req[r].settled \/ req[r].forwarded)
    /\ req' = [req EXCEPT ![r].pc = "upstream"]
    /\ UNCHANGED <<now, member, proc, bucket, source, lease>>

(* renewReservation's tick.  An error cancels the upstream request, which  *)
(* EndUpstream may do at any time.                                         *)
Renew(r, t, told) ==
    /\ req[r].pc \in {"upstream", "settling"} /\ ~req[r].settled /\ now <= Horizon
    /\ Owns(req[r].proc, TRUE, t)
    /\ lease[r].state \in {"reserved", "forwarded"} /\ Mine(r) /\ lease[r].expires > t
    /\ lease' = [lease EXCEPT ![r].expires = t + TTL]
    /\ req' = [req EXCEPT ![r].expires = IF told THEN t + TTL ELSE @]
    /\ UNCHANGED <<now, member, proc, bucket, source>>

(* The response ends and is settled, or the round trip fails.              *)
EndUpstream(r) ==
    /\ req[r].pc = "upstream"
    /\ \E next \in {"settling", "releasing"} : req' = [req EXCEPT ![r].pc = next]
    /\ UNCHANGED <<now, member, proc, bucket, source, lease>>

(* settleOnce: actual use replaces the estimate.                           *)
Settle(r, actual, t, told) ==
    /\ req[r].pc = "settling" /\ ~req[r].settled
    /\ Owns(req[r].proc, TRUE, t)
    /\ lease[r].state \in {"reserved", "forwarded"} /\ Mine(r) /\ lease[r].expires > t
    /\ RowsExist(r)
    /\ bucket' = [s \in Scopes |-> IF s \in lease[r].tokens
                                   THEN settleBucket(bucket[s], actual, t) ELSE bucket[s]]
    /\ lease' = [lease EXCEPT ![r].state = "settled"]
    /\ req' = [req EXCEPT ![r] = [@ EXCEPT !.pc = "releasing", !.settled = told]]
    /\ UNCHANGED <<now, member, proc, source>>

(* SettleContext when the handle or the lease is settled or released.      *)
SettleNothing(r, t) ==
    /\ req[r].pc = "settling"
    /\ \/ req[r].settled
       \/ Owns(req[r].proc, TRUE, t) /\ Mine(r) /\ lease[r].state \in {"settled", "released"}
    /\ req' = [req EXCEPT ![r] = [@ EXCEPT !.pc = "releasing", !.settled = TRUE]]
    /\ UNCHANGED <<now, member, proc, bucket, source, lease>>

(* Holds are deleted; payload and expiry of a released row do not matter.  *)
Released(rs, t) ==
    /\ \A r \in rs : RowsExist(r)
    /\ bucket' = [s \in Scopes |-> releaseBucket(s, rs, t)]
    /\ lease' = [r \in Requests |-> IF r \in rs
                   THEN [lease[r] EXCEPT !.state = "released", !.slots = {}, !.tokens = {},
                                         !.plan = NoPlan, !.expires = 0]
                   ELSE lease[r]]

(* The deferred Release; nothing to do when the lease is not held by this  *)
(* instance any more.  An answer that is lost changes nothing more.        *)
Release(r, t) ==
    /\ req[r].pc = "releasing"
    /\ Owns(req[r].proc, TRUE, t)
    /\ IF lease[r].state \in Held /\ Mine(r)
       THEN Released({r}, t)
       ELSE UNCHANGED <<bucket, lease>>
    /\ req' = [req EXCEPT ![r] = NoReq]
    /\ UNCHANGED <<now, member, proc, source>>

(* The operation the request is at fails without effect: the authority is  *)
(* out of reach, the lease is gone, or the process has lost its node, and  *)
(* is fenced.  A granted request may also be turned away before it is      *)
(* forwarded.  A failed release leaves the lease to the reaper.            *)
Fail(r) ==
    /\ req[r].pc \in {"granted", "settling", "releasing"}
    /\ req' = [req EXCEPT ![r] = IF @.pc = "releasing" THEN NoReq
                                 ELSE [@ EXCEPT !.pc = "releasing"]]
    /\ proc' = FencedIf(req[r].proc, Lapsed(req[r].proc))
    /\ UNCHANGED <<now, member, bucket, source, lease>>

-----------------------------------------------------------------------------
(***************************************************************************)
(* Background work of a process.                                           *)
(***************************************************************************)
(* Mutant: leases about to expire are reaped too.                          *)
ReapEarly(p, t) ==
    LET expired == {r \in Requests : lease[r].state \in Held /\ lease[r].expires <= t + 1} IN
    /\ Owns(p, TRUE, t)
    /\ expired # {}
    /\ Released(expired, t)
    /\ UNCHANGED <<now, member, proc, source, req>>

(* Mutant: a process reaps only its own leases.                            *)
ReapOwn(p, t) ==
    LET expired == {r \in Requests : lease[r].state \in Held /\ lease[r].expires <= t
                      /\ lease[r].node = NodeOf[p] /\ lease[r].epoch = proc[p].epoch} IN
    /\ Owns(p, TRUE, t)
    /\ expired # {}
    /\ Released(expired, t)
    /\ UNCHANGED <<now, member, proc, source, req>>

(* reapExpiredOnce: all leases expired at the transaction's start.         *)
Reap(p, t) ==
    LET expired == {r \in Requests : lease[r].state \in Held /\ lease[r].expires <= t} IN
    /\ Owns(p, TRUE, t)
    /\ expired # {}
    /\ Released(expired, t)
    /\ UNCHANGED <<now, member, proc, source, req>>

(* A transaction of the process finds that it lost its node.               *)
FindFenced(p) ==
    /\ proc[p].up /\ ~proc[p].fenced /\ Lapsed(p)
    /\ proc' = FencedIf(p, TRUE)
    /\ UNCHANGED <<now, member, bucket, source, lease, req>>

(* removeScopeOnce, for a lane that was evicted.                           *)
RemoveScope(p, s) ==
    /\ Owns(p, TRUE, now)
    /\ bucket[s].slot \/ bucket[s].tokens
    /\ Holders(s) = {}
    /\ bucket' = [bucket EXCEPT ![s] = NoRow]
    /\ UNCHANGED <<now, member, proc, source, lease, req>>

(* maintainSourceScopes.                                                   *)
MaintainSources ==
    LET idle == {s \in SourceScopes : safeIdleSourceScope(s, now)} IN
    /\ \E p \in Procs : proc[p].up
    /\ idle # {}
    /\ bucket' = [s \in Scopes |-> IF s \in idle THEN NoRow ELSE bucket[s]]
    /\ source' = [s \in SourceScopes |-> IF s \in idle THEN 0 ELSE source[s]]
    /\ UNCHANGED <<now, member, proc, lease, req>>

Tick ==
    /\ now < MaxTime
    /\ now' = now + 1
    /\ UNCHANGED <<member, proc, bucket, source, lease, req>>

RequestStep(r) ==
    \/ \E t \in TxStart, told \in BOOLEAN :
          \/ \E p \in Procs, plan \in Plans : Provision(r, p, plan, t, told)
          \/ MarkForwarded(r, t, told)
          \/ Renew(r, t, told)
          \/ \E actual \in Actuals : Settle(r, actual, t, told)
    \/ \E t \in TxStart :
          \/ \E p \in Procs, plan \in Plans : Replay(r, p, plan, t)
          \/ SettleNothing(r, t)
          \/ Release(r, t)
    \/ AlreadyForwarded(r) \/ EndUpstream(r) \/ Fail(r)

ProcStep(p) ==
    \/ Register(p) \/ Heartbeat(p) \/ MarkDraining(p) \/ Close(p) \/ Crash(p)
    \/ FindFenced(p)
    \/ \E t \in TxStart : Reap(p, t)
    \/ \E s \in Removable : RemoveScope(p, s)

Next ==
    \/ \E r \in Requests : RequestStep(r)
    \/ \E p \in Procs : ProcStep(p)
    \/ MaintainSources
    \/ Tick

Spec == Init /\ [][Next]_vars

(* Time passes, and the reaper is a ticker loop that runs as long as its   *)
(* process does.                                                           *)
FairSpec ==
    /\ Spec
    /\ WF_vars(Tick)
    /\ \A p \in Procs : WF_vars(\E t \in TxStart : Reap(p, t))

-----------------------------------------------------------------------------
MemberRow == [epoch : Nat, state : {"ready", "draining", "stopped"}, seen : Nat]

Process == [up : BOOLEAN, epoch : Nat, fenced : BOOLEAN]

BucketRow ==
    [slot : BOOLEAN, used : Nat, cap : Nat, room : Nat,
     tokens : BOOLEAN, capacity : Nat, available : Int, updated : Nat,
     spent : Nat, created : Nat, granted : Nat, late : Nat]

LeaseState == Held \cup {"none", "released"}

LeaseRow ==
    [state : LeaseState, node : Nodes \cup {None}, epoch : Nat, expires : Nat,
     slots : SUBSET Scopes, tokens : SUBSET Scopes, plan : Plan]

PCs == {"idle", "granted", "upstream", "settling", "releasing"}

Request ==
    [pc : PCs, proc : Procs \cup {None}, forwarded : BOOLEAN, settled : BOOLEAN,
     expires : Nat]

TypeOK ==
    /\ now \in Nat \ {0}
    /\ member \in [Nodes -> MemberRow]
    /\ proc \in [Procs -> Process]
    /\ bucket \in [Scopes -> BucketRow]
    /\ source \in [SourceScopes -> Nat]
    /\ lease \in [Requests -> LeaseRow]
    /\ req \in [Requests -> Request]

(* INV-15, clustered: the slots in use of a scope are exactly the leases   *)
(* that hold one, through crashes, fencing, expiry under a live request,   *)
(* lost answers and replays (releaseLeaseOnce, reapExpiredOnce).           *)
SlotsMatchLeases ==
    \A s \in Scopes :
        bucket[s].used = Cardinality({r \in Requests : s \in lease[r].slots})

(* The rows of a live hold are never deleted (safeIdleSourceScopeIDs,      *)
(* removeScopeOnce), so every lease can still be settled and released.     *)
HoldsHaveRows == \A r \in Requests : RowsExist(r)

(* What a bucket can still grant, what is reserved of it and what was      *)
(* consumed never exceed what the policies gave it, the refill since its   *)
(* creation, and the refill of one transaction's duration for each that    *)
(* moved updated_at back; nor do they fall below its capacity.  No order   *)
(* of settlement, release, expiry and replay mints or loses budget.        *)
Unsettled(s) == {r \in Requests : lease[r].state \in {"reserved", "forwarded"}
                                  /\ s \in lease[r].tokens}

TokenLedger ==
    \A s \in Scopes : bucket[s].tokens =>
        LET b == bucket[s]
            owed == b.available + Estimate * Cardinality(Unsettled(s)) + b.spent
        IN  /\ owed <= b.granted + Rate * (now - b.created + MaxLag * b.late)
            /\ owed >= b.capacity

(* Until the time a request was last told, nobody takes its lease away:    *)
(* backend work in progress is backed by a slot (renewReservation).  The   *)
(* time is short of a transaction's duration: a renewal whose answer was   *)
(* lost may have begun before the one that answered.                       *)
UpstreamHoldsLease ==
    \A r \in Requests :
        req[r].pc \in {"granted", "upstream", "settling"} /\ now + MaxLag < req[r].expires
        => lease[r].state \in Held /\ Mine(r)

(* A lease moves on only at the hands of the instance that owns the node,  *)
(* or by expiry: a replaced or silent process cannot forward, renew or     *)
(* settle (requireNodeOwnership).                                          *)
OnlyOwnerAdvances ==
    [][\A r \in Requests :
          lease'[r] # lease[r] /\ lease'[r].state # "released" /\ lease[r].state # "none"
          => /\ member[lease[r].node].epoch = lease[r].epoch
             /\ lease[r].expires > now - MaxLag]_vars

(* "A process crash cannot permanently strand capacity": as long as some   *)
(* process keeps its node, every lease is eventually released.             *)
SomeReaper == \E p \in Procs : Owns(p, TRUE, now)

CapacityReturns ==
    <>[]SomeReaper =>
        \A r \in Requests : lease[r].state \in Held ~> lease[r].state = "released"
=============================================================================
