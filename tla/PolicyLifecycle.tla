---------------------------- MODULE PolicyLifecycle ----------------------------
(***************************************************************************)
(* The policy lifecycle (internal/policy/manager.go) on its durable        *)
(* authority: PostgreSQL, shared by several nodes                          *)
(* (internal/statepg/policy.go), or the bbolt file of a standalone node    *)
(* (internal/statebolt/policy.go).                                         *)
(*                                                                         *)
(* A manager runs one operation at a time, under its mutex, but each query *)
(* and transaction of it is a step of its own: refresh from the manifest,  *)
(* acknowledge what was loaded, store the artifact, commit the transition. *)
(* A transaction may fail, or commit and lose its answer.  Operators       *)
(* repeat an operation under its id on any node.  A node whose membership  *)
(* lapsed commits nothing until it is restarted.                           *)
(*                                                                         *)
(* A policy is a revision and a digest.  Artifacts are immutable and       *)
(* content addressed; a manifest names one only after it was stored, so    *)
(* loading it fails or yields that policy.                                 *)
(***************************************************************************)
EXTENDS Naturals, Sequences, Functions

CONSTANTS
    Nodes,
    Policies,       \* [rev, digest]
    NoPolicy,
    Configured,     \* node -> the policy of its configuration
    Ops,            \* operation ids the operators use
    Request,        \* operation id -> the request it stands for, [kind, arg]
    NoOp,           \* no operation id (standalone)
    Deployments,    \* subset of {"cluster", "standalone"}
    MaxEpoch,       \* bound on activations and rollbacks
    MaxBoots        \* bound on process starts of all nodes together

ASSUME PolicyAssumption ==
    /\ \A p \in Policies : p.rev \in Nat \ {0}
    /\ Configured \in [Nodes -> Policies]
    /\ NoPolicy \notin Policies
    /\ NoOp \notin Ops
    /\ Request \in [Ops -> [kind : {"prepare", "activate", "rollback"}, arg : Policies \cup {NoPolicy}]]
    /\ MaxEpoch \in Nat /\ MaxBoots \in Nat

VARIABLES
    deployment,
    manifest,   \* gripline_policy_manifest; epoch 0 when there is no row
    artifacts,  \* gripline_policy_artifacts
    acks,       \* node -> its row of gripline_policy_node_state
    claims,     \* operation id -> fingerprint of gripline_control_operations
    member,     \* node -> its membership is live
    mgr,        \* node -> the manager's memory
    job,        \* node -> the operation under the manager's mutex
    hist        \* history: active policies by epoch, transitions per operation

vars == <<deployment, manifest, artifacts, acks, claims, member, mgr, job, hist>>

NoManifest == [epoch |-> 0, active |-> NoPolicy, candidate |-> NoPolicy, previous |-> NoPolicy]

Unpublished == [policy |-> NoPolicy, epoch |-> 0]

Down == [up |-> FALSE, boots |-> 0, current |-> NoPolicy, candidate |-> NoPolicy, known |-> {},
         epoch |-> 0, last |-> 0, acked |-> NoManifest, published |-> Unpublished, echo |-> FALSE,
         loaded |-> {}]

NoJob == [kind |-> "none", op |-> NoOp, arg |-> NoPolicy, pc |-> "load", seen |-> NoManifest]

NoClaim == [action |-> "none", target |-> NoPolicy]

Cluster == deployment = "cluster"

Init ==
    /\ deployment \in Deployments
    /\ manifest = NoManifest
    /\ artifacts = {}
    /\ acks = [n \in Nodes |-> [boots |-> 0, state |-> NoManifest]]
    /\ claims = [o \in Ops |-> NoClaim]
    /\ member = [n \in Nodes |-> FALSE]
    /\ mgr = [n \in Nodes |-> Down]
    /\ job = [n \in Nodes |-> NoJob]
    /\ hist = [active |-> <<>>, done |-> [o \in Ops |-> 0]]

-----------------------------------------------------------------------------
(***************************************************************************)
(* The manager's memory.                                                   *)
(***************************************************************************)
Rev(p) == IF p = NoPolicy THEN 0 ELSE p.rev

Most(a, b) == IF a >= b THEN a ELSE b

(* knownGood is a map by revision.                                         *)
Knowing(known, p) == {q \in known : q.rev # p.rev} \cup ({p} \ {NoPolicy})

(* Mutant: the epoch is published with the policy of the last refresh.     *)
publishStale(m) == [m EXCEPT !.published = [policy |-> IF @.epoch = 0 THEN m.current ELSE @.policy,
                                            epoch |-> m.epoch]]

publishLocked(m) ==
    [m EXCEPT !.published = [policy |-> m.current, epoch |-> m.epoch], !.echo = FALSE]

(* refreshDurableLocked, once everything it needs is loaded.  The          *)
(* candidate is compared by id and revision only; a loaded previous policy *)
(* does not replace a known one of its revision.                           *)
Refreshed(m, f) ==
    LET candidate == IF Rev(m.candidate) = Rev(f.candidate) THEN m.candidate ELSE f.candidate
        known == Knowing(m.known, f.active)
        previous == IF \E q \in known : q.rev = Rev(f.previous) THEN NoPolicy ELSE f.previous
    IN  [m EXCEPT !.epoch = f.epoch, !.current = f.active, !.candidate = candidate,
                  !.known = IF previous = NoPolicy THEN known ELSE Knowing(known, previous),
                  !.last = Most(Most(@, Rev(f.active)), Rev(candidate)),
                  !.loaded = @ \cup ({m.current, f.active, candidate, previous} \ {NoPolicy})]

(* It fails on an artifact: the epoch has been taken over already, and the *)
(* active policy too when it fails on the candidate or the previous one.   *)
HalfRefreshed(m, f) ==
    {[m EXCEPT !.epoch = f.epoch],
     [m EXCEPT !.epoch = f.epoch, !.current = f.active, !.known = Knowing(@, f.active),
               !.last = Most(@, Rev(f.active)), !.loaded = @ \cup {f.active}]}

(* NewManagerContext: the durable active policy, not the configured one.   *)
NewManager(m, f) ==
    [m EXCEPT !.epoch = f.epoch, !.current = f.active, !.candidate = f.candidate,
              !.known = IF f.previous = NoPolicy THEN {f.active} ELSE Knowing({f.active}, f.previous),
              !.last = IF f.candidate = NoPolicy THEN Rev(f.active) ELSE Rev(f.candidate),
              !.loaded = {f.active, f.candidate, f.previous} \ {NoPolicy}]

-----------------------------------------------------------------------------
(***************************************************************************)
(* Transactions of the authority.                                          *)
(***************************************************************************)
(* requireNodeOwnership.                                                   *)
Owns(n) == Cluster => member[n]

(* recordPolicyObservation, acknowledgePolicyOnce.                         *)
Observed(n, f) ==
    IF Cluster THEN [acks EXCEPT ![n] = [boots |-> mgr[n].boots, state |-> f]] ELSE acks

(* Mutant: a node that acknowledged anything is not lagging.               *)
BarrierAnyCandidate(target) == \A n \in Nodes : member[n] => acks[n].boots = mgr[n].boots

(* requirePolicyActivationBarrier: every live node's current instance      *)
(* acknowledged this candidate.                                            *)
requirePolicyActivationBarrier(target) ==
    \A n \in Nodes : member[n] =>
        acks[n].boots = mgr[n].boots /\ acks[n].state.candidate = target

(* The manifest of a transition, as the manager of node n builds it.       *)
ManifestFor(n, action, target) ==
    LET m == mgr[n] IN
    CASE action = "prepare" -> [epoch |-> m.epoch, active |-> m.current, candidate |-> target,
                                previous |-> NoPolicy]
      [] OTHER -> [epoch |-> m.epoch + 1, active |-> target, candidate |-> NoPolicy,
                   previous |-> m.current]

(* persistPolicyTransitionOnce admits the transition to f.                 *)
Applicable(n, action, f, target) ==
    /\ mgr[n].epoch = manifest.epoch /\ Rev(mgr[n].current) = Rev(manifest.active)
    /\ CASE action = "prepare" -> manifest.candidate = NoPolicy /\ f.epoch = manifest.epoch
         [] action = "activate" ->
              /\ manifest.candidate # NoPolicy /\ manifest.candidate.rev = target.rev
              /\ Cluster => requirePolicyActivationBarrier(manifest.candidate)
              /\ f.epoch = manifest.epoch + 1
         [] OTHER -> manifest.active # f.active /\ f.epoch = manifest.epoch + 1
    /\ action # "rollback" => Rev(manifest.active) <= Rev(f.active)
    /\ Rev(manifest.active) = Rev(f.active) => manifest.active = f.active

(* claimControlOperation finds the id claimed for the same payload, or     *)
(* refuses it for another.                                                 *)
Replayed(op, action, target) ==
    op \in Ops /\ claims[op] = [action |-> action, target |-> target]

(* Mutant: a claimed operation id is claimed again.                        *)
ClaimableAgain(op) == TRUE

Claimable(op) == op \in Ops => claims[op] = NoClaim

Transition(n, op, action, target) ==
    LET f == ManifestFor(n, action, target) IN
    /\ Owns(n)
    /\ Claimable(op) /\ Applicable(n, action, f, target)
    /\ manifest' = f
    /\ acks' = Observed(n, f)
    /\ claims' = IF op = NoOp THEN claims
                 ELSE [claims EXCEPT ![op] = [action |-> action, target |-> target]]
    /\ hist' = [active |-> IF action = "prepare" THEN hist.active ELSE Append(hist.active, target),
                done |-> IF op = NoOp THEN hist.done ELSE [hist.done EXCEPT ![op] = @ + 1]]
    /\ UNCHANGED artifacts

-----------------------------------------------------------------------------
(***************************************************************************)
(* Processes.                                                              *)
(***************************************************************************)
Finish(n) == job' = [job EXCEPT ![n] = NoJob]

Advance(n, pc) == job' = [job EXCEPT ![n].pc = pc]

(* A process starts: it registers and its manager is constructed.  A       *)
(* starting node whose row has not lapsed is refused.                      *)
Start(n) ==
    /\ Cluster \/ \A x \in Nodes \ {n} : mgr[x].boots = 0      \* standalone: one node
    /\ ~mgr[n].up /\ SumFunction([x \in Nodes |-> mgr[x].boots]) < MaxBoots
    /\ ~member[n]
    /\ member' = [member EXCEPT ![n] = TRUE]
    /\ mgr' = [mgr EXCEPT ![n] = [Down EXCEPT !.up = TRUE, !.boots = mgr[n].boots + 1]]
    /\ job' = [job EXCEPT ![n] = [NoJob EXCEPT !.kind = "boot"]]
    /\ UNCHANGED <<deployment, manifest, artifacts, acks, claims, hist>>

(* NewManagerContext reads the manifest; without one it stores the         *)
(* configured policy and installs it, create-only, and reads again.        *)
Boot(n) ==
    /\ job[n].kind = "boot" /\ job[n].pc = "load"
    /\ IF manifest.epoch = 0
       THEN /\ artifacts' = artifacts \cup {Configured[n]}
            /\ Advance(n, "initialize")
            /\ UNCHANGED mgr
       ELSE /\ mgr' = [mgr EXCEPT ![n] = NewManager(@, manifest)]
            /\ job' = [job EXCEPT ![n] = [@ EXCEPT !.pc = "ack", !.seen = manifest]]
            /\ UNCHANGED artifacts
    /\ UNCHANGED <<deployment, manifest, acks, claims, member, hist>>

(* Mutant: the first manifest is written over an existing one.             *)
InitializeOverwrites(n) ==
    LET f == [epoch |-> 1, active |-> Configured[n], candidate |-> NoPolicy, previous |-> NoPolicy] IN
    /\ job[n].kind = "boot" /\ job[n].pc = "initialize" /\ Owns(n)
    /\ manifest' = f /\ acks' = Observed(n, f)
    /\ hist' = [hist EXCEPT !.active = <<Configured[n]>>]
    /\ Advance(n, "reread")
    /\ UNCHANGED <<deployment, artifacts, claims, member, mgr>>

InitializePolicyManifest(n) ==
    LET f == [epoch |-> 1, active |-> Configured[n], candidate |-> NoPolicy, previous |-> NoPolicy] IN
    /\ job[n].kind = "boot" /\ job[n].pc = "initialize" /\ Owns(n)
    /\ IF manifest.epoch = 0
       THEN manifest' = f /\ acks' = Observed(n, f)
            /\ hist' = [hist EXCEPT !.active = <<Configured[n]>>]
       ELSE UNCHANGED <<manifest, acks, hist>>
    /\ Advance(n, "reread")
    /\ UNCHANGED <<deployment, artifacts, claims, member, mgr>>

(* A node that lost the first boot to another policy does not start.       *)
Reread(n) ==
    /\ job[n].kind = "boot" /\ job[n].pc = "reread"
    /\ manifest.active = Configured[n]
    /\ mgr' = [mgr EXCEPT ![n] = NewManager(@, manifest)]
    /\ job' = [job EXCEPT ![n] = [@ EXCEPT !.pc = "ack", !.seen = manifest]]
    /\ UNCHANGED <<deployment, manifest, artifacts, acks, claims, member, hist>>

(* The process ends, by a crash or because it could not start.  Its        *)
(* membership row stays until it lapses.                                   *)
Crash(n) ==
    /\ mgr[n].up
    /\ mgr' = [mgr EXCEPT ![n] = [Down EXCEPT !.boots = mgr[n].boots]]
    /\ Finish(n)
    /\ UNCHANGED <<deployment, manifest, artifacts, acks, claims, member, hist>>

Lapse(n) ==
    /\ member[n]
    /\ member' = [member EXCEPT ![n] = FALSE]
    /\ UNCHANGED <<deployment, manifest, artifacts, acks, claims, mgr, job, hist>>

-----------------------------------------------------------------------------
(***************************************************************************)
(* Operations of a running manager.                                        *)
(***************************************************************************)
Ready(n) == mgr[n].up /\ job[n].kind = "none"

(* An operation ends in an error.  Only Reconcile withdraws the published  *)
(* policy.                                                                 *)
Failed(n, kind, m) ==
    /\ mgr' = [mgr EXCEPT ![n] = IF kind = "reconcile" THEN [m EXCEPT !.published = Unpublished] ELSE m]
    /\ Finish(n)

(* An operation takes the mutex and runs refreshDurableLocked up to the    *)
(* acknowledgement: one read of the manifest, then of immutable artifacts. *)
Refresh(n, kind, op, arg) ==
    /\ Ready(n)
    /\ \/ /\ mgr' = [mgr EXCEPT ![n] = Refreshed(@, manifest)]
          /\ job' = [job EXCEPT ![n] = [kind |-> kind, op |-> op, arg |-> arg, pc |-> "ack", seen |-> manifest]]
       \/ \E m \in {mgr[n]} \cup HalfRefreshed(mgr[n], manifest) : Failed(n, kind, m)
    /\ UNCHANGED <<deployment, manifest, artifacts, acks, claims, member, hist>>

(* The watcher's tick, a readiness probe or a status request.              *)
Reconcile(n) == Refresh(n, "reconcile", NoOp, NoPolicy)

(* An operator's request, or its retry; a cluster requires its id.         *)
Mutate(n) ==
    \E op \in Ops :
        Refresh(n, Request[op].kind, IF Cluster THEN op ELSE NoOp, Request[op].arg)

(* AcknowledgePolicyContext, when the state differs from the acknowledged  *)
(* one.  Its failure ends the operation, and a starting process.           *)
Acknowledge(n) ==
    LET f == job[n].seen
        proceed == IF job[n].kind \in {"reconcile", "boot"}
                   THEN mgr' = [mgr EXCEPT ![n] = publishLocked([@ EXCEPT !.acked = f])] /\ Finish(n)
                   ELSE mgr' = [mgr EXCEPT ![n].acked = f] /\ Advance(n, "act")
    IN
    /\ mgr[n].up /\ job[n].pc = "ack"
    /\ IF ~Cluster \/ mgr[n].acked = f
       THEN proceed /\ UNCHANGED acks
       ELSE \/ Owns(n) /\ acks' = Observed(n, f) /\ proceed
            \/ /\ acks' \in {acks} \cup (IF Owns(n) THEN {Observed(n, f)} ELSE {})
               /\ IF job[n].kind = "boot"
                  THEN /\ mgr' = [mgr EXCEPT ![n] = [Down EXCEPT !.boots = mgr[n].boots]]
                       /\ Finish(n)
                  ELSE Failed(n, job[n].kind, mgr[n])
    /\ UNCHANGED <<deployment, manifest, artifacts, claims, member, hist>>

(* What the operation commits: nothing, a new transition, or (in a         *)
(* cluster) the question whether its id is a replay.                       *)
Outcome(what, target) == [do |-> what, target |-> target]

PrepareTarget(m, arg) ==
    IF m.candidate = arg THEN Outcome("replay", arg)
    ELSE IF Rev(arg) <= m.last THEN Outcome("refuse", NoPolicy)
    ELSE Outcome("commit", arg)

ActivateTarget(m) ==
    IF m.candidate = NoPolicy THEN Outcome("replay", m.current) ELSE Outcome("commit", m.candidate)

RollbackTarget(m, arg) ==
    LET good == {q \in m.known : q.rev = Rev(arg)} IN
    IF good = {} THEN Outcome("refuse", NoPolicy)
    ELSE LET t == CHOOSE q \in good : TRUE IN
         Outcome(IF t.rev = m.current.rev THEN "replay" ELSE "commit", t)

Target(n) ==
    CASE job[n].kind = "prepare" -> PrepareTarget(mgr[n], job[n].arg)
      [] job[n].kind = "activate" -> ActivateTarget(mgr[n])
      [] OTHER -> RollbackTarget(mgr[n], job[n].arg)

(* The manager after its transition.                                       *)
Adopt(m, action, target) ==
    CASE action = "prepare" -> publishLocked([m EXCEPT !.candidate = target, !.last = target.rev,
                                                       !.loaded = @ \cup {target}])
      [] action = "activate" -> publishLocked([m EXCEPT !.current = target, !.candidate = NoPolicy,
                                                        !.known = Knowing(@, target),
                                                        !.epoch = @ + 1])
      [] OTHER -> publishLocked([m EXCEPT !.current = target, !.candidate = NoPolicy,
                                          !.epoch = @ + 1])

(* commitLocked.  A prepared artifact is stored first, in a transaction of *)
(* its own (PersistArtifact).                                              *)
PersistArtifact(n) ==
    /\ job[n].pc = "act" /\ job[n].kind = "prepare" /\ Target(n).do = "commit"
    /\ job[n].arg \notin artifacts /\ Owns(n)
    /\ artifacts' = artifacts \cup {job[n].arg}
    /\ UNCHANGED <<deployment, manifest, acks, claims, member, mgr, job, hist>>

Commit(n) ==
    LET j == job[n]
        t == Target(n)
    IN
    /\ j.pc = "act" /\ t.do = "commit" /\ t.target \in artifacts
    /\ j.kind = "prepare" \/ manifest.epoch < MaxEpoch
    /\ Transition(n, j.op, j.kind, t.target)
    /\ \/ mgr' = [mgr EXCEPT ![n] = Adopt(@, j.kind, t.target)]
       \/ mgr' = [mgr EXCEPT ![n].loaded = @ \cup {t.target}]     \* the answer is lost
    /\ Finish(n)
    /\ UNCHANGED <<deployment, member>>

(* The exact retry of a committed operation succeeds and changes nothing;  *)
(* the manager publishes what it refreshed, except for a prepare found     *)
(* still pending.  A commit that turns out a replay takes over its memory  *)
(* as if it had committed.                                                 *)
CommitReplayed(n) ==
    LET j == job[n]
        t == Target(n)
    IN
    /\ j.pc = "act" /\ t.do # "refuse" /\ Owns(n) /\ Replayed(j.op, j.kind, t.target)
    /\ mgr' = [mgr EXCEPT ![n] =
                 IF t.do = "commit" THEN [Adopt(@, j.kind, t.target) EXCEPT !.echo = TRUE]
                 ELSE IF j.kind = "prepare" THEN @ ELSE publishLocked(@)]
    /\ Finish(n)
    /\ UNCHANGED <<deployment, manifest, artifacts, acks, claims, member, hist>>

(* Anything else is refused: nothing prepared, not newer, not known good,  *)
(* a conflicting id, a stale view, the barrier, the membership, an outage. *)
Refuse(n) ==
    /\ job[n].pc = "act"
    /\ Failed(n, job[n].kind, mgr[n])
    /\ UNCHANGED <<deployment, manifest, artifacts, acks, claims, member, hist>>

Next ==
    \E n \in Nodes :
        \/ Start(n) \/ Boot(n) \/ InitializePolicyManifest(n) \/ Reread(n) \/ Crash(n) \/ Lapse(n)
        \/ Reconcile(n) \/ Mutate(n) \/ Acknowledge(n)
        \/ PersistArtifact(n) \/ Commit(n) \/ CommitReplayed(n) \/ Refuse(n)

Spec == Init /\ [][Next]_vars

-----------------------------------------------------------------------------
Register ==
    INSTANCE PolicyRegister WITH
        epoch <- manifest.epoch, active <- manifest.active, candidate <- manifest.candidate,
        past <- {hist.active[i] : i \in DOMAIN hist.active}

(* The shared manifest is a policy register: what becomes active is the    *)
(* prepared policy or one that was active before, and the epoch grows by   *)
(* one (persistPolicyTransitionOnce), through lost answers, retries on     *)
(* other nodes, restarts and concurrent first boots.                       *)
RefinesRegister == Register!Spec

Coherent(p) == p.epoch # 0 => p.epoch <= Len(hist.active) /\ hist.active[p.epoch] = p.policy

(* "atomically publishes a coherent policy/epoch pair" (Reconcile): what   *)
(* the data plane sees of an epoch is the policy activated with it, unless *)
(* the publication repeats a replayed transition (PublishedIsActivated).   *)
PublishedCoherent == \A n \in Nodes : ~mgr[n].echo => Coherent(mgr[n].published)

(* The same of every publication.  It fails: a late retry of a rollback    *)
(* that was rolled back in turn is recognised as a replay, and the manager *)
(* still installs its target under an epoch that does not exist.           *)
PublishedIsActivated == \A n \in Nodes : Coherent(mgr[n].published)

(* An operation id takes effect at most once, however often and on however *)
(* many nodes it is repeated (PersistPolicyTransitionOperationContext).    *)
OperationOnce == \A o \in Ops : hist.done[o] <= 1

(* A policy is activated only when every live node's process has loaded    *)
(* and validated it (ErrPolicyActivationBarrier), whatever it acknowledged *)
(* before a restart.                                                       *)
ActivatedIsLoaded ==
    [][Cluster => \A o \in Ops : claims'[o] # claims[o] /\ claims'[o].action = "activate" =>
          \A n \in Nodes : member[n] /\ mgr[n].up => claims'[o].target \in mgr[n].loaded]_vars
=============================================================================
