------------------------------ MODULE Admission ------------------------------
(***************************************************************************)
(* The admission pipeline of the terminator                                *)
(* (internal/terminator/terminator.go, admission_support.go,               *)
(* credential_observation.go, resource_admission.go) for the requests of   *)
(* one credential, over the lane and evidence stores.  Every read or       *)
(* transaction of the pipeline is a step of its own, so requests of        *)
(* several gateways interleave between any two; a request remembers what   *)
(* it read (posture, status, time, lane) and decides with it later.        *)
(*                                                                         *)
(* The credential's own security state machine is CredentialState and the  *)
(* resource governor is Governor or ResourceLeases: here either may answer *)
(* as it likes, and the request goes on or is denied.                      *)
(* Standalone tells the bbolt deployment from the clustered one: bbolt has *)
(* no activation time of the posture, and its lane and prune transactions  *)
(* take the time the request started with, where PostgreSQL takes the      *)
(* database clock.                                                         *)
(***************************************************************************)
EXTENDS Lanes, Evidence

CONSTANTS
    Requests,        \* request slots: the admissions in flight at a time
    Vectors,         \* feature vectors presented
    InitialLanes,    \* the stored lanes a run may start from
    Signals,         \* lane codes that admission producers may raise
    EndSignals,      \* lane codes that completion producers may raise
    Disqualifying,   \* codes that veto learning
    QuarantineRisk,  \* the policy's denial threshold
    Standalone,      \* bbolt or PostgreSQL
    EvidenceGrace,   \* how long PostgreSQL keeps expired evidence
    MaxAdmissions,   \* bound on the admissions started
    MaxPostures,     \* bound on the posture writes
    MaxFaults,       \* bound on the store failures that degrade
    MaxClock         \* bound on time

(* The stored lanes were written before the clock starts; the producers    *)
(* raise codes of the rule table, which has a rule for new lanes.          *)
ASSUME AdmissionAssumption ==
    /\ \A table \in InitialLanes :
          /\ table = [l \in DOMAIN table |-> table[l]]
          /\ \A l \in DOMAIN table : StoredLane(table[l], 1)
    /\ Signals \cup EndSignals \cup {"NEW_LANE"} \subseteq Codes
    /\ IsFiniteSet(Signals) /\ IsFiniteSet(EndSignals)
    /\ \A code \in Codes : Rules[code].ttl \in Nat
    /\ Standalone \in BOOLEAN
    /\ MaxEvidencePerSubject \in Nat /\ EvidenceGrace \in Nat
    /\ Hysteresis.dwell \in Nat /\ Learning.age \in Nat

VARIABLES
    clock,
    lanes,      \* lane -> record
    evidence,   \* the evidence store
    posture,    \* [lockdown, at]
    req,        \* slot -> the admission in it
    started,    \* admissions started
    writes,     \* posture writes
    faults,     \* store failures that degraded
    episode,    \* history: number of the current or last lockdown
    born,       \* history: lane -> the lockdown it was created in, 0 if none
    lastHigh,   \* history: lane -> last observation at or above the clear threshold
    elevated    \* history: lane -> last time it was not NORMAL

admissionVars == <<clock, lanes, evidence, posture, req, started, writes, faults,
          episode, born, lastHigh, elevated>>

bounds == <<started, writes>>

history == <<episode, born, lastHigh, elevated>>

Idle == [pc |-> "idle"]

At(r, pc) == req[r].pc = pc

Deny(r) == req' = [req EXCEPT ![r] = Idle]

(* Whether the evidence store and the credential store answer a step.      *)
Answered(ok) ==
    /\ ok \/ faults < MaxFaults
    /\ faults' = IF ok THEN faults ELSE faults + 1

(* The time a store transaction of the request runs at.  In the cluster it *)
(* is the start of the transaction, which is taken to be short.            *)
TxnNow(r) == IF Standalone THEN req[r].now ELSE clock

------------------------------------------------------------------------------
(* The transactions of the stores.                                         *)

(* The posture authority: only the clustered one knows since when.         *)
PostureSnapshot == [posture EXCEPT !.at = IF Standalone THEN Zero ELSE @]

(* Both stores classify on their own clock.                                *)
BorrowOrCreate(v) == ApplyBorrowOrCreate(lanes, v, clock)

ObserveRisk(r) == ApplyRiskObservation(lanes[req[r].lane], req[r].risk, TxnNow(r))

RecordCleanAuthorizedAndPromote(r) ==
    ApplyCleanAuthorizedAndPromote(lanes[req[r].lane], req[r].risk, req[r].disqualified, TxnNow(r))

AppendItems(items) == AppendEvidence(evidence, items, clock)

PruneOf(r) == Prune(evidence, {req[r].lane}, TxnNow(r))

(* What a sweep over all subjects may delete.  PostgreSQL keeps expired    *)
(* evidence for a while.                                                   *)
Sweepable ==
    {ev \in evidence : IF Standalone THEN ~Valid(ev, clock) ELSE IsExpired(ev, clock - EvidenceGrace)}

AdmissionInit ==
    /\ clock = 1
    /\ lanes \in InitialLanes
    /\ evidence = {}
    /\ posture = [lockdown |-> FALSE, at |-> Zero]
    /\ req = [r \in Requests |-> Idle]
    /\ started = 0
    /\ writes = 0
    /\ faults = 0
    /\ episode = 0
    /\ born = [l \in DOMAIN lanes |-> 0]
    /\ lastHigh = [l \in DOMAIN lanes |-> IF lanes[l].status = "NORMAL" THEN Zero ELSE clock]
    /\ elevated = lastHigh

------------------------------------------------------------------------------
(* Gates before the lane.                                                  *)

(* The credential is identified and may authenticate; the time of the      *)
(* request is read once, here.                                             *)
Authenticate(r, v) ==
    /\ At(r, "idle")
    /\ started < MaxAdmissions
    /\ req' = [req EXCEPT ![r] = [pc |-> "posture", id |-> started + 1, now |-> clock, vector |-> v]]
    /\ started' = started + 1
    /\ UNCHANGED <<clock, lanes, evidence, posture, writes, faults, history>>

(* An unreadable posture denies.                                           *)
ReadPosture(r) ==
    /\ At(r, "posture")
    /\ \/ req' = [req EXCEPT ![r] = [pc |-> "classify", id |-> @.id, now |-> @.now, vector |-> @.vector,
                                        seen |-> PostureSnapshot]]
       \/ Deny(r)
    /\ UNCHANGED <<clock, lanes, evidence, posture, bounds, faults, history>>

(* BorrowOrCreate in one transaction, on the store's own clock.            *)
Classify(r) ==
    /\ At(r, "classify")
    /\ LET out == BorrowOrCreate(req[r].vector)
           l == out.lane
           Track(f, v) == [m \in DOMAIN out.lanes |-> IF out.created /\ m = l THEN v ELSE f[m]]
       IN  /\ lanes' = out.lanes
           /\ born' = Track(born, IF posture.lockdown THEN episode ELSE 0)
           /\ lastHigh' = Track(lastHigh, Zero)
           /\ elevated' = Track(elevated, Zero)
           /\ IF out.err # "none" THEN Deny(r)
              ELSE req' = [req EXCEPT ![r] =
                              [pc |-> "evidence", id |-> @.id, now |-> @.now, seen |-> @.seen,
                               lane |-> l, new |-> out.created,
                               firstSeen |-> out.lanes[l].firstSeen]]
    /\ UNCHANGED <<clock, evidence, posture, bounds, faults, episode>>

------------------------------------------------------------------------------
(* Evidence, risk and the gates on them.                                   *)

(* NEW_LANE for a created lane, minted at a time of its own.               *)
SynchronousEvidence(a) == IF a.new THEN {Mint("NEW_LANE", a.lane, clock, <<a.id, "NEW_LANE">>)} ELSE {}

(* What the detectors raise is minted at the time of the request.          *)
ResolveSignals(a, codes) == {Mint(code, a.lane, a.now, <<a.id, code>>) : code \in codes}

(* Both are appended in one batch; an append that fails degrades the       *)
(* request.                                                                *)
ObserveSignals(r, raised) ==
    /\ At(r, "evidence")
    /\ LET a == req[r]
           sync == SynchronousEvidence(a)
           current == sync \cup ResolveSignals(a, raised)
       IN  \E stored \in BOOLEAN :
             /\ (current = {}) => stored
             /\ Answered(stored)
             /\ evidence' = IF stored THEN AppendItems(current) ELSE evidence
             /\ req' = [req EXCEPT ![r] =
                          [pc |-> "snapshot", id |-> a.id, now |-> a.now, seen |-> a.seen,
                           lane |-> a.lane, new |-> a.new, firstSeen |-> a.firstSeen,
                           sync |-> sync, current |-> current, adaptive |-> stored]]
    /\ UNCHANGED <<clock, lanes, posture, bounds, history>>

(* In a lockdown a new lane is denied, and so is one first seen since the  *)
(* lockdown began.                                                         *)
LockdownDenies(a) ==
    /\ a.seen.lockdown
    /\ a.new \/ (a.seen.at # Zero /\ a.firstSeen >= a.seen.at)

(* dedupAppend: what was appended and read back counts once.               *)
DedupAppend(existing, incoming) ==
    existing \cup {ev \in incoming : \A e \in existing : e.id # ev.id}

(* The lane's history and the current items give the risk; when the        *)
(* history cannot be read, the synchronous items alone.                    *)
LaneRisk(a, read) ==
    LET seen == Snapshot(evidence, {a.lane}, a.now)
    IN  Evaluate(IF read THEN DedupAppend(seen, a.current) ELSE a.sync, a.now)

(* A history that cannot be read degrades the request.  The credential's   *)
(* observation is committed next, unless the request is degraded; a commit *)
(* that fails degrades it.  The authority (CredentialState) may answer     *)
(* with a quarantine, which denies.                                        *)
SnapshotEvidence(r) ==
    /\ At(r, "snapshot")
    /\ LET a == req[r]
       IN  \E read, observed \in BOOLEAN :
             /\ observed => a.adaptive /\ read
             /\ Answered(read /\ (a.adaptive => observed))
             /\ \/ Deny(r)
                \/ /\ ~LockdownDenies(a)
                   /\ req' = [req EXCEPT ![r] =
                        [pc |-> "observe", now |-> a.now, id |-> a.id, lane |-> a.lane,
                         lockdown |-> a.seen.lockdown,
                         risk |-> LaneRisk(a, read), adaptive |-> observed]]
    /\ UNCHANGED <<clock, lanes, evidence, posture, bounds, history>>

(* The policy's gate on the effective risk; not when the risk is unknown.  *)
PolicyDenies(a) == a.adaptive /\ a.risk >= QuarantineRisk

(* ObserveRisk in one transaction; a lane that retention removed denies,   *)
(* and so does a blocked one.  Then the policy, which may also deny for    *)
(* the credential's status or the source.                                  *)
ObserveLane(r) ==
    /\ At(r, "observe")
    /\ LET a == req[r]
           l == a.lane
           after == ObserveRisk(r)
       IN  \/ /\ l \notin DOMAIN lanes
              /\ Deny(r)
              /\ UNCHANGED <<lanes, lastHigh, elevated>>
           \/ /\ l \in DOMAIN lanes
              /\ lanes' = [lanes EXCEPT ![l] = after]
              /\ lastHigh' = [lastHigh EXCEPT ![l] = IF a.risk >= Hysteresis.clear THEN clock ELSE @]
              /\ elevated' = [elevated EXCEPT ![l] =
                                 IF {lanes[l].status, after.status} = {"NORMAL"} THEN @ ELSE clock]
              /\ \/ Deny(r)
                 \/ /\ after.status # "BLOCKED"
                    /\ ~PolicyDenies(a)
                    /\ req' = [req EXCEPT ![r].pc = "provision"]
    /\ UNCHANGED <<clock, evidence, posture, bounds, faults, episode, born>>

------------------------------------------------------------------------------
(* Resources, the assertion, the upstream and the baseline.                *)

(* The governor grants every scope and the assertion is issued under the   *)
(* reservation, or the request is denied and nothing stays reserved.       *)
ResourceAdmission(r, granted) == IF granted THEN req' = [req EXCEPT ![r].pc = "authorized"] ELSE Deny(r)

(* pruneEvidence: an admission in fifty prunes the evidence of its         *)
(* subjects; a failure changes nothing.                                    *)
PruneEvidence(r) == {evidence, PruneOf(r)}

Provision(r) ==
    /\ At(r, "provision")
    /\ \E granted \in BOOLEAN :
          /\ ResourceAdmission(r, granted)
          /\ evidence' \in IF granted THEN PruneEvidence(r) ELSE {evidence}
    /\ UNCHANGED <<clock, lanes, posture, bounds, faults, history>>

(* Completion producers judge the actual use, once.                        *)
ObserveCompletion(a, raised) == {Mint(code, a.lane, clock, <<a.id, code, "end">>) : code \in raised}

(* BaselineToken: a successful request goes on to its baseline, once,      *)
(* unless its admission was degraded.                                      *)
Baseline(a, success) == IF success /\ a.adaptive THEN [a EXCEPT !.pc = "baseline"] ELSE Idle

(* The upstream ends and the completion token is spent.                    *)
Complete(r, raised, success) ==
    /\ At(r, "authorized")
    /\ LET items == ObserveCompletion(req[r], raised)
       IN  \E stored \in BOOLEAN :
             /\ (items = {}) => stored
             /\ Answered(stored)
             /\ evidence' = IF stored THEN AppendItems(items) ELSE evidence
             /\ req' = [req EXCEPT ![r] = Baseline(@, success)]
    /\ UNCHANGED <<clock, lanes, posture, bounds, history>>

(* A history that cannot be read vetoes.                                   *)
HasActiveDisqualifyingEvidence(l, read) ==
    read => \E ev \in Snapshot(evidence, {l}, clock) : ev.code \in Disqualifying

(* finalizeBaseline reads the time and the disqualifying evidence.         *)
FinalizeBaseline(r) ==
    /\ At(r, "baseline")
    /\ \E read \in BOOLEAN :
          /\ Answered(read)
          /\ req' = [req EXCEPT ![r] =
                        [pc |-> "record", now |-> clock, lane |-> @.lane, lockdown |-> @.lockdown,
                         risk |-> @.risk, adaptive |-> @.adaptive,
                         disqualified |-> HasActiveDisqualifyingEvidence(@.lane, read)]]
    /\ UNCHANGED <<clock, lanes, evidence, posture, bounds, history>>

(* RecordCleanAuthorizedAndPromote in one transaction, or not at all; the  *)
(* reservation is released and the request is over.                        *)
RecordClean(r) ==
    /\ At(r, "record")
    /\ \/ /\ req[r].lane \in DOMAIN lanes
          /\ lanes' = [lanes EXCEPT ![req[r].lane] = RecordCleanAuthorizedAndPromote(r)]
       \/ UNCHANGED lanes
    /\ Deny(r)
    /\ UNCHANGED <<clock, evidence, posture, bounds, faults, history>>

------------------------------------------------------------------------------
(* Everyone else.                                                          *)

(* The posture is stored with the time, whether or not it changes.  The    *)
(* time of a normal posture is never read.                                 *)
PutPosture(lockdown) == [lockdown |-> lockdown, at |-> IF lockdown THEN clock ELSE Zero]

(* An operator sets it.                                                    *)
SetPosture(lockdown) ==
    /\ writes < MaxPostures
    /\ posture' = PutPosture(lockdown)
    /\ writes' = writes + 1
    /\ episode' = IF lockdown /\ ~posture.lockdown THEN episode + 1 ELSE episode
    /\ UNCHANGED <<clock, lanes, evidence, req, started, faults, born, lastHigh, elevated>>

UnblockLane(l) ==
    /\ lanes[l].status = "BLOCKED"
    /\ lanes' = [lanes EXCEPT ![l] = ApplyUnblock(@, clock)]

(* An operator unblocks a lane.                                            *)
Unblock(l) ==
    /\ l \in DOMAIN lanes
    /\ UnblockLane(l)
    /\ elevated' = [elevated EXCEPT ![l] = clock]
    /\ UNCHANGED <<clock, evidence, posture, req, bounds, faults, episode, born, lastHigh>>

(* One batch of the maintenance loop.                                      *)
SweepExpiredEvidence ==
    /\ Sweepable # {}
    /\ \E batch \in (SUBSET Sweepable) \ {{}} : evidence' = evidence \ batch
    /\ UNCHANGED <<clock, lanes, posture, req, bounds, faults, history>>

Tick ==
    /\ clock < MaxClock
    /\ clock' = clock + 1
    /\ UNCHANGED <<lanes, evidence, posture, req, bounds, faults, history>>

AdmissionNext ==
    \/ \E r \in Requests :
          \/ \E v \in Vectors : Authenticate(r, v)
          \/ ReadPosture(r) \/ Classify(r)
          \/ \E raised \in SUBSET Signals : ObserveSignals(r, raised)
          \/ SnapshotEvidence(r) \/ ObserveLane(r) \/ Provision(r)
          \/ \E raised \in SUBSET EndSignals, success \in BOOLEAN : Complete(r, raised, success)
          \/ FinalizeBaseline(r) \/ RecordClean(r)
    \/ \E lockdown \in BOOLEAN : SetPosture(lockdown)
    \/ \E l \in DOMAIN lanes : Unblock(l)
    \/ SweepExpiredEvidence
    \/ Tick

AdmissionSpec == AdmissionInit /\ [][AdmissionNext]_admissionVars

------------------------------------------------------------------------------
(* A blocked lane is a tombstone: neither retention under another request, *)
(* nor risk, nor a late clean completion lifts the block; only an operator *)
(* does.                                                                   *)
TombstoneStays ==
    [][\A l \in DOMAIN lanes : lanes[l].status = "BLOCKED" =>
          Unblock(l) \/ (l \in DOMAIN lanes' /\ lanes'[l].status = "BLOCKED")]_admissionVars

(* The lane ends by retention and one of the same id is created.           *)
Forgotten(l) ==
    /\ ~RetentionDecision(lanes[l], clock)
    /\ lanes'[l] = NewLane(lanes'[l].features, clock)

(* A suspicious lane recovers only when, whatever the order in which       *)
(* concurrent requests' observations land, none at or above the clear      *)
(* threshold was recorded within the dwell; or it is forgotten: retention  *)
(* removed it, and the vector begins a new lane under the same id.         *)
RecoveryAfterDwell ==
    [][\A l \in DOMAIN lanes \cap DOMAIN lanes' :
          lanes[l].status = "SUSPICIOUS" /\ lanes'[l].status = "NORMAL"
              => \/ clock - lastHigh[l] >= Hysteresis.dwell
                 \/ Forgotten(l)]_admissionVars

(* A lane is established only by a completed clean request and only after  *)
(* a clean window in which it was never out of NORMAL, not even through    *)
(* a request admitted before the window.                                   *)
EstablishedAfterCleanWindow ==
    [][\A l \in DOMAIN lanes' :
          lanes'[l].state = "ESTABLISHED" /\ (l \in DOMAIN lanes => lanes[l].state # "ESTABLISHED")
              => /\ \E r \in Requests : At(r, "record") /\ req[r].lane = l /\ req[r].adaptive
                 /\ lanes'[l].status = "NORMAL"
                 /\ clock - Max({elevated[l], lanes'[l].firstSeen}) >= Learning.age]_admissionVars

(* Evidence that still counts leaves the store only under the storage      *)
(* bound of its subject: no append, prune or slow request drops it.        *)
LiveEvidenceKept ==
    [][\A ev \in evidence \ evidence' :
          Valid(ev, clock) =>
              Cardinality({e \in evidence' : e.subject = ev.subject}) >= MaxEvidencePerSubject]_admissionVars

(* In a lockdown no request is admitted on a lane that was created during  *)
(* that lockdown, the ones that denied requests left behind included.      *)
LockdownDeniesNewLanes ==
    \A r \in Requests :
        /\ req[r].pc \in {"authorized", "baseline", "record"}
        /\ req[r].lockdown
        /\ posture.lockdown
        /\ req[r].lane \in DOMAIN lanes
        => born[req[r].lane] # episode
=============================================================================
