--------------------------- MODULE CredentialState ---------------------------
(***************************************************************************)
(* The authoritative security state of one credential and the admission    *)
(* requests that read and move it.                                         *)
(*                                                                         *)
(* The record is the row internal/credential keeps (status, revision,      *)
(* pepper generation of the stored verifier, and the hysteresis part of    *)
(* SecurityState).  Three kinds of actor touch it concurrently:            *)
(*   - admission requests: authenticate, migrate a legacy verifier,        *)
(*     observe their risk, and decide on the record they last read;        *)
(*   - the operator, who revokes;                                          *)
(*   - the clock.                                                          *)
(* Each access to the registry is one critical section (memory), one bbolt *)
(* write transaction or one serializable PostgreSQL transaction, hence one *)
(* action; between two accesses of one request anything may happen.        *)
(*                                                                         *)
(* RiskScore, LastObservedAt, LastStateChangeAt, RotatedAt and LastSeenAt  *)
(* are written but never read by a decision and are left out.              *)
(***************************************************************************)
EXTENDS Integers

CONSTANTS
    Requests,               \* admission requests that may be in flight
    Scores,                 \* credential risk scores an observation can carry
    WatchThresh, ConstrainedThresh, QuarantineThresh,
    WatchDownThresh, ConstrainedDownThresh,
    WatchDwell, ConstrainedDwell, WatchObs,
    AutoQuarantine,         \* values of Risk.EnableAutomaticQuarantine in force
    AuthorityClock,         \* TRUE: statepg stamps with database time
    ExpiresAt,              \* the credential's expiry instant, 0 for none
    MaxLatency,             \* ticks between a request's clock read and its commit
    MaxTime,                \* bound on the clock
    MaxRevision             \* bound on operator revisions

(***************************************************************************)
(* What CompiledPolicy validation (policy.go, validateRisk) lets through.  *)
(***************************************************************************)
ASSUME ThresholdAssumption ==
    /\ {WatchThresh, ConstrainedThresh, QuarantineThresh} \subseteq 1..100
    /\ {WatchDownThresh, ConstrainedDownThresh} \subseteq 0..100
    /\ WatchThresh < ConstrainedThresh /\ ConstrainedThresh < QuarantineThresh
    /\ WatchDownThresh < WatchThresh /\ ConstrainedDownThresh < ConstrainedThresh
    /\ {WatchDwell, ConstrainedDwell, WatchObs} \subseteq Nat \ {0}

ASSUME ScopeAssumption ==
    /\ Scores \subseteq 0..100
    /\ AutoQuarantine \subseteq BOOLEAN
    /\ AuthorityClock \in BOOLEAN
    /\ ExpiresAt \in Nat
    /\ MaxLatency \in Nat /\ MaxTime \in Nat /\ MaxRevision \in Nat

VARIABLES
    now,    \* wall clock, at least 1 (0 is Go's zero time)
    rec,    \* the credential record
    req,    \* per request: where it is and what it last read
    hist    \* history: what the observations committed so far were

vars == <<now, rec, req, hist>>

Status == {"NORMAL", "WATCH", "CONSTRAINED", "QUARANTINED", "REVOKED"}

Terminal == {"QUARANTINED", "REVOKED"}

Peppers == {"legacy", "latest"}

CredentialRecord ==
    [status : Status, streak : Nat, below : Nat, revision : Nat \ {0}, pepper : Peppers]

statusRank ==
    [s \in Status |-> CASE s = "NORMAL" -> 0 [] s = "WATCH" -> 1
                        [] s = "CONSTRAINED" -> 2 [] OTHER -> 3]

(* A ceiling of StatusNormal (the zero value) means "no ceiling".          *)
escalationExceedsCeiling(target, ceiling) ==
    ceiling # "NORMAL" /\ statusRank[target] > statusRank[ceiling]

-----------------------------------------------------------------------------
(***************************************************************************)
(* The reducer.  s is the record; only status, streak (WatchStreak) and    *)
(* below (BelowSince, 0 when IsZero) change.                               *)
(***************************************************************************)
MoveTo(s, status) == [s EXCEPT !.status = status, !.below = 0]

(* A score that warrants quarantine escalates at once, up to the ceiling;  *)
(* at or above the ceiling it is only recorded.                            *)
ReduceHot(s, ceiling) ==
    LET target == IF escalationExceedsCeiling("QUARANTINED", ceiling)
                  THEN ceiling ELSE "QUARANTINED"
    IN  IF statusRank[target] > statusRank[s.status]
        THEN [MoveTo(s, target) EXCEPT !.streak = 0]
        ELSE s

(* NORMAL: a streak of WatchObs scores at or above WatchThresh is needed.  *)
ReduceNormal(s, score, ceiling) ==
    IF score < WatchThresh THEN [s EXCEPT !.streak = 0]
    ELSE LET t == [s EXCEPT !.streak = @ + 1]
         IN  IF t.streak >= WatchObs /\ ~escalationExceedsCeiling("WATCH", ceiling)
             THEN MoveTo(t, "WATCH") ELSE t

(* Mutant of StepDown: a score above the threshold leaves the timer running.*)
StepDownKeepsTimer(s, score, at, thresh, dwell, lower) ==
    IF score >= thresh THEN s
    ELSE IF s.below = 0 THEN [s EXCEPT !.below = at]
    ELSE IF at - s.below >= dwell THEN MoveTo(s, lower)
    ELSE s

(* The way down: below the threshold for a dwell, else the timer restarts. *)
StepDown(s, score, at, thresh, dwell, lower) ==
    IF score >= thresh THEN [s EXCEPT !.below = 0]
    ELSE IF s.below = 0 THEN [s EXCEPT !.below = at]
    ELSE IF at - s.below >= dwell THEN MoveTo(s, lower)
    ELSE s

ReduceWatch(s, score, at, ceiling) ==
    IF score >= ConstrainedThresh /\ ~escalationExceedsCeiling("CONSTRAINED", ceiling)
    THEN MoveTo(s, "CONSTRAINED")
    ELSE LET t == StepDown(s, score, at, WatchDownThresh, WatchDwell, "NORMAL")
         IN  IF t.status = "NORMAL" THEN [t EXCEPT !.streak = 0] ELSE t

ReduceConstrained(s, score, at) ==
    StepDown(s, score, at, ConstrainedDownThresh, ConstrainedDwell, "WATCH")

ReduceTransition(s, score, at, ceiling) ==
    IF s.status \in Terminal THEN s
    ELSE IF score >= QuarantineThresh THEN ReduceHot(s, ceiling)
    ELSE IF s.status = "NORMAL" THEN ReduceNormal(s, score, ceiling)
    ELSE IF s.status = "WATCH" THEN ReduceWatch(s, score, at, ceiling)
    ELSE ReduceConstrained(s, score, at)

-----------------------------------------------------------------------------
(***************************************************************************)
(* Admission requests.                                                     *)
(***************************************************************************)
Idle == [pc |-> "idle", at |-> 0, status |-> "NORMAL", revision |-> 0]

PCs == {"idle", "legacy", "authed", "reread", "observed", "admitted", "denied"}

(* A request that has read the clock and not yet written its observation.  *)
InFlight(r) == req[r].pc \in {"legacy", "authed"}

Snapshot(r, pc, record) ==
    [req EXCEPT ![r].pc = pc, ![r].status = record.status,
                ![r].revision = record.revision]

(* Authenticatable: not revoked, not quarantined, and strictly before the  *)
(* expiry instant.                                                         *)
Authenticatable ==
    /\ rec.status \notin Terminal
    /\ ExpiresAt # 0 => now < ExpiresAt

Init ==
    /\ now = 1
    /\ rec \in [status : {"NORMAL"}, streak : {0}, below : {0},
                revision : {1}, pepper : Peppers]
    /\ req = [r \in Requests |-> Idle]
    /\ hist = [unfit |-> 1, run |-> 0, revoked |-> 0]

(* authenticate: resolve the verifier and check Authenticatable.  A match  *)
(* under an older pepper goes on to migrateVerifier with the record read   *)
(* here; the request's clock value is fixed at this point.                 *)
Authenticate(r) ==
    /\ req[r].pc = "idle"
    /\ req' = IF Authenticatable
              THEN [Snapshot(r, IF rec.pepper = "latest" THEN "authed" ELSE "legacy", rec)
                      EXCEPT ![r].at = now]
              ELSE [req EXCEPT ![r].pc = "denied"]
    /\ UNCHANGED <<now, rec, hist>>

(* Mutant of MigrateVerifier: writes the record back without the CAS.      *)
MigrateVerifierBlind(r) ==
    /\ req[r].pc = "legacy"
    /\ rec' = [rec EXCEPT !.pepper = "latest", !.status = req[r].status,
                          !.revision = @ + 1]
    /\ req' = Snapshot(r, "authed", rec')
    /\ UNCHANGED <<now, hist>>

(* The record RotateVerifierCAS commits.                                   *)
RotateVerifier == [rec EXCEPT !.pepper = "latest", !.revision = @ + 1]

(* migrateVerifier: the migration commits only at the revision that was    *)
(* read; when it loses, the request keeps the record it authenticated with.*)
MigrateVerifier(r) ==
    /\ req[r].pc = "legacy"
    /\ \/ /\ rec.revision = req[r].revision
          /\ rec' = RotateVerifier
          /\ req' = Snapshot(r, "authed", RotateVerifier)
       \/ \* lost CAS, or the store failed
          /\ req' = [req EXCEPT ![r].pc = "authed"]
          /\ UNCHANGED rec
    /\ UNCHANGED <<now, hist>>

-----------------------------------------------------------------------------
(* The instant the reducer is given: the database clock inside the         *)
(* transaction (statepg), or the value the request read when it began.     *)
ObservationTime(r) == IF AuthorityClock THEN now ELSE req[r].at

Ceiling(auto) == IF auto THEN "NORMAL" ELSE "CONSTRAINED"

(* Mutant of CommitObservation: a status change keeps the revision.        *)
CommitObservationSameRevision(score, at, ceiling) ==
    ReduceTransition(rec, score, at, ceiling)

(* The record an observation commits: reduced state, and one revision for  *)
(* a status change, none otherwise.                                        *)
CommitObservation(score, at, ceiling) ==
    LET red == ReduceTransition(rec, score, at, ceiling)
    IN  [red EXCEPT !.revision = IF red.status # rec.status THEN @ + 1 ELSE @]

(* History of an observation: unfit is the last instant at which recovery  *)
(* was not under way (a score at or above the current down threshold, or a *)
(* status change); run counts consecutive scores at or above WatchThresh.  *)
Unfit(status, score) ==
    \/ status = "WATCH" /\ score >= WatchDownThresh
    \/ status = "CONSTRAINED" /\ score >= ConstrainedDownThresh

RecordHistory(score) ==
    hist' = [hist EXCEPT
               !.unfit = IF Unfit(rec.status, score) \/ rec'.status # rec.status
                         THEN now ELSE @,
               !.run = IF score < WatchThresh THEN 0
                       ELSE IF @ < WatchObs THEN @ + 1 ELSE @]

(* ObserveAndCommit, answered: the request goes on with the record the     *)
(* transaction committed.                                                  *)
ObserveAndCommit(r) ==
    /\ req[r].pc = "authed"
    /\ \E score \in Scores, auto \in AutoQuarantine :
          /\ rec' = CommitObservation(score, ObservationTime(r), Ceiling(auto))
          /\ RecordHistory(score)
    /\ req' = Snapshot(r, "observed", rec')
    /\ UNCHANGED now

(* The commit landed but its answer was lost: the request sees an error.   *)
ObserveAnswerLost(r) ==
    /\ AuthorityClock
    /\ req[r].pc = "authed"
    /\ \E score \in Scores, auto \in AutoQuarantine :
          /\ rec' = CommitObservation(score, ObservationTime(r), Ceiling(auto))
          /\ RecordHistory(score)
    /\ req' = [req EXCEPT ![r].pc = "reread"]
    /\ UNCHANGED now

(* The registry failed before committing.                                  *)
ObserveFails(r) ==
    /\ req[r].pc = "authed"
    /\ req' = [req EXCEPT ![r].pc = "reread"]
    /\ UNCHANGED <<now, rec, hist>>

(* History unavailable (adaptive degraded): no observation is made and the *)
(* status read at authentication is kept.                                  *)
SkipObservation(r) ==
    /\ req[r].pc = "authed"
    /\ req' = [req EXCEPT ![r].pc = "observed"]
    /\ UNCHANGED <<now, rec, hist>>

(* After an error: LookupAuthoritative, whose failure keeps the old read.  *)
Reread(r) ==
    /\ req[r].pc = "reread"
    /\ \/ req' = Snapshot(r, "observed", rec)
       \/ req' = [req EXCEPT ![r].pc = "observed"]
    /\ UNCHANGED <<now, rec, hist>>

(* The quarantine gate and policy.Evaluate on the status last read; an     *)
(* admitted request's assertion carries cred_rev = req[r].revision.        *)
Decide(r) ==
    /\ req[r].pc = "observed"
    /\ req' = [req EXCEPT ![r].pc = IF req[r].status \in Terminal
                                    THEN "denied" ELSE "admitted"]
    /\ UNCHANGED <<now, rec, hist>>

Finish(r) ==
    /\ req[r].pc \in {"admitted", "denied"}
    /\ req' = [req EXCEPT ![r] = Idle]
    /\ UNCHANGED <<now, rec, hist>>

(* The record a revocation commits.                                        *)
Revoked == [rec EXCEPT !.status = "REVOKED", !.revision = @ + 1]

(* RevokeCredentialWithAudit: whatever the status was.  A file revises a   *)
(* revoked credential again; statepg leaves it alone.                      *)
Revoke ==
    /\ rec.revision < MaxRevision
    /\ AuthorityClock => rec.status # "REVOKED"
    /\ rec' = Revoked
    /\ hist' = [hist EXCEPT !.revoked = IF @ = 0 THEN rec'.revision ELSE @]
    /\ UNCHANGED <<now, req>>

(* Time passes; no request is in flight for longer than MaxLatency.        *)
Tick ==
    /\ now < MaxTime
    /\ \A r \in Requests : InFlight(r) => now - req[r].at < MaxLatency
    /\ now' = now + 1
    /\ UNCHANGED <<rec, req, hist>>

Next ==
    \/ Tick
    \/ Revoke
    \/ \E r \in Requests :
          \/ Authenticate(r) \/ MigrateVerifier(r)
          \/ ObserveAndCommit(r) \/ ObserveAnswerLost(r) \/ ObserveFails(r)
          \/ SkipObservation(r) \/ Reread(r) \/ Decide(r) \/ Finish(r)

Spec == Init /\ [][Next]_vars

-----------------------------------------------------------------------------
(***************************************************************************)
(* Properties.                                                             *)
(***************************************************************************)

(* The type invariant of the record, the requests and the history.         *)
TypeOK ==
    /\ now \in Nat \ {0}
    /\ rec \in CredentialRecord
    /\ req \in [Requests -> [pc : PCs, at : Nat, status : Status, revision : Nat]]
    /\ hist \in [unfit : Nat, run : 0..WatchObs, revoked : Nat]

(* A revision names one status: a request that holds the live revision     *)
(* holds the live status, and no request holds a revision from the future. *)
(* This is what lets cred_rev in an assertion stand for the state it was   *)
(* decided on (ObserveAndCommit, Revoke and RotateVerifierCAS bump it).    *)
SnapshotCoherent ==
    \A r \in Requests : req[r].pc \notin {"idle", "denied"} =>
        /\ req[r].revision <= rec.revision
        /\ req[r].revision = rec.revision => req[r].status = rec.status

(* No assertion is issued at or after the revision of the revocation, how- *)
(* ever admission, migration and observation interleave with Revoke: an    *)
(* admitted request decided on a record older than the revocation          *)
(* (INV-13: a revoked credential never authenticates).                     *)
AdmittedBeforeRevocation ==
    \A r \in Requests :
        req[r].pc = "admitted" /\ hist.revoked # 0 => req[r].revision < hist.revoked

(* NORMAL becomes WATCH only once WatchObs consecutive observations, from  *)
(* whichever requests and with lost answers counted once, were at or above *)
(* WatchThresh (ReduceTransition, case StatusNormal).                      *)
WatchNeedsConsecutiveObservations ==
    [][rec.status = "NORMAL" /\ rec'.status = "WATCH" => hist'.run = WatchObs]_vars

(* How far a captured clock can lag the commit it stamps.                  *)
Skew == IF AuthorityClock THEN 0 ELSE MaxLatency

(* WATCH returns to NORMAL only when every observation committed in the    *)
(* last WatchDwell (less the skew of a captured clock) was below           *)
(* WatchDownThresh and the status did not change meanwhile.                *)
WatchRecoversAfterDwell ==
    [][rec.status = "WATCH" /\ rec'.status = "NORMAL"
         => now - hist.unfit >= WatchDwell - Skew]_vars

(* The same for CONSTRAINED and ConstrainedDwell.                          *)
ConstrainedRecoversAfterDwell ==
    [][rec.status = "CONSTRAINED" /\ rec'.status = "WATCH"
         => now - hist.unfit >= ConstrainedDwell - Skew]_vars
=============================================================================
