--------------------------- MODULE IdentityProofs ---------------------------
(***************************************************************************)
(* Proofs about CredentialState, for every set of requests, every set of   *)
(* thresholds and dwells that policy validation accepts, both clocks and   *)
(* both settings of automatic quarantine; and about SourceIdentity, for    *)
(* every set of clients, proxies, forged headers and nodes, and every      *)
(* finite set of generations.                                              *)
(***************************************************************************)
EXTENDS CredentialState, SourceIdentity, SequenceTheorems, FiniteSetTheorems, WellFoundedInduction, TLAPS

(* The ceilings observeCredentialRisk passes to the reducer.               *)
Ceilings == {"NORMAL", "CONSTRAINED"}

-----------------------------------------------------------------------------
(* Replacing one field of a record leaves the others alone: BelowSince.    *)
LEMMA BelowUpdate ==
    ASSUME NEW s \in CredentialRecord, NEW b \in Nat
    PROVE  LET t == [s EXCEPT !.below = b] IN
           /\ t \in CredentialRecord
           /\ t.status = s.status /\ t.below = b
           /\ t.streak = s.streak /\ t.revision = s.revision
  BY DEF CredentialRecord

(* The same for WatchStreak.                                               *)
LEMMA StreakUpdate ==
    ASSUME NEW s \in CredentialRecord, NEW k \in Nat
    PROVE  LET t == [s EXCEPT !.streak = k] IN
           /\ t \in CredentialRecord
           /\ t.status = s.status /\ t.below = s.below
           /\ t.streak = k /\ t.revision = s.revision
  BY DEF CredentialRecord

(* The same for a status change, which clears BelowSince.                  *)
LEMMA MoveToUpdate ==
    ASSUME NEW s \in CredentialRecord, NEW st \in Status
    PROVE  LET t == MoveTo(s, st) IN
           /\ t \in CredentialRecord
           /\ t.status = st /\ t.below = 0
           /\ t.streak = s.streak /\ t.revision = s.revision
  BY DEF CredentialRecord, MoveTo

(* The way down in ReduceTransition: the status falls only after a full    *)
(* dwell, and a timer that runs was either running or starts now.          *)
LEMMA StepDownFacts ==
    ASSUME NEW s \in CredentialRecord, NEW score \in Int, NEW at \in Nat,
           NEW thresh \in Int, NEW dwell \in Int, NEW lower \in Status, lower # s.status
    PROVE  LET t == StepDown(s, score, at, thresh, dwell, lower) IN
           /\ t \in CredentialRecord
           /\ t.revision = s.revision
           /\ t.streak = s.streak
           /\ t.status \in {s.status, lower}
           /\ t.status = lower => /\ score < thresh /\ s.below # 0 /\ at - s.below >= dwell
                                  /\ t.below = 0
           /\ t.status = s.status /\ t.below # 0
                => score < thresh /\ t.below \in {s.below, at}
<1> DEFINE t == StepDown(s, score, at, thresh, dwell, lower)
<1> s.below \in Nat
  BY DEF CredentialRecord
<1>1. CASE score >= thresh
  <2>1. t = [s EXCEPT !.below = 0] BY <1>1 DEF StepDown
  <2>2. 0 \in Nat OBVIOUS
  <2> QED BY <1>1, <2>1, <2>2, BelowUpdate
<1>2. CASE score < thresh /\ s.below = 0
  <2>1. t = [s EXCEPT !.below = at] BY <1>2 DEF StepDown
  <2> QED BY <1>2, <2>1, BelowUpdate
<1>3. CASE score < thresh /\ s.below # 0 /\ at - s.below >= dwell
  <2>1. t = MoveTo(s, lower) BY <1>3 DEF StepDown
  <2> QED BY <1>3, <2>1, MoveToUpdate
<1>4. CASE score < thresh /\ s.below # 0 /\ ~(at - s.below >= dwell)
  <2>1. t = s BY <1>4 DEF StepDown
  <2> QED BY <1>4, <2>1
<1> QED BY <1>1, <1>2, <1>3, <1>4

(* What ReduceTransition guarantees for any record, score and ceiling.     *)
LEMMA ReducerFacts ==
    ASSUME NEW s \in CredentialRecord, NEW score \in Scores, NEW at \in Nat,
           NEW c \in Ceilings, NEW t, t = ReduceTransition(s, score, at, c)
    PROVE  /\ t \in CredentialRecord
           /\ t.revision = s.revision
           /\ s.status \in Terminal => t = s
           /\ s.status \notin Terminal => t.status # "REVOKED"
           /\ s.status = "WATCH" /\ t.status = "NORMAL"
                => s.below # 0 /\ at - s.below >= WatchDwell
           /\ t.status = "WATCH" /\ t.below # 0
                => /\ s.status = "WATCH" /\ score < WatchDownThresh
                   /\ t.below \in {s.below, at}
           /\ t.status = "NORMAL"
                => \/ t.streak = 0
                   \/ /\ s.status = "NORMAL" /\ score >= WatchThresh
                      /\ t.streak = s.streak + 1 /\ t.streak < WatchObs
           /\ s.status = "NORMAL" /\ t.status = "WATCH"
                => score >= WatchThresh /\ s.streak + 1 >= WatchObs
<1> score \in 0..100
  BY ScopeAssumption
<1> /\ s.status \in Status /\ s.streak \in Nat /\ s.below \in Nat
    /\ 0 \in Nat /\ s.streak + 1 \in Nat
  BY DEF CredentialRecord
<1> /\ WatchThresh \in 0..100 /\ ConstrainedThresh \in 0..100 /\ QuarantineThresh \in 0..100
    /\ WatchDownThresh \in 0..100 /\ ConstrainedDownThresh \in 0..100
    /\ WatchDwell \in Nat /\ ConstrainedDwell \in Nat /\ WatchObs \in Nat
  BY ThresholdAssumption
<1> /\ score \in Int /\ WatchDownThresh \in Int /\ ConstrainedDownThresh \in Int
    /\ WatchDwell \in Int /\ ConstrainedDwell \in Int
  OBVIOUS
<1>0. CASE s.status \in Terminal
  BY <1>0 DEF ReduceTransition, Terminal
<1>1. CASE s.status \notin Terminal /\ score >= QuarantineThresh
  <2> DEFINE target == IF escalationExceedsCeiling("QUARANTINED", c) THEN c ELSE "QUARANTINED"
  <2>1. target \in {"CONSTRAINED", "QUARANTINED"} /\ target \in Status
    BY DEF escalationExceedsCeiling, statusRank, Status, Ceilings
  <2>2. t = ReduceHot(s, c)
    BY <1>1 DEF ReduceTransition
  <2>3. CASE statusRank[target] > statusRank[s.status]
    <3>1. t = [MoveTo(s, target) EXCEPT !.streak = 0]
      BY <2>2, <2>3 DEF ReduceHot
    <3> HIDE DEF target
    <3>2. MoveTo(s, target) \in CredentialRecord /\ MoveTo(s, target).status = target
          /\ MoveTo(s, target).revision = s.revision
      BY <2>1, MoveToUpdate
    <3>3. t \in CredentialRecord /\ t.status = target /\ t.streak = 0 /\ t.revision = s.revision
      BY <3>1, <3>2, StreakUpdate
    <3> QED
      BY <1>1, <2>1, <3>3
  <2>4. CASE ~(statusRank[target] > statusRank[s.status])
    <3>1. t = s
      BY <2>2, <2>4 DEF ReduceHot
    <3>2. s.status \notin {"NORMAL", "WATCH"}
      BY <2>1, <2>4 DEF statusRank, Status
    <3> QED
      BY <1>1, <3>1, <3>2 DEF Terminal
  <2> QED
    BY <2>3, <2>4
<1>2. CASE s.status = "NORMAL" /\ score < QuarantineThresh
  <2>1. t = ReduceNormal(s, score, c)
    BY <1>2 DEF ReduceTransition, Terminal
  <2>2. CASE score < WatchThresh
    <3>1. t = [s EXCEPT !.streak = 0]
      BY <2>1, <2>2 DEF ReduceNormal
    <3> QED
      BY <1>2, <3>1, StreakUpdate DEF Terminal
  <2>3. CASE ~(score < WatchThresh)
    <3> DEFINE u == [s EXCEPT !.streak = s.streak + 1]
    <3>1. u \in CredentialRecord /\ u.status = s.status /\ u.streak = s.streak + 1
          /\ u.revision = s.revision
      BY StreakUpdate
    <3>2. \/ t = u /\ ~(u.streak >= WatchObs)
          \/ t = MoveTo(u, "WATCH") /\ u.streak >= WatchObs
      <4>1. ~escalationExceedsCeiling("WATCH", c)
        BY DEF escalationExceedsCeiling, statusRank, Status, Ceilings
      <4> QED
        BY <2>1, <2>3, <4>1 DEF ReduceNormal
    <3> HIDE DEF u
    <3>3. "WATCH" \in Status
      BY DEF Status
    <3> QED
      BY <1>2, <2>3, <3>1, <3>2, <3>3, MoveToUpdate DEF Terminal
  <2> QED
    BY <2>2, <2>3
<1>3. CASE s.status = "WATCH" /\ score < QuarantineThresh
  <2>1. t = ReduceWatch(s, score, at, c)
    BY <1>3 DEF ReduceTransition, Terminal
  <2> DEFINE u == StepDown(s, score, at, WatchDownThresh, WatchDwell, "NORMAL")
  <2>2. "NORMAL" \in Status /\ "CONSTRAINED" \in Status
    BY DEF Status
  <2>3. CASE t = MoveTo(s, "CONSTRAINED")
    BY <1>3, <2>2, <2>3, MoveToUpdate DEF Terminal
  <2>4. CASE t # MoveTo(s, "CONSTRAINED")
    <3>1. t = IF u.status = "NORMAL" THEN [u EXCEPT !.streak = 0] ELSE u
      BY <2>1, <2>4 DEF ReduceWatch
    <3>2. /\ u \in CredentialRecord /\ u.revision = s.revision
          /\ u.status \in {s.status, "NORMAL"}
          /\ u.status = "NORMAL" => s.below # 0 /\ at - s.below >= WatchDwell
          /\ u.status = s.status /\ u.below # 0
               => score < WatchDownThresh /\ u.below \in {s.below, at}
      <4>1. "NORMAL" # s.status
        BY <1>3
      <4> QED
        BY <2>2, <4>1, StepDownFacts
    <3> HIDE DEF u
    <3>3. CASE u.status = "NORMAL"
      BY <1>3, <3>1, <3>2, <3>3, StreakUpdate DEF Terminal
    <3>4. CASE u.status # "NORMAL"
      BY <1>3, <3>1, <3>2, <3>4 DEF Terminal
    <3> QED
      BY <3>3, <3>4
  <2> QED
    BY <2>3, <2>4
<1>4. CASE s.status = "CONSTRAINED" /\ score < QuarantineThresh
  <2>1. t = StepDown(s, score, at, ConstrainedDownThresh, ConstrainedDwell, "WATCH")
    BY <1>4 DEF ReduceTransition, ReduceConstrained, Terminal
  <2>2. "WATCH" \in Status
    BY DEF Status
  <2>3. /\ t \in CredentialRecord /\ t.revision = s.revision
        /\ t.status \in {s.status, "WATCH"}
        /\ t.status = "WATCH" => t.below = 0
    BY <1>4, <2>1, <2>2, StepDownFacts
  <2> QED
    BY <1>4, <2>3 DEF Terminal
<1> QED
  BY <1>0, <1>1, <1>2, <1>3, <1>4 DEF Terminal, Status

(* What a request holds.                                                   *)
ReqRecord == [pc : PCs, at : Nat, status : Status, revision : Nat]

-----------------------------------------------------------------------------
(* What a request holds after reading a record.                            *)
LEMMA SnapshotFacts ==
    ASSUME req \in [Requests -> ReqRecord], NEW r \in Requests, NEW pc \in PCs,
           NEW s \in CredentialRecord
    PROVE  LET q == Snapshot(r, pc, s) IN
           /\ q \in [Requests -> ReqRecord]
           /\ q[r].pc = pc /\ q[r].at = req[r].at
           /\ q[r].status = s.status /\ q[r].revision = s.revision
           /\ \A x \in Requests \ {r} : q[x] = req[x]
  BY DEF Snapshot, ReqRecord, CredentialRecord

(* What ObserveAndCommit writes.                                           *)
LEMMA CommitFacts ==
    ASSUME TypeOK, NEW score \in Scores, NEW at \in Nat, NEW auto \in AutoQuarantine,
           NEW t, t = CommitObservation(score, at, Ceiling(auto))
    PROVE  /\ t \in CredentialRecord
           /\ t.revision = IF t.status # rec.status THEN rec.revision + 1 ELSE rec.revision
           /\ rec.status \in Terminal => t.status = rec.status
           /\ rec.status \notin Terminal => t.status # "REVOKED"
           /\ rec.status = "WATCH" /\ t.status = "NORMAL"
                => rec.below # 0 /\ at - rec.below >= WatchDwell
           /\ t.status = "WATCH" /\ t.below # 0
                => /\ rec.status = "WATCH" /\ score < WatchDownThresh
                   /\ t.below \in {rec.below, at}
           /\ t.status = "NORMAL"
                => \/ t.streak = 0
                   \/ /\ rec.status = "NORMAL" /\ score >= WatchThresh
                      /\ t.streak = rec.streak + 1 /\ t.streak < WatchObs
           /\ rec.status = "NORMAL" /\ t.status = "WATCH"
                => score >= WatchThresh /\ rec.streak + 1 >= WatchObs
<1> DEFINE red == ReduceTransition(rec, score, at, Ceiling(auto))
<1>1. rec \in CredentialRecord /\ Ceiling(auto) \in Ceilings
  BY DEF TypeOK, Ceiling, Ceilings
<1>2. t = [red EXCEPT !.revision = IF red.status # rec.status THEN red.revision + 1
                                   ELSE red.revision]
  BY DEF CommitObservation
<1>3. /\ red \in CredentialRecord
      /\ red.revision = rec.revision
      /\ rec.status \in Terminal => red = rec
      /\ rec.status \notin Terminal => red.status # "REVOKED"
      /\ rec.status = "WATCH" /\ red.status = "NORMAL"
           => rec.below # 0 /\ at - rec.below >= WatchDwell
      /\ red.status = "WATCH" /\ red.below # 0
           => /\ rec.status = "WATCH" /\ score < WatchDownThresh
              /\ red.below \in {rec.below, at}
      /\ red.status = "NORMAL"
           => \/ red.streak = 0
              \/ /\ rec.status = "NORMAL" /\ score >= WatchThresh
                 /\ red.streak = rec.streak + 1 /\ red.streak < WatchObs
      /\ rec.status = "NORMAL" /\ red.status = "WATCH"
           => score >= WatchThresh /\ rec.streak + 1 >= WatchObs
  BY <1>1, ReducerFacts
<1> HIDE DEF red
<1>4. t \in CredentialRecord /\ t.status = red.status /\ t.below = red.below
      /\ t.streak = red.streak
      /\ t.revision = IF red.status # rec.status THEN rec.revision + 1 ELSE rec.revision
  BY <1>2, <1>3 DEF CredentialRecord
<1> QED
  BY <1>3, <1>4

-----------------------------------------------------------------------------
(***************************************************************************)
(* The inductive invariant.  A live request holds a coherent snapshot that *)
(* is REVOKED if it is as new as the revocation; the recovery timer never  *)
(* started before the last unfit observation, up to the clock skew; the    *)
(* streak of a NORMAL record is backed by as many observations.            *)
(***************************************************************************)
Live == {"legacy", "authed", "reread", "observed", "admitted"}

RequestOK(q) ==
    /\ q.pc \in Live => /\ q.revision <= rec.revision
                        /\ q.revision = rec.revision => q.status = rec.status
                        /\ hist.revoked # 0 /\ q.revision >= hist.revoked
                             => q.status = "REVOKED"
    /\ q.pc \in {"legacy", "authed"} => q.at <= now /\ now - q.at <= MaxLatency
    /\ q.pc = "admitted" => q.status \notin Terminal

RequestsInv == \A r \in Requests : RequestOK(req[r])

RevokedInv == hist.revoked # 0 => rec.status = "REVOKED" /\ hist.revoked <= rec.revision

DwellInv ==
    /\ hist.unfit <= now
    /\ rec.status = "WATCH" /\ rec.below # 0 => rec.below >= hist.unfit - Skew

StreakInv == rec.status = "NORMAL" => rec.streak <= hist.run

IInv == TypeOK /\ RequestsInv /\ RevokedInv /\ DwellInv /\ StreakInv

(* A freshly provisioned credential without requests satisfies it.         *)
LEMMA InitIInv == Init => IInv
<1> SUFFICES ASSUME Init PROVE IInv
  OBVIOUS
<1>1. TypeOK
  BY ThresholdAssumption DEF Init, TypeOK, CredentialRecord, Status, Peppers, Idle, PCs
<1>2. RequestsInv /\ RevokedInv
  BY DEF Init, Idle, RequestsInv, RequestOK, RevokedInv, Live
<1>3. DwellInv /\ StreakInv
  BY ThresholdAssumption, ScopeAssumption DEF Init, DwellInv, StreakInv
<1> QED
  BY <1>1, <1>2, <1>3 DEF IInv

(* What a committed observation does to the parts that only concern the record. *)
LEMMA ObservationStep ==
    ASSUME IInv, NEW r \in Requests, req[r].pc = "authed",
           NEW score \in Scores, NEW auto \in AutoQuarantine,
           rec' = CommitObservation(score, ObservationTime(r), Ceiling(auto)),
           RecordHistory(score), now' = now
    PROVE  /\ rec' \in CredentialRecord
           /\ hist' \in [unfit : Nat, run : 0..WatchObs, revoked : Nat]
           /\ rec.revision <= rec'.revision
           /\ rec'.revision = rec.revision => rec'.status = rec.status
           /\ hist'.revoked = hist.revoked
           /\ hist.revoked # 0 => rec'.status = "REVOKED" /\ rec'.revision = rec.revision
           /\ DwellInv' /\ StreakInv'
           /\ rec.status = "NORMAL" /\ rec'.status = "WATCH" => hist'.run = WatchObs
           /\ rec.status = "WATCH" /\ rec'.status = "NORMAL"
                => now - hist.unfit >= WatchDwell - Skew
<1> DEFINE at == ObservationTime(r)
<1>1. /\ at \in Nat /\ now \in Nat /\ Skew \in Nat /\ at <= now /\ at >= now - Skew
  <2>1. req[r].at \in Nat /\ now \in Nat /\ req[r].at <= now /\ now - req[r].at <= MaxLatency
    BY DEF IInv, TypeOK, RequestsInv, RequestOK
  <2> QED
    BY <2>1, ScopeAssumption DEF ObservationTime, Skew
<1>2. TypeOK /\ rec' = CommitObservation(score, at, Ceiling(auto))
  BY DEF IInv
<1> HIDE DEF at
<1>3. /\ rec' \in CredentialRecord
      /\ rec'.revision = IF rec'.status # rec.status THEN rec.revision + 1 ELSE rec.revision
      /\ rec.status \in Terminal => rec'.status = rec.status
      /\ rec.status = "WATCH" /\ rec'.status = "NORMAL"
           => rec.below # 0 /\ at - rec.below >= WatchDwell
      /\ rec'.status = "WATCH" /\ rec'.below # 0
           => /\ rec.status = "WATCH" /\ score < WatchDownThresh
              /\ rec'.below \in {rec.below, at}
      /\ rec'.status = "NORMAL"
           => \/ rec'.streak = 0
              \/ /\ rec.status = "NORMAL" /\ score >= WatchThresh
                 /\ rec'.streak = rec.streak + 1 /\ rec'.streak < WatchObs
      /\ rec.status = "NORMAL" /\ rec'.status = "WATCH"
           => score >= WatchThresh /\ rec.streak + 1 >= WatchObs
  BY <1>1, <1>2, CommitFacts
<1>4. /\ rec.revision \in Nat /\ rec.below \in Nat /\ rec.streak \in Nat
      /\ rec'.revision \in Nat /\ rec'.below \in Nat /\ rec'.streak \in Nat
      /\ hist \in [unfit : Nat, run : 0..WatchObs, revoked : Nat]
      /\ hist.unfit \in Nat /\ hist.run \in 0..WatchObs /\ hist.revoked \in Nat
  BY <1>2, <1>3 DEF TypeOK, CredentialRecord
<1>5. /\ WatchObs \in Nat /\ WatchDwell \in Nat /\ WatchThresh \in Int
      /\ WatchDownThresh \in Int /\ score \in Int
  BY ThresholdAssumption, ScopeAssumption
<1>6. /\ hist' \in [unfit : Nat, run : 0..WatchObs, revoked : Nat]
      /\ hist'.revoked = hist.revoked
      /\ hist'.unfit = IF Unfit(rec.status, score) \/ rec'.status # rec.status
                       THEN now ELSE hist.unfit
      /\ hist'.run = IF score < WatchThresh THEN 0
                     ELSE IF hist.run < WatchObs THEN hist.run + 1 ELSE hist.run
  <2> DEFINE newUnfit == IF Unfit(rec.status, score) \/ rec'.status # rec.status
                         THEN now ELSE hist.unfit
             newRun == IF score < WatchThresh THEN 0
                       ELSE IF hist.run < WatchObs THEN hist.run + 1 ELSE hist.run
  <2>1. hist' = [hist EXCEPT !.unfit = newUnfit, !.run = newRun]
    BY DEF RecordHistory
  <2>2. newUnfit \in Nat /\ newRun \in 0..WatchObs
    BY <1>1, <1>4, <1>5
  <2> HIDE DEF newUnfit, newRun
  <2>3. /\ hist' \in [unfit : Nat, run : 0..WatchObs, revoked : Nat]
        /\ hist'.revoked = hist.revoked /\ hist'.unfit = newUnfit /\ hist'.run = newRun
    BY <1>4, <2>1, <2>2
  <2> QED
    BY <2>3 DEF newUnfit, newRun
<1>7. DwellInv /\ StreakInv /\ (hist.revoked # 0 => rec.status = "REVOKED")
  BY DEF IInv, RevokedInv
<1>8. DwellInv'
  <2>1. hist'.unfit <= now'
    BY <1>1, <1>4, <1>6, <1>7 DEF DwellInv
  <2>2. ASSUME rec'.status = "WATCH", rec'.below # 0
        PROVE  rec'.below >= hist'.unfit - Skew
    <3>1. rec.status = "WATCH" /\ score < WatchDownThresh /\ rec'.below \in {rec.below, at}
      BY <1>3, <2>2
    <3>2. hist'.unfit = hist.unfit
      BY <1>5, <1>6, <2>2, <3>1 DEF Unfit
    <3>3. CASE rec'.below = rec.below
      BY <1>7, <2>2, <3>1, <3>2, <3>3 DEF DwellInv
    <3>4. CASE rec'.below = at
      BY <1>1, <1>4, <1>7, <3>2, <3>4 DEF DwellInv
    <3> QED
      BY <3>1, <3>3, <3>4
  <2>3. Skew' = Skew
    BY DEF Skew
  <2> QED
    BY <2>1, <2>2, <2>3 DEF DwellInv
<1>9. StreakInv'
  BY <1>3, <1>4, <1>5, <1>6, <1>7 DEF StreakInv
<1>10. rec.status = "NORMAL" /\ rec'.status = "WATCH" => hist'.run = WatchObs
  BY <1>3, <1>4, <1>5, <1>6, <1>7 DEF StreakInv
<1>11. rec.status = "WATCH" /\ rec'.status = "NORMAL"
         => now - hist.unfit >= WatchDwell - Skew
  BY <1>1, <1>3, <1>4, <1>5, <1>7 DEF DwellInv
<1> QED
  BY <1>3, <1>4, <1>6, <1>7, <1>8, <1>9, <1>10, <1>11 DEF Terminal

(* A step that only moves request r keeps the invariant if r's new entry is right. *)
LEMMA RequestStep ==
    ASSUME IInv, now' = now, rec' = rec, hist' = hist, NEW r \in Requests,
           req' \in [Requests -> ReqRecord], RequestOK(req'[r]),
           \A x \in Requests \ {r} : req'[x] = req[x]
    PROVE  IInv'
<1>1. TypeOK'
  BY DEF IInv, TypeOK, ReqRecord
<1>2. \A x \in Requests : RequestOK(req[x])
  BY DEF IInv, RequestsInv
<1>3. RequestsInv'
  BY <1>2 DEF RequestsInv, RequestOK
<1>4. RevokedInv' /\ DwellInv' /\ StreakInv'
  BY DEF IInv, RevokedInv, DwellInv, StreakInv, Skew
<1> QED
  BY <1>1, <1>3, <1>4 DEF IInv

(* The entry of request r with only its pc replaced.                       *)
LEMMA MovePC ==
    ASSUME req \in [Requests -> ReqRecord], NEW r \in Requests, NEW pc \in PCs
    PROVE  LET q == [req EXCEPT ![r].pc = pc] IN
           /\ q \in [Requests -> ReqRecord]
           /\ q[r].pc = pc /\ q[r].at = req[r].at
           /\ q[r].status = req[r].status /\ q[r].revision = req[r].revision
           /\ \A x \in Requests \ {r} : q[x] = req[x]
  BY DEF ReqRecord

(* Every step of every actor preserves it.                                 *)
LEMMA NextIInv == IInv /\ [Next]_vars => IInv'
<1> SUFFICES ASSUME IInv, [Next]_vars PROVE IInv'
  OBVIOUS
<1>0. /\ now \in Nat \ {0} /\ rec \in CredentialRecord /\ req \in [Requests -> ReqRecord]
      /\ hist \in [unfit : Nat, run : 0..WatchObs, revoked : Nat]
      /\ hist.unfit \in Nat /\ hist.revoked \in Nat
      /\ rec.revision \in Nat \ {0} /\ rec.status \in Status
      /\ \A x \in Requests : /\ req[x].pc \in PCs /\ req[x].at \in Nat
                             /\ req[x].status \in Status /\ req[x].revision \in Nat
  BY DEF IInv, TypeOK, CredentialRecord, ReqRecord
<1>a. MaxLatency \in Nat /\ Skew \in Nat /\ Skew' = Skew
  BY ScopeAssumption DEF Skew
<1>b. \A x \in Requests : RequestOK(req[x])
  BY DEF IInv, RequestsInv
<1>1. CASE Tick
  <2>1. now' = now + 1 /\ rec' = rec /\ req' = req /\ hist' = hist
    BY <1>1 DEF Tick
  <2>2. TypeOK'
    BY <1>0, <2>1 DEF IInv, TypeOK
  <2>3. RequestsInv'
    BY <1>0, <1>a, <1>b, <1>1, <2>1 DEF Tick, RequestsInv, RequestOK, InFlight
  <2>4. RevokedInv' /\ DwellInv' /\ StreakInv'
    BY <1>0, <1>a, <2>1 DEF IInv, RevokedInv, DwellInv, StreakInv
  <2> QED
    BY <2>2, <2>3, <2>4 DEF IInv
<1>2. CASE Revoke
  <2>1. /\ rec' \in CredentialRecord /\ rec'.status = "REVOKED"
        /\ rec'.revision = rec.revision + 1 /\ now' = now /\ req' = req
    <3>1. rec.revision + 1 \in Nat \ {0} /\ "REVOKED" \in Status
      BY <1>0 DEF Status
    <3> QED
      BY <1>0, <1>2, <3>1 DEF Revoke, Revoked, CredentialRecord
  <2>2. /\ hist' \in [unfit : Nat, run : 0..WatchObs, revoked : Nat]
        /\ hist'.unfit = hist.unfit
        /\ hist'.revoked = IF hist.revoked = 0 THEN rec'.revision ELSE hist.revoked
    BY <1>0, <1>2, <2>1 DEF Revoke
  <2>3. TypeOK'
    BY <1>0, <2>1, <2>2 DEF IInv, TypeOK
  <2>4. RequestsInv'
    <3> SUFFICES ASSUME NEW x \in Requests PROVE RequestOK(req[x])'
      BY DEF RequestsInv
    <3>1. RequestOK(req[x]) /\ req[x].revision \in Nat /\ req[x].pc \in PCs
      BY <1>0, <1>b
    <3>2. req[x].pc \in Live => req[x].revision < rec'.revision
      BY <1>0, <2>1, <3>1 DEF RequestOK
    <3> QED
      BY <1>0, <2>1, <2>2, <3>1, <3>2 DEF RequestOK
  <2>5. RevokedInv' /\ DwellInv' /\ StreakInv'
    BY <1>0, <1>a, <2>1, <2>2 DEF IInv, RevokedInv, DwellInv, StreakInv
  <2> QED
    BY <2>3, <2>4, <2>5 DEF IInv
<1>3. ASSUME NEW r \in Requests, Authenticate(r) PROVE IInv'
  <2>0. now' = now /\ rec' = rec /\ hist' = hist
    BY <1>3 DEF Authenticate
  <2>1. CASE Authenticatable
    <3> DEFINE pc == IF rec.pepper = "latest" THEN "authed" ELSE "legacy"
               q == Snapshot(r, pc, rec)
    <3>1. pc \in {"authed", "legacy"} /\ pc \in PCs
      BY DEF PCs
    <3>2. req' = [q EXCEPT ![r].at = now]
      BY <1>3, <2>1 DEF Authenticate
    <3> HIDE DEF pc
    <3>3. /\ q \in [Requests -> ReqRecord]
          /\ q[r].pc = pc /\ q[r].status = rec.status /\ q[r].revision = rec.revision
          /\ \A x \in Requests \ {r} : q[x] = req[x]
      BY <1>0, <3>1, SnapshotFacts
    <3> HIDE DEF q
    <3>4. /\ req' \in [Requests -> ReqRecord]
          /\ req'[r].pc = pc /\ req'[r].at = now /\ req'[r].status = rec.status
          /\ req'[r].revision = rec.revision
          /\ \A x \in Requests \ {r} : req'[x] = req[x]
      BY <1>0, <3>2, <3>3 DEF ReqRecord
    <3>5. RequestOK(req'[r])
      BY <1>0, <1>a, <3>1, <3>4 DEF RequestOK, IInv, RevokedInv
    <3> QED
      BY <2>0, <3>4, <3>5, RequestStep
  <2>2. CASE ~Authenticatable
    <3>1. req' = [req EXCEPT ![r].pc = "denied"] /\ "denied" \in PCs
      BY <1>3, <2>2 DEF Authenticate, PCs
    <3>2. /\ req' \in [Requests -> ReqRecord] /\ req'[r].pc = "denied"
          /\ \A x \in Requests \ {r} : req'[x] = req[x]
      BY <1>0, <3>1, MovePC
    <3>3. RequestOK(req'[r])
      BY <3>2 DEF RequestOK, Live
    <3> QED
      BY <2>0, <3>2, <3>3, RequestStep
  <2> QED
    BY <2>1, <2>2
<1>4. ASSUME NEW r \in Requests, MigrateVerifier(r) PROVE IInv'
  <2>0. now' = now /\ hist' = hist /\ req[r].pc = "legacy" /\ "authed" \in PCs
    BY <1>4 DEF MigrateVerifier, PCs
  <2>1. CASE rec' = RotateVerifier /\ req' = Snapshot(r, "authed", RotateVerifier)
    <3>1. /\ RotateVerifier \in CredentialRecord /\ RotateVerifier.status = rec.status
          /\ RotateVerifier.revision = rec.revision + 1 /\ RotateVerifier.below = rec.below
          /\ RotateVerifier.streak = rec.streak
      <4>1. rec.revision + 1 \in Nat \ {0} /\ "latest" \in Peppers
        BY <1>0 DEF Peppers
      <4> QED
        BY <1>0, <4>1 DEF CredentialRecord, RotateVerifier
    <3>2. /\ req' \in [Requests -> ReqRecord]
          /\ req'[r].pc = "authed" /\ req'[r].at = req[r].at
          /\ req'[r].status = rec.status /\ req'[r].revision = rec.revision + 1
          /\ \A x \in Requests \ {r} : req'[x] = req[x]
      BY <1>0, <2>0, <2>1, <3>1, SnapshotFacts
    <3>3. TypeOK'
      BY <1>0, <2>0, <2>1, <3>1, <3>2 DEF IInv, TypeOK, ReqRecord
    <3>4. RevokedInv' /\ DwellInv' /\ StreakInv'
      BY <1>0, <1>a, <2>0, <2>1, <3>1 DEF IInv, RevokedInv, DwellInv, StreakInv
    <3>5. RequestsInv'
      <4> SUFFICES ASSUME NEW x \in Requests PROVE RequestOK(req[x])'
        BY DEF RequestsInv
      <4>1. CASE x = r
        BY <1>0, <1>b, <2>0, <2>1, <3>1, <3>2, <3>4, <4>1 DEF RequestOK, RevokedInv
      <4>2. CASE x # r
        BY <1>0, <1>b, <2>0, <2>1, <3>1, <3>2, <4>2 DEF RequestOK
      <4> QED
        BY <4>1, <4>2
    <3> QED
      BY <3>3, <3>4, <3>5 DEF IInv
  <2>2. CASE rec' = rec /\ req' = [req EXCEPT ![r].pc = "authed"]
    <3>1. /\ req' \in [Requests -> ReqRecord]
          /\ req'[r].pc = "authed" /\ req'[r].at = req[r].at
          /\ req'[r].status = req[r].status /\ req'[r].revision = req[r].revision
          /\ \A x \in Requests \ {r} : req'[x] = req[x]
      BY <1>0, <2>0, <2>2, MovePC
    <3>2. RequestOK(req'[r])
      BY <1>b, <2>0, <3>1 DEF RequestOK, Live
    <3> QED
      BY <2>0, <2>2, <3>1, <3>2, RequestStep
  <2> QED
    BY <1>4, <2>1, <2>2 DEF MigrateVerifier
<1>5. ASSUME NEW r \in Requests, ObserveAndCommit(r) \/ ObserveAnswerLost(r) PROVE IInv'
  <2>0. now' = now /\ req[r].pc = "authed" /\ "observed" \in PCs /\ "reread" \in PCs
    BY <1>5 DEF ObserveAndCommit, ObserveAnswerLost, PCs
  <2>1. PICK score \in Scores, auto \in AutoQuarantine :
          /\ rec' = CommitObservation(score, ObservationTime(r), Ceiling(auto))
          /\ RecordHistory(score)
    BY <1>5 DEF ObserveAndCommit, ObserveAnswerLost
  <2>2. /\ rec' \in CredentialRecord
        /\ hist' \in [unfit : Nat, run : 0..WatchObs, revoked : Nat]
        /\ rec.revision <= rec'.revision
        /\ rec'.revision = rec.revision => rec'.status = rec.status
        /\ hist'.revoked = hist.revoked
        /\ hist.revoked # 0 => rec'.status = "REVOKED" /\ rec'.revision = rec.revision
        /\ DwellInv' /\ StreakInv'
    BY <2>0, <2>1, ObservationStep
  <2>3. rec'.revision \in Nat /\ rec'.status \in Status
    BY <2>2 DEF CredentialRecord
  <2>4. RevokedInv'
    BY <1>0, <2>2 DEF IInv, RevokedInv
  <2>5. /\ req' \in [Requests -> ReqRecord]
        /\ req'[r].pc \in {"observed", "reread"}
        /\ \/ req'[r].status = rec'.status /\ req'[r].revision = rec'.revision
           \/ req'[r].status = req[r].status /\ req'[r].revision = req[r].revision
        /\ \A x \in Requests \ {r} : req'[x] = req[x]
    <3>1. CASE ObserveAndCommit(r)
      <4>1. req' = Snapshot(r, "observed", rec')
        BY <3>1 DEF ObserveAndCommit
      <4> QED
        BY <1>0, <2>0, <2>2, <4>1, SnapshotFacts
    <3>2. CASE ObserveAnswerLost(r)
      <4>1. req' = [req EXCEPT ![r].pc = "reread"]
        BY <3>2 DEF ObserveAnswerLost
      <4> QED
        BY <1>0, <2>0, <4>1, MovePC
    <3> QED
      BY <1>5, <3>1, <3>2
  <2>6. TypeOK'
    BY <1>0, <2>0, <2>2, <2>5 DEF IInv, TypeOK, ReqRecord
  <2>7. RequestsInv'
    <3> SUFFICES ASSUME NEW x \in Requests PROVE RequestOK(req[x])'
      BY DEF RequestsInv
    <3>0. RequestOK(req[x]) /\ req[x].revision \in Nat /\ req[x].pc \in PCs
      BY <1>0, <1>b
    <3>1. CASE x = r
      BY <1>0, <2>0, <2>2, <2>3, <2>4, <2>5, <3>0, <3>1 DEF RequestOK, RevokedInv, Live
    <3>2. CASE x # r
      BY <1>0, <2>0, <2>2, <2>3, <2>5, <3>0, <3>2 DEF RequestOK
    <3> QED
      BY <3>1, <3>2
  <2> QED
    BY <2>2, <2>4, <2>6, <2>7 DEF IInv
<1>6. ASSUME NEW r \in Requests,
             ObserveFails(r) \/ SkipObservation(r) \/ Reread(r) \/ Decide(r) \/ Finish(r)
      PROVE  IInv'
  <2>0. /\ now' = now /\ rec' = rec /\ hist' = hist
        /\ {"reread", "observed", "denied", "admitted", "idle"} \subseteq PCs
    BY <1>6 DEF ObserveFails, SkipObservation, Reread, Decide, Finish, PCs
  <2>1. ASSUME NEW pc \in PCs, pc \in {"reread", "observed"}, req[r].pc \in Live,
               req' = [req EXCEPT ![r].pc = pc]
        PROVE  IInv'
    <3>1. /\ req' \in [Requests -> ReqRecord] /\ req'[r].pc = pc
          /\ req'[r].status = req[r].status /\ req'[r].revision = req[r].revision
          /\ \A x \in Requests \ {r} : req'[x] = req[x]
      BY <1>0, <2>1, MovePC
    <3>2. RequestOK(req'[r])
      BY <1>b, <2>1, <3>1 DEF RequestOK
    <3> QED
      BY <2>0, <3>1, <3>2, RequestStep
  <2>2. CASE ObserveFails(r) \/ SkipObservation(r)
    BY <2>0, <2>1, <2>2 DEF ObserveFails, SkipObservation, Live
  <2>3. CASE Reread(r)
    <3>1. CASE req' = Snapshot(r, "observed", rec)
      <4>1. /\ req' \in [Requests -> ReqRecord] /\ req'[r].pc = "observed"
            /\ req'[r].status = rec.status /\ req'[r].revision = rec.revision
            /\ \A x \in Requests \ {r} : req'[x] = req[x]
        BY <1>0, <2>0, <3>1, SnapshotFacts
      <4>2. RequestOK(req'[r])
        BY <1>0, <4>1 DEF RequestOK, IInv, RevokedInv
      <4> QED
        BY <2>0, <4>1, <4>2, RequestStep
    <3> QED
      BY <2>0, <2>1, <2>3, <3>1 DEF Reread, Live
  <2>4. CASE Decide(r)
    <3> DEFINE pc == IF req[r].status \in Terminal THEN "denied" ELSE "admitted"
    <3>1. pc \in PCs /\ req' = [req EXCEPT ![r].pc = pc] /\ req[r].pc = "observed"
      BY <2>0, <2>4 DEF Decide
    <3>2. /\ req' \in [Requests -> ReqRecord] /\ req'[r].pc = pc
          /\ req'[r].status = req[r].status /\ req'[r].revision = req[r].revision
          /\ \A x \in Requests \ {r} : req'[x] = req[x]
      BY <1>0, <3>1, MovePC
    <3>3. RequestOK(req'[r])
      BY <1>b, <3>1, <3>2 DEF RequestOK, Live
    <3> QED
      BY <2>0, <3>2, <3>3, RequestStep
  <2>5. CASE Finish(r)
    <3>1. /\ req' \in [Requests -> ReqRecord] /\ req'[r].pc = "idle"
          /\ \A x \in Requests \ {r} : req'[x] = req[x]
      BY <1>0, <2>5 DEF Finish, Idle, ReqRecord, PCs, Status
    <3>2. RequestOK(req'[r])
      BY <3>1 DEF RequestOK, Live
    <3> QED
      BY <2>0, <3>1, <3>2, RequestStep
  <2> QED
    BY <1>6, <2>2, <2>3, <2>4, <2>5
<1>7. CASE UNCHANGED vars
  BY <1>7 DEF vars, IInv, TypeOK, RequestsInv, RequestOK, RevokedInv, DwellInv, StreakInv, Skew
<1> QED
  BY <1>1, <1>2, <1>3, <1>4, <1>5, <1>6, <1>7 DEF Next

-----------------------------------------------------------------------------
(* The inductive invariant holds of the specification.                     *)
THEOREM Invariance == Spec => []IInv
  BY InitIInv, NextIInv, PTL DEF Spec

(* Type correctness of the record, the requests and the history.           *)
THEOREM TypeCorrect == Spec => []TypeOK
<1>1. IInv => TypeOK
  BY DEF IInv
<1> QED
  BY <1>1, Invariance, PTL

(* A revision names one status: cred_rev in an assertion determines the    *)
(* status the request was decided on (ObserveAndCommit, Revoke,            *)
(* RotateVerifierCAS).                                                     *)
THEOREM Coherence == Spec => []SnapshotCoherent
<1>1. IInv => SnapshotCoherent
  BY DEF IInv, TypeOK, RequestsInv, RequestOK, SnapshotCoherent, Live, PCs
<1> QED
  BY <1>1, Invariance, PTL

(* No admission carries the revision of the revocation or a later one,     *)
(* however Revoke interleaves with authentication, migration and           *)
(* observation (INV-13).                                                   *)
THEOREM RevocationIsFinal == Spec => []AdmittedBeforeRevocation
<1>1. IInv => AdmittedBeforeRevocation
  BY DEF IInv, TypeOK, RequestsInv, RequestOK, AdmittedBeforeRevocation, Live, Terminal
<1> QED
  BY <1>1, Invariance, PTL

(* Only a committed observation moves the status other than to REVOKED.    *)
LEMMA StatusMoves ==
    ASSUME IInv, [Next]_vars, rec'.status # rec.status, rec'.status # "REVOKED"
    PROVE  \E r \in Requests, score \in Scores, auto \in AutoQuarantine :
              /\ req[r].pc = "authed"
              /\ rec' = CommitObservation(score, ObservationTime(r), Ceiling(auto))
              /\ RecordHistory(score) /\ now' = now
<1>0. rec \in CredentialRecord
  BY DEF IInv, TypeOK
<1>1. CASE \E r \in Requests : ObserveAndCommit(r) \/ ObserveAnswerLost(r)
  BY <1>1 DEF ObserveAndCommit, ObserveAnswerLost
<1>2. CASE Revoke
  BY <1>0, <1>2 DEF Revoke, Revoked, CredentialRecord
<1>3. CASE \E r \in Requests : MigrateVerifier(r)
  BY <1>0, <1>3 DEF MigrateVerifier, RotateVerifier, CredentialRecord
<1>4. CASE Tick \/ UNCHANGED vars \/ \E r \in Requests :
             \/ Authenticate(r) \/ ObserveFails(r) \/ SkipObservation(r)
             \/ Reread(r) \/ Decide(r) \/ Finish(r)
  BY <1>4 DEF Tick, vars, Authenticate, ObserveFails, SkipObservation, Reread, Decide, Finish
<1> QED
  BY <1>1, <1>2, <1>3, <1>4 DEF Next

(* ReduceTransition lowers WATCH to NORMAL only after a dwell without an   *)
(* unfit observation, under either ceiling and either clock.               *)
THEOREM WatchRecovery == Spec => WatchRecoversAfterDwell
<1>1. ASSUME IInv, [Next]_vars
      PROVE  [rec.status = "WATCH" /\ rec'.status = "NORMAL"
                => now - hist.unfit >= WatchDwell - Skew]_vars
  BY <1>1, StatusMoves, ObservationStep
<1> QED
  BY <1>1, Invariance, PTL DEF Spec, WatchRecoversAfterDwell

(* ReduceTransition raises NORMAL to WATCH only on WatchObs consecutive    *)
(* qualifying observations.                                                *)
THEOREM WatchEntry == Spec => WatchNeedsConsecutiveObservations
<1>1. ASSUME IInv, [Next]_vars
      PROVE  [rec.status = "NORMAL" /\ rec'.status = "WATCH" => hist'.run = WatchObs]_vars
  BY <1>1, StatusMoves, ObservationStep
<1> QED
  BY <1>1, Invariance, PTL DEF Spec, WatchNeedsConsecutiveObservations

-----------------------------------------------------------------------------
(***************************************************************************)
(* CONSTRAINED, with automatic quarantine: no score is only recorded.      *)
(***************************************************************************)
LEMMA ConstrainedReducer ==
    ASSUME NEW s \in CredentialRecord, NEW score \in Scores, NEW at \in Nat,
           NEW t, t = ReduceTransition(s, score, at, "NORMAL")
    PROVE  /\ t.status = "CONSTRAINED" /\ t.below # 0
                => /\ s.status = "CONSTRAINED" /\ score < ConstrainedDownThresh
                   /\ t.below \in {s.below, at}
           /\ s.status = "CONSTRAINED" /\ t.status = "WATCH"
                => s.below # 0 /\ at - s.below >= ConstrainedDwell
<1>0. /\ score \in Int /\ QuarantineThresh \in Int /\ ConstrainedDownThresh \in Int /\ WatchDownThresh \in Int
      /\ ConstrainedDwell \in Int /\ WatchDwell \in Int
      /\ {"NORMAL", "WATCH", "CONSTRAINED", "QUARANTINED"} \subseteq Status
  BY ThresholdAssumption, ScopeAssumption DEF Status
<1>1. CASE s.status \in Terminal
  BY <1>1 DEF ReduceTransition, Terminal
<1>2. CASE s.status \notin Terminal /\ score >= QuarantineThresh
  <2>1. t = ReduceHot(s, "NORMAL")
    BY <1>2 DEF ReduceTransition
  <2>2. t = s \/ t = [MoveTo(s, "QUARANTINED") EXCEPT !.streak = 0]
    BY <2>1 DEF ReduceHot, escalationExceedsCeiling
  <2>3. statusRank["QUARANTINED"] > statusRank[s.status]
    BY <1>2 DEF statusRank, Status, Terminal, CredentialRecord
  <2>4. t = [MoveTo(s, "QUARANTINED") EXCEPT !.streak = 0]
    BY <2>1, <2>3 DEF ReduceHot, escalationExceedsCeiling
  <2>5. t.status = "QUARANTINED"
    BY <2>4 DEF MoveTo, CredentialRecord
  <2> QED
    BY <2>5
<1>3. CASE s.status = "NORMAL" /\ score < QuarantineThresh
  <2>1. t = ReduceNormal(s, score, "NORMAL")
    BY <1>0, <1>3 DEF ReduceTransition, Terminal
  <2>2. t.status \in {"NORMAL", "WATCH"}
    BY <1>3, <2>1 DEF ReduceNormal, MoveTo, CredentialRecord
  <2> QED
    BY <1>3, <2>2
<1>4. CASE s.status = "WATCH" /\ score < QuarantineThresh
  <2> DEFINE u == StepDown(s, score, at, WatchDownThresh, WatchDwell, "NORMAL")
  <2>1. t = MoveTo(s, "CONSTRAINED") \/ t = IF u.status = "NORMAL" THEN [u EXCEPT !.streak = 0] ELSE u
    BY <1>0, <1>4 DEF ReduceTransition, ReduceWatch, Terminal
  <2>2. u \in CredentialRecord /\ u.status \in {"WATCH", "NORMAL"}
    BY <1>0, <1>4, StepDownFacts
  <2> HIDE DEF u
  <2>3. CASE t = MoveTo(s, "CONSTRAINED")
    <3>1. "CONSTRAINED" \in Status
      BY DEF Status
    <3>2. t.status = "CONSTRAINED" /\ t.below = 0
      BY <2>3, <3>1, MoveToUpdate
    <3> QED
      BY <1>4, <3>2
  <2>4. CASE t = IF u.status = "NORMAL" THEN [u EXCEPT !.streak = 0] ELSE u
    <3>1. t.status = u.status
      BY <2>2, <2>4 DEF CredentialRecord
    <3> QED
      BY <1>4, <2>2, <3>1
  <2> QED
    BY <2>1, <2>3, <2>4
<1>5. CASE s.status = "CONSTRAINED" /\ score < QuarantineThresh
  <2>1. t = StepDown(s, score, at, ConstrainedDownThresh, ConstrainedDwell, "WATCH")
    BY <1>0, <1>5 DEF ReduceTransition, ReduceConstrained, Terminal
  <2>2. "WATCH" # s.status
    BY <1>5
  <2> QED
    BY <1>0, <1>5, <2>1, <2>2, StepDownFacts
<1>6. score < QuarantineThresh \/ score >= QuarantineThresh
  BY ThresholdAssumption, ScopeAssumption
<1> QED
  BY <1>1, <1>2, <1>3, <1>4, <1>5, <1>6 DEF Terminal, Status, CredentialRecord

(* The timer of a CONSTRAINED record never started before the last unfit   *)
(* observation.                                                            *)
ConstrainedInv ==
    rec.status = "CONSTRAINED" /\ rec.below # 0 => rec.below >= hist.unfit - Skew

LEMMA ConstrainedStep ==
    ASSUME AutoQuarantine \subseteq {TRUE}, IInv, ConstrainedInv, [Next]_vars
    PROVE  /\ ConstrainedInv'
           /\ rec.status = "CONSTRAINED" /\ rec'.status = "WATCH"
                => now - hist.unfit >= ConstrainedDwell - Skew
<1>0. /\ rec \in CredentialRecord /\ rec.below \in Nat /\ hist.unfit \in Nat /\ now \in Nat
      /\ hist \in [unfit : Nat, run : 0..WatchObs, revoked : Nat]
      /\ Skew \in Nat /\ Skew' = Skew /\ ConstrainedDwell \in Nat
  BY ScopeAssumption, ThresholdAssumption DEF IInv, TypeOK, CredentialRecord, Skew
<1>1. CASE \E r \in Requests : ObserveAndCommit(r) \/ ObserveAnswerLost(r)
  <2>1. PICK r \in Requests, score \in Scores, auto \in AutoQuarantine :
           /\ req[r].pc = "authed" /\ now' = now
           /\ rec' = CommitObservation(score, ObservationTime(r), Ceiling(auto))
           /\ RecordHistory(score)
    BY <1>1 DEF ObserveAndCommit, ObserveAnswerLost
  <2> DEFINE at == ObservationTime(r)
             red == ReduceTransition(rec, score, at, "NORMAL")
  <2>2. at \in Nat /\ at <= now /\ at >= now - Skew
    <3>1. req[r].at \in Nat /\ req[r].at <= now /\ now - req[r].at <= MaxLatency
      BY <2>1 DEF IInv, TypeOK, RequestsInv, RequestOK
    <3> QED
      BY <1>0, <3>1, ScopeAssumption DEF ObservationTime, Skew
  <2>3. rec' = [red EXCEPT !.revision = IF red.status # rec.status THEN red.revision + 1 ELSE red.revision]
    BY <2>1 DEF CommitObservation, Ceiling
  <2> HIDE DEF at
  <2>4. red \in CredentialRecord
    BY <1>0, <2>2, ReducerFacts DEF Ceilings
  <2>5. /\ red.status = "CONSTRAINED" /\ red.below # 0
             => rec.status = "CONSTRAINED" /\ score < ConstrainedDownThresh /\ red.below \in {rec.below, at}
        /\ rec.status = "CONSTRAINED" /\ red.status = "WATCH"
             => rec.below # 0 /\ at - rec.below >= ConstrainedDwell
    BY <1>0, <2>2, ConstrainedReducer
  <2> HIDE DEF red
  <2>6. rec'.status = red.status /\ rec'.below = red.below
    BY <2>3, <2>4 DEF CredentialRecord
  <2>7. hist'.unfit = IF Unfit(rec.status, score) \/ rec'.status # rec.status THEN now ELSE hist.unfit
    BY <1>0, <2>1 DEF RecordHistory
  <2>8. score \in Int /\ ConstrainedDownThresh \in Int /\ hist.unfit <= now
    BY ThresholdAssumption, ScopeAssumption DEF IInv, DwellInv
  <2>9. ASSUME rec'.status = "CONSTRAINED", rec'.below # 0
        PROVE  rec'.below >= hist'.unfit - Skew
    <3>1. rec.status = "CONSTRAINED" /\ score < ConstrainedDownThresh /\ rec'.below \in {rec.below, at}
      BY <2>5, <2>6, <2>9
    <3>2. hist'.unfit = hist.unfit
      BY <2>7, <2>8, <2>9, <3>1 DEF Unfit
    <3>3. CASE rec'.below = rec.below
      BY <2>9, <3>1, <3>2, <3>3 DEF ConstrainedInv
    <3>4. CASE rec'.below = at
      BY <1>0, <2>2, <2>8, <3>2, <3>4
    <3> QED
      BY <3>1, <3>3, <3>4
  <2>10. ASSUME rec.status = "CONSTRAINED", rec'.status = "WATCH"
         PROVE  now - hist.unfit >= ConstrainedDwell - Skew
    <3>1. rec.below # 0 /\ at - rec.below >= ConstrainedDwell
      BY <2>5, <2>6, <2>10
    <3>2. rec.below >= hist.unfit - Skew
      BY <2>10, <3>1 DEF ConstrainedInv
    <3> QED
      BY <1>0, <2>2, <3>1, <3>2
  <2> QED
    BY <1>0, <2>9, <2>10 DEF ConstrainedInv
<1>2. CASE Revoke
  <2>1. rec'.status = "REVOKED"
    BY <1>0, <1>2 DEF Revoke, Revoked, CredentialRecord
  <2> QED
    BY <2>1 DEF ConstrainedInv
<1>3. CASE \E r \in Requests : MigrateVerifier(r)
  <2>1. hist' = hist /\ rec'.status = rec.status /\ rec'.below = rec.below
    BY <1>0, <1>3 DEF MigrateVerifier, RotateVerifier, CredentialRecord
  <2> QED
    BY <1>0, <2>1 DEF ConstrainedInv
<1>4. CASE Tick \/ UNCHANGED vars \/ \E r \in Requests :
             \/ Authenticate(r) \/ ObserveFails(r) \/ SkipObservation(r)
             \/ Reread(r) \/ Decide(r) \/ Finish(r)
  <2>1. rec' = rec /\ hist' = hist
    BY <1>4 DEF Tick, vars, Authenticate, ObserveFails, SkipObservation, Reread, Decide, Finish
  <2> QED
    BY <1>0, <2>1 DEF ConstrainedInv
<1> QED
  BY <1>1, <1>2, <1>3, <1>4 DEF Next

(* With automatic quarantine, ReduceTransition lowers CONSTRAINED to WATCH *)
(* only after a dwell without an unfit observation.  Under the quarantine  *)
(* ceiling a score that warrants quarantine leaves the timer running.      *)
THEOREM ConstrainedRecovery ==
    ASSUME AutoQuarantine \subseteq {TRUE}
    PROVE  Spec => ConstrainedRecoversAfterDwell
<1>1. Init => ConstrainedInv
  BY DEF Init, ConstrainedInv
<1>2. IInv /\ ConstrainedInv /\ [Next]_vars
        => /\ ConstrainedInv'
           /\ [rec.status = "CONSTRAINED" /\ rec'.status = "WATCH"
                 => now - hist.unfit >= ConstrainedDwell - Skew]_vars
  BY ConstrainedStep
<1> QED
  BY <1>1, <1>2, Invariance, PTL DEF Spec, ConstrainedRecoversAfterDwell

-----------------------------------------------------------------------------
(* Source identity.                                                        *)

Pseudonyms == Clients \X Generations

States == {"absent", "staged", "active", "superseded", "retired"}

AtRest == [pc |-> "idle"]

Underway ==
    [pc : {"resolved", "binding", "bound"}, node : Nodes, client : Clients, source : Clients,
     aliases : SUBSET Pseudonyms, active : Pseudonyms, identity : Pseudonyms]

IsTable(rows) ==
    DOMAIN rows \subseteq Pseudonyms /\ \A a \in DOMAIN rows : rows[a] \in [owner : Pseudonyms, seen : Nat]

SourceTypeOK ==
    /\ clock \in Nat /\ epoch \in Nat
    /\ catalog \in [Generations -> States]
    /\ ring \in [Nodes -> [loaded : SUBSET Generations, selected : Generations]]
    /\ IsTable(alias)
    /\ guard \in RequestIds \cup {Nobody}
    /\ refs \subseteq Pseudonyms /\ touch \subseteq Pseudonyms
    /\ request \in [RequestIds -> {AtRest} \cup Underway]

(* The authority has one active generation.                                *)
OneActive == \E g \in Generations : catalog[g] = "active" /\ \A h \in Generations : catalog[h] = "active" => h = g

(* What a ring derives, the authority knows; a ring has the generation it  *)
(* selects, and every one that has been active.                            *)
RingsLoaded ==
    \A n \in Nodes :
        /\ ring[n].selected \in ring[n].loaded
        /\ \A g \in ring[n].loaded : catalog[g] # "absent"
        /\ KeepSuperseded => Settled \subseteq ring[n].loaded

RowsKnown == \A a \in DOMAIN alias : catalog[a[2]] # "absent" /\ alias[a].owner[1] = a[1]

(* A request holds the pseudonyms of its source under every generation of  *)
(* its node's ring, however the ring has shrunk since it arrived.          *)
Derived(q) ==
    q.pc # "idle" =>
        /\ q.source = q.client
        /\ q.active \in q.aliases
        /\ \A a \in q.aliases : a[1] = q.source /\ catalog[a[2]] # "absent"
        /\ q.identity[1] = q.source
        /\ \A g \in ring[q.node].loaded : <<q.source, g>> \in q.aliases

RequestsDerived == \A r \in RequestIds : Derived(request[r])

SourceInv == SourceTypeOK /\ OneActive /\ RingsLoaded /\ RowsKnown /\ RequestsDerived

------------------------------------------------------------------------------
LEMMA PseudonymIs ==
    ASSUME NEW a \in Pseudonyms
    PROVE  a[1] \in Clients /\ a[2] \in Generations /\ a = <<a[1], a[2]>>
  BY DEF Pseudonyms

LEMMA ActiveIs ==
    ASSUME OneActive
    PROVE  Active \in Generations /\ catalog[Active] = "active" /\ \A h \in Generations : catalog[h] = "active" => h = Active
  BY DEF OneActive, Active

LEMMA MaxIs ==
    ASSUME NEW S, S \subseteq Int, NEW m \in S, \A y \in S : m >= y
    PROVE  Max(S) = m
<1>1. Max(S) \in S /\ \A y \in S : Max(S) >= y
  BY DEF Max
<1>2. Max(S) \in Int /\ m \in Int /\ Max(S) >= m /\ m >= Max(S)
  BY <1>1
<1> QED
  BY <1>2

(* The address of the last hop that is no trusted proxy is the client's,   *)
(* whatever the client put in front of it and the proxies behind it.       *)
LEMMA LastHop ==
    ASSUME NEW A, NEW forged \in Seq(A), NEW client \in A, client \notin Proxies, Proxies \subseteq A,
           NEW rest \in Seq(Proxies)
    PROVE  forged \o <<client>> \o rest # <<>> /\ LastUntrusted(forged \o <<client>> \o rest) = client
<1> DEFINE front == forged \o <<client>>
           hops == front \o rest
           m == Len(forged) + 1
<1>1. <<client>> \in Seq(A) /\ Len(<<client>>) = 1 /\ <<client>>[1] = client
  OBVIOUS
<1>2. Len(forged) \in Nat /\ Len(rest) \in Nat /\ DOMAIN rest = 1..Len(rest)
  BY LenProperties
<1>3. front \in Seq(A) /\ Len(front) = m /\ front[m] = client
  BY <1>1, <1>2, ConcatProperties
<1>4. rest \in Seq(A) /\ \A i \in 1..Len(rest) : rest[i] \in Proxies
  BY <1>2, SeqMonotonic, ElementOfSeq
<1> HIDE DEF front, m
<1>5. m \in Nat /\ m >= 1
  BY <1>2 DEF m
<1>6. /\ hops \in Seq(A) /\ Len(hops) = m + Len(rest)
      /\ \A i \in 1..(m + Len(rest)) : hops[i] = IF i <= m THEN front[i] ELSE rest[i - m]
  BY <1>3, <1>4, ConcatProperties
<1>7. DOMAIN hops = 1..(m + Len(rest))
  BY <1>6, LenProperties
<1> HIDE DEF hops
<1>8. hops # <<>> /\ hops[m] = client
  BY <1>2, <1>3, <1>5, <1>6
<1>9. \A i \in 1..(m + Len(rest)) : i > m => hops[i] \in Proxies
<2> SUFFICES ASSUME NEW i \in 1..(m + Len(rest)), i > m PROVE hops[i] \in Proxies
  OBVIOUS
<2>1. hops[i] = rest[i - m] /\ i - m \in 1..Len(rest)
  BY <1>2, <1>5, <1>6
<2> QED
  BY <1>4, <2>1
<1>10. m \in Untrusted(hops) /\ \A i \in Untrusted(hops) : i \in Int /\ m >= i
  BY <1>2, <1>5, <1>7, <1>8, <1>9 DEF Untrusted
<1>11. Max(Untrusted(hops)) = m
<2> DEFINE U == Untrusted(hops)
<2> HIDE DEF U
<2>1. m \in U /\ U \subseteq Int /\ \A y \in U : m >= y
  BY <1>10 DEF U
<2> QED
  BY <2>1, MaxIs DEF U
<1>12. LastUntrusted(hops) = client
  BY <1>8, <1>10, <1>11 DEF LastUntrusted
<1> QED
  BY <1>8, <1>12 DEF hops, front

LEMMA CanonicalIsClient ==
    ASSUME NEW client \in Clients, NEW forged \in Forged, NEW path \in Paths,
           CanonicalClientIP(Peer(client, path), Hops(client, forged, path)) # Refused
    PROVE  CanonicalClientIP(Peer(client, path), Hops(client, forged, path)) = client
<1> DEFINE peer == Peer(client, path)
           hops == Hops(client, forged, path)
<1>0. /\ path = <<>> => peer = client
      /\ path # <<>> => peer = path[Len(path)] /\ hops = forged \o <<client>> \o SubSeq(path, 1, Len(path) - 1)
  BY DEF Peer, Hops
<1> HIDE DEF peer, hops
<1> SUFFICES ASSUME CanonicalClientIP(peer, hops) # Refused PROVE CanonicalClientIP(peer, hops) = client
  BY DEF peer, hops
<1>1. client \notin Proxies /\ path \in Seq(Proxies)
  BY SourceAssumption
<1>2. CASE path = <<>>
  BY <1>0, <1>1, <1>2 DEF CanonicalClientIP
<1>3. CASE path # <<>>
<2>1. Len(path) \in Nat /\ Len(path) >= 1 /\ path[Len(path)] \in Proxies
<3>1. Len(path) \in Nat \ {0}
  BY <1>1, <1>3, EmptySeq
<3> QED
  BY <1>1, <3>1, ElementOfSeq
<2> DEFINE A == Range(forged) \cup {client} \cup Proxies
           rest == SubSeq(path, 1, Len(path) - 1)
<2>2. forged \in Seq(A)
  BY SourceAssumption, SeqMonotonic
<2>3. client \in A /\ Proxies \subseteq A
  OBVIOUS
<2>4. rest \in Seq(Proxies)
<3>1. \A i \in 1..(Len(path) - 1) : path[i] \in Proxies
  BY <1>1, <2>1, ElementOfSeq
<3> QED
  BY <1>1, <2>1, <3>1, SubSeqProperties
<2> HIDE DEF A, rest
<2>5. hops # <<>> /\ LastUntrusted(hops) = client
<3>1. hops = forged \o <<client>> \o rest
  BY <1>0, <1>3 DEF rest
<3>2. forged \o <<client>> \o rest # <<>> /\ LastUntrusted(forged \o <<client>> \o rest) = client
  BY <1>1, <2>2, <2>3, <2>4, LastHop
<3> QED
  BY <3>1, <3>2
<2>6. peer \in Proxies
  BY <1>0, <1>3, <2>1
<2> QED
  BY <2>5, <2>6 DEF CanonicalClientIP
<1> QED
  BY <1>2, <1>3

LEMMA LeastGeneration == Min(Generations) \in Generations
<1> DEFINE R == OpToRel(<, Nat)
<1>0. Generations \subseteq Nat /\ Generations # {}
  BY SourceAssumption
<1>1. IsWellFoundedOn(R, Nat)
  BY NatLessThanWellFounded, Zenon
<1>2. \A x, y \in Nat : <<y, x>> \notin R => x =< y
  BY DEF OpToRel
<1> HIDE DEF R
<1>3. PICK x \in Generations : \A y \in Generations : ~ (<<y, x>> \in R)
  BY <1>0, <1>1, WFMin
<1>4. \A y \in Generations : x =< y
  BY <1>0, <1>2, <1>3
<1> QED
  BY <1>4 DEF Min

LEMMA InitSource == SourceInit => SourceInv
<1> SUFFICES ASSUME SourceInit PROVE SourceInv
  OBVIOUS
<1>1. Min(Generations) \in Generations
  BY LeastGeneration
<1> DEFINE first == Min(Generations)
<1>2. /\ clock = 0 /\ epoch = 1 /\ alias = <<>> /\ guard = Nobody /\ refs = {} /\ touch = {}
      /\ catalog = [g \in Generations |-> IF g = first THEN "active" ELSE "absent"]
      /\ ring = [n \in Nodes |-> [loaded |-> {first}, selected |-> first]]
      /\ request = [r \in RequestIds |-> AtRest]
  BY DEF SourceInit, AtRest
<1> HIDE DEF first
<1>3. first \in Generations
  BY <1>1 DEF first
<1>4. DOMAIN alias = {}
  BY <1>2
<1>5. SourceTypeOK
<2>1. catalog \in [Generations -> States]
  BY <1>2 DEF States
<2>2. ring \in [Nodes -> [loaded : SUBSET Generations, selected : Generations]]
  BY <1>2, <1>3
<2>3. IsTable(alias)
  BY <1>4 DEF IsTable
<2>4. request \in [RequestIds -> {AtRest} \cup Underway]
  BY <1>2
<2> QED
  BY <1>2, <2>1, <2>2, <2>3, <2>4 DEF SourceTypeOK
<1>6. OneActive
  BY <1>2, <1>3 DEF OneActive
<1>7. RingsLoaded
  BY <1>2, <1>3 DEF RingsLoaded, Settled
<1>8. RowsKnown
  BY <1>4 DEF RowsKnown
<1>9. RequestsDerived
  BY <1>2 DEF RequestsDerived, Derived, AtRest
<1> QED
  BY <1>5, <1>6, <1>7, <1>8, <1>9 DEF SourceInv

------------------------------------------------------------------------------
(* What the operators of the model return.                                 *)

LEMMA RingIs ==
    ASSUME SourceTypeOK, RingsLoaded, NEW n \in Nodes
    PROVE  /\ ring[n].loaded \subseteq Generations /\ ring[n].selected \in ring[n].loaded
           /\ latest(n) = ring[n].selected
  BY DEF SourceTypeOK, RingsLoaded, latest

(* The candidates of a source are its pseudonyms under the loaded          *)
(* generations.                                                            *)
LEMMA CandidatesAre ==
    ASSUME SourceTypeOK, RingsLoaded, NEW n \in Nodes, NEW source \in Clients
    PROVE  /\ Candidates(n, source) \subseteq Pseudonyms
           /\ \A a \in Candidates(n, source) : a[1] = source /\ a[2] \in ring[n].loaded
           /\ Derive(n, source) \in Candidates(n, source)
           /\ \A g \in ring[n].loaded : <<source, g>> \in Candidates(n, source)
<1>1. ring[n].loaded \subseteq Generations /\ latest(n) \in ring[n].loaded
  BY RingIs
<1> DEFINE L == ring[n].loaded
<1> HIDE DEF L
<1>2. Derive(n, source) = <<source, latest(n)>> /\ DeriveAll(n, source) = {<<source, g>> : g \in L}
  BY DEF Derive, DeriveAll, L
<1>3. Candidates(n, source) = {<<source, g>> : g \in L}
  BY <1>1, <1>2 DEF Candidates, L
<1>4. L \subseteq Generations /\ latest(n) \in L
  BY <1>1 DEF L
<1>5. \A g \in L : <<source, g>> \in Pseudonyms
  BY <1>4 DEF Pseudonyms
<1> QED
  BY <1>2, <1>3, <1>4, <1>5 DEF L

(* Every owner of a set of pseudonyms of a source is a pseudonym of it.    *)
LEMMA OwnersAre ==
    ASSUME SourceTypeOK, RowsKnown, NEW S, NEW source, \A a \in S : a[1] = source, NEW c \in Owners(S)
    PROVE  c \in Pseudonyms /\ c[1] = source
  BY DEF Owners, SourceTypeOK, IsTable, RowsKnown

LEMMA ProvisionalIs ==
    ASSUME SourceTypeOK, RingsLoaded, RowsKnown, NEW n \in Nodes, NEW source \in Clients
    PROVE  Provisional(n, source) \in Pseudonyms /\ Provisional(n, source)[1] = source
<1> DEFINE known == Owners(Candidates(n, source))
<1>1. /\ Derive(n, source) \in Pseudonyms /\ Derive(n, source)[1] = source
      /\ \A a \in Candidates(n, source) : a[1] = source
  BY CandidatesAre
<1>2. \A c \in known : c \in Pseudonyms /\ c[1] = source
  BY <1>1, OwnersAre
<1> HIDE DEF known
<1>3. Provisional(n, source) = IF known = {} THEN Derive(n, source) ELSE CHOOSE c \in known : TRUE
  BY DEF Provisional, known
<1>4. known # {} => (CHOOSE c \in known : TRUE) \in known
  OBVIOUS
<1> QED
  BY <1>1, <1>2, <1>3, <1>4

(* A request that replaces another one.                                    *)
LEMMA SourceRequestStep ==
    ASSUME request \in [RequestIds -> {AtRest} \cup Underway], RequestsDerived,
           NEW r \in RequestIds, NEW q \in {AtRest} \cup Underway, Derived(q),
           request' = [request EXCEPT ![r] = q], UNCHANGED <<catalog, ring>>
    PROVE  request' \in [RequestIds -> {AtRest} \cup Underway] /\ RequestsDerived'
<1>1. request' \in [RequestIds -> {AtRest} \cup Underway]
  OBVIOUS
<1>2. \A x \in RequestIds : request'[x] = IF x = r THEN q ELSE request[x]
  OBVIOUS
<1>3. ASSUME NEW x \in RequestIds PROVE Derived(request'[x])
  BY <1>2 DEF RequestsDerived
<1> QED
  BY <1>1, <1>3 DEF RequestsDerived, Derived

LEMMA RestIs == AtRest.pc = "idle" /\ Derived(AtRest)
  BY DEF AtRest, Derived

LEMMA UnderwayIs ==
    ASSUME SourceInv, NEW r \in RequestIds, request[r].pc # "idle"
    PROVE  request[r] \in Underway /\ Derived(request[r])
  BY RestIs DEF SourceInv, SourceTypeOK, RequestsDerived
------------------------------------------------------------------------------
(* Every action keeps the invariant.                                       *)

LEMMA StepStart ==
    ASSUME SourceInv, NEW n \in Nodes, NEW loaded \in SUBSET Generations, Start(n, loaded)
    PROVE  SourceInv'
<1> DEFINE g0 == Active
<1>1. g0 \in Generations /\ catalog[g0] = "active" /\ \A h \in Generations : catalog[h] = "active" => h = g0
  BY ActiveIs DEF SourceInv
<1>2. /\ g0 \in loaded /\ \A g \in loaded : catalog[g] # "retired"
      /\ ring' = [ring EXCEPT ![n] = [loaded |-> loaded, selected |-> g0]]
      /\ catalog' = [g \in Generations |-> IF g \in loaded /\ catalog[g] = "absent" THEN "staged" ELSE catalog[g]]
      /\ guard' = IF guard # Nobody /\ request[guard].node = n THEN Nobody ELSE guard
      /\ request' = [r \in RequestIds |-> IF request[r].pc # "idle" /\ request[r].node = n THEN AtRest ELSE request[r]]
      /\ UNCHANGED <<clock, epoch, alias, refs, touch>>
      /\ KeepSuperseded => {g \in Generations : catalog[g] = "superseded"} \subseteq loaded
<2>1. SetActiveVersion(NewRing(loaded), Active) = [loaded |-> loaded, selected |-> Active]
  BY DEF SetActiveVersion, NewRing
<2> QED
  BY <2>1 DEF Start, AtRest, Configured
<1> HIDE DEF g0
<1> USE DEF SourceInv
<1>3. catalog \in [Generations -> States] /\ ring \in [Nodes -> [loaded : SUBSET Generations, selected : Generations]]
  BY DEF SourceTypeOK
<1>4. catalog' \in [Generations -> States]
  BY <1>2, <1>3 DEF States
<1>5. \A g \in Generations : (g \in loaded => catalog'[g] # "absent") /\ (catalog[g] # "absent" => catalog'[g] = catalog[g])
                             /\ (catalog'[g] \in {"superseded", "active", "retired"} => catalog[g] = catalog'[g])
  BY <1>2, <1>3
<1>6. ring' \in [Nodes -> [loaded : SUBSET Generations, selected : Generations]]
  BY <1>1, <1>2, <1>3
<1>7. \A m \in Nodes : ring'[m] = IF m = n THEN [loaded |-> loaded, selected |-> g0] ELSE ring[m]
  BY <1>2, <1>3
<1>8. request' \in [RequestIds -> {AtRest} \cup Underway]
  BY <1>2 DEF SourceTypeOK
<1>9. SourceTypeOK'
  BY <1>2, <1>4, <1>6, <1>8 DEF SourceTypeOK, IsTable
<1>10. OneActive'
  BY <1>1, <1>4, <1>5 DEF OneActive
<1>11. RingsLoaded'
<2>1. Settled' = Settled
  BY <1>5 DEF Settled
<2>2. KeepSuperseded => Settled \subseteq loaded
  BY <1>1, <1>2 DEF Settled
<2> SUFFICES ASSUME NEW m \in Nodes
             PROVE  /\ ring'[m].selected \in ring'[m].loaded
                    /\ \A g \in ring'[m].loaded : catalog'[g] # "absent"
                    /\ KeepSuperseded => Settled' \subseteq ring'[m].loaded
  BY DEF RingsLoaded
<2>3. CASE m = n
<3>1. ring'[m].loaded = loaded /\ ring'[m].selected = g0
  BY <1>7, <2>3
<3> QED
  BY <1>2, <1>5, <2>1, <2>2, <3>1
<2>4. CASE m # n
<3>1. ring'[m] = ring[m]
  BY <1>7, <2>4
<3> QED
  BY <1>3, <1>5, <2>1, <3>1 DEF RingsLoaded
<2> QED
  BY <2>3, <2>4
<1>12. RowsKnown'
<2>1. \A a \in DOMAIN alias : a[2] \in Generations
  BY PseudonymIs DEF SourceTypeOK, IsTable
<2> QED
  BY <1>2, <1>5, <2>1 DEF RowsKnown
<1>13. RequestsDerived'
<2> SUFFICES ASSUME NEW r \in RequestIds, request'[r].pc # "idle"
             PROVE  Derived(request[r])' 
  BY DEF RequestsDerived, Derived
<2>1. request'[r] = request[r] /\ request[r].pc # "idle" /\ request[r].node # n
  BY <1>2, RestIs
<2>2. request[r] \in Underway /\ Derived(request[r])
  BY <2>1, UnderwayIs
<2>3. ring'[request[r].node] = ring[request[r].node]
  BY <1>7, <2>1, <2>2 DEF Underway
<2>4. \A a \in request[r].aliases : a[2] \in Generations
  BY <2>2, PseudonymIs DEF Underway
<2> QED
  BY <1>5, <2>1, <2>2, <2>3, <2>4 DEF Derived
<1> QED
  BY <1>9, <1>10, <1>11, <1>12, <1>13

(* A change of the authority's states that neither forgets a generation    *)
(* nor makes one count as settled that some node has not loaded.           *)
LEMMA CatalogStep ==
    ASSUME SourceInv, catalog' \in [Generations -> States], OneActive',
           \A g \in Generations : catalog[g] # "absent" => catalog'[g] # "absent",
           \A n \in Nodes : KeepSuperseded => Settled' \subseteq ring[n].loaded,
           epoch' \in Nat, UNCHANGED <<clock, ring, alias, guard, refs, touch, request>>
    PROVE  SourceInv'
<1> USE DEF SourceInv
<1>1. SourceTypeOK'
  BY DEF SourceTypeOK, IsTable
<1>2. RingsLoaded'
  BY DEF RingsLoaded, SourceTypeOK
<1>3. RowsKnown'
<2>1. \A a \in DOMAIN alias : a[2] \in Generations
  BY PseudonymIs DEF SourceTypeOK, IsTable
<2> QED
  BY <2>1 DEF RowsKnown
<1>4. RequestsDerived'
<2> SUFFICES ASSUME NEW r \in RequestIds, request[r].pc # "idle"
             PROVE  Derived(request[r])' 
  BY DEF RequestsDerived, Derived
<2>2. request[r] \in Underway /\ Derived(request[r])
  BY UnderwayIs
<2>4. \A a \in request[r].aliases : a[2] \in Generations
  BY <2>2, PseudonymIs DEF Underway
<2> QED
  BY <2>2, <2>4 DEF Derived
<1> QED
  BY <1>1, <1>2, <1>3, <1>4

LEMMA StepActivate ==
    ASSUME SourceInv, NEW g \in Generations, Activate(g)
    PROVE  SourceInv'
<1> DEFINE g0 == Active
<1>1. g0 \in Generations /\ catalog[g0] = "active" /\ \A h \in Generations : catalog[h] = "active" => h = g0
  BY ActiveIs DEF SourceInv
<1>2. /\ catalog[g] \in {"staged", "superseded"} /\ \A n \in Nodes : g \in ring[n].loaded
      /\ catalog' = [catalog EXCEPT ![g0] = "superseded", ![g] = "active"]
      /\ epoch' = epoch + 1
      /\ UNCHANGED <<clock, ring, alias, guard, refs, touch, request>>
  BY DEF Activate, Barrier
<1> HIDE DEF g0
<1>3. catalog \in [Generations -> States] /\ epoch' \in Nat
  BY <1>2 DEF SourceInv, SourceTypeOK
<1>4. g # g0
  BY <1>1, <1>2
<1>5. \A h \in Generations : catalog'[h] = IF h = g THEN "active" ELSE IF h = g0 THEN "superseded" ELSE catalog[h]
  BY <1>1, <1>2, <1>3
<1>6. catalog' \in [Generations -> States]
  BY <1>2, <1>3 DEF States
<1>7. OneActive'
  BY <1>1, <1>4, <1>5 DEF OneActive
<1>8. Settled' = Settled \cup {g}
  BY <1>1, <1>5 DEF Settled
<1>9. \A n \in Nodes : KeepSuperseded => Settled' \subseteq ring[n].loaded
  BY <1>2, <1>8 DEF SourceInv, RingsLoaded
<1>10. \A h \in Generations : catalog[h] # "absent" => catalog'[h] # "absent"
  BY <1>5
<1> QED
  BY <1>2, <1>3, <1>6, <1>7, <1>9, <1>10, CatalogStep

LEMMA StepRetire ==
    ASSUME SourceInv, NEW g \in Generations, Retire(g)
    PROVE  SourceInv'
<1>2. /\ catalog[g] \in {"staged", "superseded"}
      /\ catalog' = [catalog EXCEPT ![g] = "retired"]
      /\ epoch' = epoch + 1
      /\ UNCHANGED <<clock, ring, alias, guard, refs, touch, request>>
  BY DEF Retire
<1>3. catalog \in [Generations -> States] /\ epoch' \in Nat
  BY <1>2 DEF SourceInv, SourceTypeOK
<1>5. \A h \in Generations : catalog'[h] = IF h = g THEN "retired" ELSE catalog[h]
  BY <1>2, <1>3
<1>6. catalog' \in [Generations -> States]
  BY <1>2, <1>3 DEF States
<1>7. OneActive'
  BY <1>2, <1>5 DEF OneActive, SourceInv
<1>8. Settled' \subseteq Settled
  BY <1>5 DEF Settled
<1>9. \A n \in Nodes : KeepSuperseded => Settled' \subseteq ring[n].loaded
  BY <1>8 DEF SourceInv, RingsLoaded
<1>10. \A h \in Generations : catalog[h] # "absent" => catalog'[h] # "absent"
  BY <1>5
<1> QED
  BY <1>2, <1>3, <1>6, <1>7, <1>9, <1>10, CatalogStep

(* A node whose ring keeps what it must.                                   *)
LEMMA RingStep ==
    ASSUME SourceInv, NEW n \in Nodes, NEW rng \in [loaded : SUBSET Generations, selected : Generations],
           rng.loaded \subseteq ring[n].loaded, rng.selected \in rng.loaded,
           KeepSuperseded => Settled \subseteq rng.loaded,
           ring' = [ring EXCEPT ![n] = rng],
           UNCHANGED <<clock, catalog, epoch, alias, guard, refs, touch, request>>
    PROVE  SourceInv'
<1> USE DEF SourceInv
<1>1. ring' \in [Nodes -> [loaded : SUBSET Generations, selected : Generations]]
  BY DEF SourceTypeOK
<1>2. \A m \in Nodes : ring'[m] = IF m = n THEN rng ELSE ring[m]
  BY DEF SourceTypeOK
<1>3. SourceTypeOK'
  BY <1>1 DEF SourceTypeOK, IsTable
<1>4. RingsLoaded'
  BY <1>2 DEF RingsLoaded, Settled
<1>5. RowsKnown' /\ OneActive'
  BY DEF RowsKnown, OneActive
<1>6. RequestsDerived'
<2> SUFFICES ASSUME NEW r \in RequestIds, request[r].pc # "idle"
             PROVE  Derived(request[r])' 
  BY DEF RequestsDerived, Derived
<2>2. request[r] \in Underway /\ Derived(request[r]) /\ request[r].node \in Nodes
  BY UnderwayIs DEF Underway
<2>3. ring'[request[r].node].loaded \subseteq ring[request[r].node].loaded
  BY <1>2, <2>2
<2> QED
  BY <2>2, <2>3 DEF Derived
<1> QED
  BY <1>3, <1>4, <1>5, <1>6

LEMMA StepDropRetired ==
    ASSUME SourceInv, NEW n \in Nodes, NEW g \in Generations, DropRetired(n, g)
    PROVE  SourceInv'
<1> DEFINE rng == [ring[n] EXCEPT !.loaded = @ \ {g}]
<1>1. /\ g \in ring[n].loaded /\ catalog[g] = "retired" /\ g # latest(n)
      /\ ring' = [ring EXCEPT ![n] = rng]
      /\ UNCHANGED <<clock, catalog, epoch, alias, guard, refs, touch, request>>
  BY DEF DropRetired, RetireVersion
<1>2. ring[n] \in [loaded : SUBSET Generations, selected : Generations]
  BY DEF SourceInv, SourceTypeOK
<1>3. rng.loaded = ring[n].loaded \ {g} /\ rng.selected = ring[n].selected /\ rng \in [loaded : SUBSET Generations, selected : Generations]
  BY <1>2
<1>4. ring[n].selected \in ring[n].loaded /\ ring[n].selected # g
  BY <1>1, RingIs DEF SourceInv
<1>5. KeepSuperseded => Settled \subseteq rng.loaded
  BY <1>1, <1>3 DEF SourceInv, RingsLoaded, Settled
<1> HIDE DEF rng
<1> QED
  BY <1>1, <1>3, <1>4, <1>5, RingStep

LEMMA StepSelectActive ==
    ASSUME SourceInv, NEW n \in Nodes, SelectActive(n)
    PROVE  SourceInv'
<1> DEFINE rng == [ring[n] EXCEPT !.selected = Active]
<1>1. /\ Active \in ring[n].loaded
      /\ ring' = [ring EXCEPT ![n] = rng]
      /\ UNCHANGED <<clock, catalog, epoch, alias, guard, refs, touch, request>>
  BY DEF SelectActive, SetActiveVersion
<1>2. ring[n] \in [loaded : SUBSET Generations, selected : Generations] /\ Active \in Generations
  BY ActiveIs DEF SourceInv, SourceTypeOK
<1>3. rng.loaded = ring[n].loaded /\ rng.selected = Active /\ rng \in [loaded : SUBSET Generations, selected : Generations]
  BY <1>2
<1>5. KeepSuperseded => Settled \subseteq rng.loaded
  BY <1>1, <1>3 DEF SourceInv, RingsLoaded
<1> HIDE DEF rng
<1> QED
  BY <1>1, <1>3, <1>5, RingStep
LEMMA StepArrive ==
    ASSUME SourceInv, NEW r \in RequestIds, NEW n \in Nodes, NEW client \in Clients, NEW forged \in Forged,
           NEW path \in Paths, Arrive(r, n, client, forged, path)
    PROVE  SourceInv'
<1> DEFINE source == CanonicalClientIP(Peer(client, path), Hops(client, forged, path))
           q == Resolution(n, client, client)
<1>1. /\ source # Refused
      /\ request' = [request EXCEPT ![r] = Resolution(n, client, source)]
      /\ UNCHANGED <<clock, catalog, epoch, ring, alias, guard, refs, touch>>
  BY DEF Arrive
<1>2. source = client
  BY <1>1, CanonicalIsClient
<1>3. request' = [request EXCEPT ![r] = q]
  BY <1>1, <1>2
<1> HIDE DEF source
<1>4. /\ Candidates(n, client) \subseteq Pseudonyms
      /\ \A a \in Candidates(n, client) : a[1] = client /\ a[2] \in ring[n].loaded
      /\ Derive(n, client) \in Candidates(n, client)
      /\ \A g \in ring[n].loaded : <<client, g>> \in Candidates(n, client)
  BY CandidatesAre DEF SourceInv
<1>5. Provisional(n, client) \in Pseudonyms /\ Provisional(n, client)[1] = client
  BY ProvisionalIs DEF SourceInv
<1>6. /\ q.pc = "resolved" /\ q.node = n /\ q.client = client /\ q.source = client
      /\ q.aliases = Candidates(n, client) /\ q.active = Derive(n, client) /\ q.identity = Provisional(n, client)
  BY DEF Resolution
<1>7. q \in Underway
  BY <1>4, <1>5 DEF Underway, Resolution
<1>8. \A g \in ring[n].loaded : catalog[g] # "absent"
  BY DEF SourceInv, RingsLoaded
<1> HIDE DEF q
<1>9. Derived(q)
  BY <1>4, <1>5, <1>6, <1>8 DEF Derived
<1>10. request' \in [RequestIds -> {AtRest} \cup Underway] /\ RequestsDerived'
  BY <1>1, <1>3, <1>7, <1>9, SourceRequestStep DEF SourceInv, SourceTypeOK
<1> QED
  BY <1>1, <1>10 DEF SourceInv, SourceTypeOK, IsTable, OneActive, RingsLoaded, Settled, RowsKnown

(* A step of a request that leaves the authority and the aliases alone.    *)
LEMMA QuietStep ==
    ASSUME SourceInv, NEW r \in RequestIds, NEW q \in {AtRest} \cup Underway, Derived(q),
           request' = [request EXCEPT ![r] = q], guard' \in RequestIds \cup {Nobody}, refs' \subseteq Pseudonyms,
           UNCHANGED <<clock, catalog, epoch, ring, alias, touch>>
    PROVE  SourceInv'
<1>1. request' \in [RequestIds -> {AtRest} \cup Underway] /\ RequestsDerived'
  BY SourceRequestStep DEF SourceInv, SourceTypeOK
<1> QED
  BY <1>1 DEF SourceInv, SourceTypeOK, IsTable, OneActive, RingsLoaded, Settled, RowsKnown

LEMMA StepRejectCredential ==
    ASSUME SourceInv, NEW r \in RequestIds, RejectCredential(r)
    PROVE  SourceInv'
<1>1. /\ request[r].pc # "idle" /\ refs' \in {refs, refs \cup {request[r].identity}}
      /\ request' = [request EXCEPT ![r] = AtRest]
      /\ UNCHANGED <<clock, catalog, epoch, ring, alias, guard, touch>>
  BY DEF RejectCredential, AtRest
<1>2. request[r].identity \in Pseudonyms
  BY <1>1, UnderwayIs DEF Underway
<1>3. refs' \subseteq Pseudonyms /\ guard' \in RequestIds \cup {Nobody}
  BY <1>1, <1>2 DEF SourceInv, SourceTypeOK
<1> QED
  BY <1>1, <1>3, RestIs, QuietStep

LEMMA StepFinishRequest ==
    ASSUME SourceInv, NEW r \in RequestIds, FinishRequest(r)
    PROVE  SourceInv'
<1>1. /\ request[r].pc # "idle" /\ refs' \in {refs, refs \cup {request[r].identity}}
      /\ request' = [request EXCEPT ![r] = AtRest]
      /\ UNCHANGED <<clock, catalog, epoch, ring, alias, guard, touch>>
  BY DEF FinishRequest, AtRest
<1>2. request[r].identity \in Pseudonyms
  BY <1>1, UnderwayIs DEF Underway
<1>3. refs' \subseteq Pseudonyms /\ guard' \in RequestIds \cup {Nobody}
  BY <1>1, <1>2 DEF SourceInv, SourceTypeOK
<1> QED
  BY <1>1, <1>3, RestIs, QuietStep

LEMMA StepBeginBind ==
    ASSUME SourceInv, NEW r \in RequestIds, BeginBind(r)
    PROVE  SourceInv'
<1>1. /\ request[r].pc # "idle"
      /\ UNCHANGED <<clock, catalog, epoch, ring, alias, refs, touch>>
      /\ \/ guard' = r /\ request' = [request EXCEPT ![r].pc = "binding"]
         \/ guard' = guard /\ request' = [request EXCEPT ![r] = AtRest]
  BY DEF BeginBind, AtRest
<1>2. refs' \subseteq Pseudonyms /\ guard' \in RequestIds \cup {Nobody}
  BY <1>1 DEF SourceInv, SourceTypeOK
<1>3. CASE request' = [request EXCEPT ![r] = AtRest]
  BY <1>1, <1>2, <1>3, RestIs, QuietStep
<1>4. CASE request' = [request EXCEPT ![r].pc = "binding"]
<2> DEFINE q == [request[r] EXCEPT !.pc = "binding"]
<2>1. request[r] \in Underway /\ Derived(request[r])
  BY <1>1, UnderwayIs
<2>2. q \in Underway /\ q.node = request[r].node /\ q.client = request[r].client /\ q.source = request[r].source
      /\ q.aliases = request[r].aliases /\ q.active = request[r].active /\ q.identity = request[r].identity
  BY <2>1 DEF Underway
<2>3. request' = [request EXCEPT ![r] = q]
  BY <1>4
<2> HIDE DEF q
<2>4. Derived(q)
  BY <1>1, <2>1, <2>2 DEF Derived
<2> QED
  BY <1>1, <1>2, <2>2, <2>3, <2>4, QuietStep
<1> QED
  BY <1>1, <1>3, <1>4

------------------------------------------------------------------------------
(* Rows that are rows of the table still, under the same owners.           *)
Part(rows) ==
    /\ DOMAIN rows \subseteq DOMAIN alias
    /\ \A a \in DOMAIN rows : rows[a].owner = alias[a].owner /\ rows[a] \in [owner : Pseudonyms, seen : Nat]

(* Reclamation removes only identities nobody refers to.                   *)
LEMMA RoomIs ==
    ASSUME SourceInv, NEW rows \in Room
    PROVE  Part(rows) /\ \A a \in DOMAIN alias : alias[a].owner \in refs => a \in DOMAIN rows
<1>1. PICK S \in SUBSET Reclaimable : rows = Without(S)
  BY DEF Room, kSubset
<1>2. \A c \in S : c \notin refs
  BY <1>1 DEF Reclaimable
<1> DEFINE D == {a \in DOMAIN alias : alias[a].owner \notin S}
<1>3. rows = [a \in D |-> alias[a]]
  BY <1>1 DEF Without, Restrict
<1>4. DOMAIN rows = D /\ \A a \in D : rows[a] = alias[a]
  BY <1>3
<1> QED
  BY <1>2, <1>4 DEF Part, SourceInv, SourceTypeOK, IsTable

(* The owners of a request's aliases are finitely many.                    *)
LEMMA OwnersFinite ==
    ASSUME NEW source, NEW aliases \in SUBSET Pseudonyms, \A a \in aliases : a[1] = source
    PROVE  IsFiniteSet(Owners(aliases))
<1> DEFINE f == [g \in Generations |-> <<source, g>>]
           D == aliases \cap DOMAIN alias
           h == [a \in D |-> alias[a].owner]
<1>1. IsFiniteSet(Generations)
  BY SourceAssumption
<1>2. IsFiniteSet({f[g] : g \in Generations})
<2> DEFINE T == {f[g] : g \in Generations}
<2>1. f \in Surjection(Generations, T)
  BY DEF Surjection
<2> HIDE DEF f, T
<2>2. IsFiniteSet(T)
  BY <1>1, <2>1, FS_Surjection
<2> QED
  BY <2>2 DEF T
<1>3. aliases \subseteq {f[g] : g \in Generations}
  BY PseudonymIs
<1>4. IsFiniteSet(D)
  BY <1>2, <1>3, FS_Subset
<1>5. IsFiniteSet({h[a] : a \in D})
<2> DEFINE T == {h[a] : a \in D}
<2>1. h \in Surjection(D, T)
  BY DEF Surjection
<2> HIDE DEF h, D, T
<2>2. IsFiniteSet(T)
  BY <1>4, <2>1, FS_Surjection
<2> QED
  BY <2>2 DEF T
<1>6. Owners(aliases) = {h[a] : a \in D}
  BY DEF Owners
<1> QED
  BY <1>5, <1>6

(* Binding fails, or inserts the missing aliases under the one owner the   *)
(* others have; what else it removes is referred to by nobody.             *)
LEMMA BindIs ==
    ASSUME SourceInv, NEW r \in RequestIds, Bind(r)
    PROVE  /\ request[r] \in Underway /\ Derived(request[r])
           /\ guard' = Nobody /\ UNCHANGED <<clock, catalog, epoch, ring, refs>>
           /\ \/ Failed(r)
              \/ \E rows, owner :
                    /\ Part(rows) /\ \A a \in DOMAIN alias : alias[a].owner \in refs => a \in DOMAIN rows
                    /\ owner \in Pseudonyms /\ owner[1] = request[r].source
                    /\ \A a \in request[r].aliases \cap DOMAIN alias : alias[a].owner = owner
                    /\ DOMAIN alias' = DOMAIN rows \cup request[r].aliases
                    /\ \A a \in DOMAIN rows : alias'[a] = rows[a]
                    /\ \A a \in request[r].aliases \ DOMAIN rows : alias'[a] = [owner |-> owner, seen |-> clock]
                    /\ touch' \in Touched(request[r].aliases)
                    /\ BindAuthenticatedSource(r, owner)
<1> DEFINE found == Owners(request[r].aliases)
           owner == IF found = {} THEN request[r].active ELSE CHOOSE c \in found : TRUE
<1>1. /\ request[r].pc # "idle" /\ guard' = Nobody /\ UNCHANGED <<clock, catalog, epoch, ring, refs>>
      /\ \E rows \in IF found = {} THEN Room ELSE {alias} :
            \/ Failed(r)
            \/ /\ ~ (Cardinality(found) > 1)
               /\ alias' = Insert(rows, request[r].aliases, owner)
               /\ touch' \in Touched(request[r].aliases)
               /\ BindAuthenticatedSource(r, owner)
  BY DEF Bind, Register
<1>2. PICK rows \in IF found = {} THEN Room ELSE {alias} :
            \/ Failed(r)
            \/ /\ ~ (Cardinality(found) > 1)
               /\ alias' = Insert(rows, request[r].aliases, owner)
               /\ touch' \in Touched(request[r].aliases)
               /\ BindAuthenticatedSource(r, owner)
  BY <1>1
<1>3. request[r] \in Underway /\ Derived(request[r])
  BY <1>1, UnderwayIs
<1>4. /\ request[r].aliases \in SUBSET Pseudonyms /\ request[r].active \in request[r].aliases
      /\ \A a \in request[r].aliases : a[1] = request[r].source
  BY <1>1, <1>3 DEF Underway, Derived
<1>5. \A c \in found : c \in Pseudonyms /\ c[1] = request[r].source
  BY <1>4, OwnersAre DEF SourceInv
<1>6. IsFiniteSet(found)
  BY <1>4, OwnersFinite
<1>7. \A a \in request[r].aliases \cap DOMAIN alias : alias[a].owner \in found
  BY DEF Owners
<1> HIDE DEF found
<1>8. found # {} => owner \in found
  OBVIOUS
<1>9. owner \in Pseudonyms /\ owner[1] = request[r].source
  BY <1>4, <1>5, <1>8
<1>10. Part(rows) /\ \A a \in DOMAIN alias : alias[a].owner \in refs => a \in DOMAIN rows
<2>1. CASE found = {}
  BY <1>2, <2>1, RoomIs
<2>2. CASE found # {}
<3>1. rows = alias
  BY <1>2, <2>2
<3> QED
  BY <3>1 DEF Part, SourceInv, SourceTypeOK, IsTable
<2> QED
  BY <2>1, <2>2
<1>11. CASE Failed(r)
  BY <1>1, <1>3, <1>11
<1>12. CASE ~ Failed(r)
<2>1. Cardinality(found) \in Nat /\ Cardinality(found) <= 1
  BY <1>2, <1>6, <1>12, FS_CardinalityType
<2>2. \A c \in found : c = owner
<3> SUFFICES ASSUME NEW c \in found, c # owner PROVE FALSE
  OBVIOUS
<3>1. owner \in found
  BY <1>8
<3> HIDE DEF owner
<3>2. IsFiniteSet({c, owner}) /\ Cardinality({c, owner}) = 2
<4>1. IsFiniteSet({owner}) /\ Cardinality({owner}) = 1
  BY FS_Singleton
<4>2. Cardinality({owner} \cup {c}) = Cardinality({owner}) + 1 /\ IsFiniteSet({owner} \cup {c})
  BY <4>1, FS_AddElement
<4>3. {c, owner} = {owner} \cup {c}
  OBVIOUS
<4> QED
  BY <4>1, <4>2, <4>3
<3>3. {c, owner} \subseteq found
  BY <3>1
<3>4. Cardinality({c, owner}) <= Cardinality(found)
  BY <1>6, <3>3, FS_Subset
<3> QED
  BY <2>1, <3>2, <3>4
<2>3. \A a \in request[r].aliases \cap DOMAIN alias : alias[a].owner = owner
  BY <1>7, <2>2
<2> HIDE DEF owner
<2>4. /\ alias' = Insert(rows, request[r].aliases, owner)
      /\ touch' \in Touched(request[r].aliases) /\ BindAuthenticatedSource(r, owner)
  BY <1>2, <1>12
<2> DEFINE S == request[r].aliases
<2>5. alias' = Insert(rows, S, owner)
  BY <2>4
<2> HIDE DEF S
<2>6. /\ DOMAIN alias' = DOMAIN rows \cup S
      /\ \A a \in DOMAIN rows : alias'[a] = rows[a]
      /\ \A a \in S \ DOMAIN rows : alias'[a] = [owner |-> owner, seen |-> clock]
<3> DEFINE D == DOMAIN rows \cup S
<3> HIDE DEF D
<3>1. alias' = [a \in D |-> IF a \in DOMAIN rows THEN rows[a] ELSE [owner |-> owner, seen |-> clock]]
  BY <2>5 DEF Insert, D
<3>2. DOMAIN alias' = D
  BY <3>1
<3>3. \A a \in D : alias'[a] = IF a \in DOMAIN rows THEN rows[a] ELSE [owner |-> owner, seen |-> clock]
  BY <3>1
<3> QED
  BY <3>2, <3>3 DEF D
<2> QED
  BY <1>1, <1>3, <1>9, <1>10, <2>3, <2>4, <2>6 DEF S
<1> QED
  BY <1>11, <1>12
(* A step of the aliases.                                                  *)
LEMMA AliasStep ==
    ASSUME SourceInv, UNCHANGED <<clock, catalog, epoch, ring, refs>>,
           IsTable(alias'), \A a \in DOMAIN alias' : catalog[a[2]] # "absent" /\ alias'[a].owner[1] = a[1],
           guard' \in RequestIds \cup {Nobody}, touch' \subseteq Pseudonyms,
           request' \in [RequestIds -> {AtRest} \cup Underway], RequestsDerived'
    PROVE  SourceInv'
  BY DEF SourceInv, SourceTypeOK, IsTable, OneActive, RingsLoaded, Settled, RowsKnown

LEMMA PartIs ==
    ASSUME SourceInv, NEW rows, Part(rows)
    PROVE  IsTable(rows) /\ \A a \in DOMAIN rows : catalog[a[2]] # "absent" /\ rows[a].owner[1] = a[1]
  BY DEF SourceInv, SourceTypeOK, IsTable, Part, RowsKnown

LEMMA StepBind ==
    ASSUME SourceInv, NEW r \in RequestIds, Bind(r)
    PROVE  SourceInv'
<1>1. /\ request[r] \in Underway /\ Derived(request[r])
      /\ guard' = Nobody /\ UNCHANGED <<clock, catalog, epoch, ring, refs>>
  BY BindIs
<1>2. guard' \in RequestIds \cup {Nobody}
  BY <1>1
<1>3. request \in [RequestIds -> {AtRest} \cup Underway] /\ RequestsDerived
  BY DEF SourceInv, SourceTypeOK
<1>4. CASE Failed(r)
<2>1. request' = [request EXCEPT ![r] = AtRest] /\ UNCHANGED <<alias, touch>>
  BY <1>4 DEF Failed, AtRest
<2>2. refs' \subseteq Pseudonyms
  BY <1>1 DEF SourceInv, SourceTypeOK
<2> QED
  BY <1>1, <1>2, <2>1, <2>2, RestIs, QuietStep
<1>5. CASE ~ Failed(r)
<2>1. PICK rows, owner :
                    /\ Part(rows) /\ \A a \in DOMAIN alias : alias[a].owner \in refs => a \in DOMAIN rows
                    /\ owner \in Pseudonyms /\ owner[1] = request[r].source
                    /\ \A a \in request[r].aliases \cap DOMAIN alias : alias[a].owner = owner
                    /\ DOMAIN alias' = DOMAIN rows \cup request[r].aliases
                    /\ \A a \in DOMAIN rows : alias'[a] = rows[a]
                    /\ \A a \in request[r].aliases \ DOMAIN rows : alias'[a] = [owner |-> owner, seen |-> clock]
                    /\ touch' \in Touched(request[r].aliases)
                    /\ BindAuthenticatedSource(r, owner)
  BY <1>5, BindIs
<2> DEFINE S == request[r].aliases
           q == [request[r] EXCEPT !.pc = "bound", !.identity = owner]
<2>2. S \subseteq Pseudonyms /\ request[r].pc # "idle" /\ \A a \in S : a[1] = request[r].source /\ catalog[a[2]] # "absent"
  BY <1>1 DEF Underway, Derived
<2>3. IsTable(rows) /\ \A a \in DOMAIN rows : catalog[a[2]] # "absent" /\ rows[a].owner[1] = a[1]
  BY <2>1, PartIs
<2>4. clock \in Nat
  BY DEF SourceInv, SourceTypeOK
<2>5. q \in Underway /\ q.node = request[r].node /\ q.client = request[r].client /\ q.source = request[r].source
      /\ q.aliases = request[r].aliases /\ q.active = request[r].active /\ q.identity = owner
  BY <1>1, <2>1 DEF Underway
<2>6. request' = [request EXCEPT ![r] = q]
  BY <2>1 DEF BindAuthenticatedSource
<2> HIDE DEF q
<2>7. Derived(q)
  BY <1>1, <2>1, <2>2, <2>5 DEF Derived
<2>8. request' \in [RequestIds -> {AtRest} \cup Underway] /\ RequestsDerived'
  BY <1>1, <1>3, <2>5, <2>6, <2>7, SourceRequestStep
<2>9. touch' \subseteq Pseudonyms
<3>1. touch \subseteq Pseudonyms
  BY DEF SourceInv, SourceTypeOK
<3>2. ClaimTouch(S) \subseteq S
  BY DEF ClaimTouch
<3> QED
  BY <2>1, <2>2, <3>1, <3>2 DEF Touched
<2>10. IsTable(alias') /\ \A a \in DOMAIN alias' : catalog[a[2]] # "absent" /\ alias'[a].owner[1] = a[1]
<3> HIDE DEF S
<3>2. /\ DOMAIN alias' = DOMAIN rows \cup S
      /\ \A a \in DOMAIN rows : alias'[a] = rows[a]
      /\ \A a \in S \ DOMAIN rows : alias'[a] = [owner |-> owner, seen |-> clock]
  BY <2>1 DEF S
<3>3. [owner |-> owner, seen |-> clock] \in [owner : Pseudonyms, seen : Nat]
  BY <2>1, <2>4
<3>4. ASSUME NEW a \in DOMAIN alias'
      PROVE  /\ a \in Pseudonyms /\ alias'[a] \in [owner : Pseudonyms, seen : Nat]
             /\ catalog[a[2]] # "absent" /\ alias'[a].owner[1] = a[1]
<4>1. CASE a \in DOMAIN rows
  BY <2>3, <3>2, <4>1 DEF IsTable
<4>2. CASE a \notin DOMAIN rows
<5>1. a \in S /\ alias'[a] = [owner |-> owner, seen |-> clock]
  BY <3>2, <4>2
<5>2. alias'[a].owner = owner
  BY <5>1
<5> QED
  BY <2>1, <2>2, <3>3, <5>1, <5>2
<4> QED
  BY <4>1, <4>2
<3> QED
  BY <3>4 DEF IsTable
<2> QED
  BY <1>1, <1>2, <2>8, <2>9, <2>10, AliasStep
<1> QED
  BY <1>4, <1>5

LEMMA FlushIs ==
    ASSUME SourceInv, FlushTouches
    PROVE  /\ Part(alias') /\ DOMAIN alias' = DOMAIN alias /\ touch' = {}
           /\ UNCHANGED <<clock, catalog, epoch, ring, guard, refs, request>>
<1>1. /\ touch' = {} /\ UNCHANGED <<clock, catalog, epoch, ring, guard, refs, request>>
      /\ \/ alias' = alias
         \/ alias' = [a \in DOMAIN alias |-> IF a \in touch THEN [alias[a] EXCEPT !.seen = clock] ELSE alias[a]]
  BY DEF FlushTouches
<1>2. clock \in Nat /\ \A a \in DOMAIN alias : alias[a] \in [owner : Pseudonyms, seen : Nat]
  BY DEF SourceInv, SourceTypeOK, IsTable
<1>3. CASE alias' = alias
  BY <1>1, <1>2, <1>3 DEF Part
<1>4. CASE alias' = [a \in DOMAIN alias |-> IF a \in touch THEN [alias[a] EXCEPT !.seen = clock] ELSE alias[a]]
<2>1. DOMAIN alias' = DOMAIN alias
  BY <1>4
<2>2. ASSUME NEW a \in DOMAIN alias
      PROVE  alias'[a].owner = alias[a].owner /\ alias'[a] \in [owner : Pseudonyms, seen : Nat]
  BY <1>2, <1>4
<2> QED
  BY <1>1, <2>1, <2>2 DEF Part
<1> QED
  BY <1>1, <1>3, <1>4

LEMMA MaintainIs ==
    ASSUME SourceInv, MaintainSourceAliases
    PROVE  /\ Part(alias') /\ \A a \in DOMAIN alias \ Doomed : a \in DOMAIN alias'
           /\ UNCHANGED <<clock, catalog, epoch, ring, guard, refs, touch, request>>
<1>1. /\ UNCHANGED <<clock, catalog, epoch, ring, guard, refs, touch, request>>
      /\ \E batch \in SUBSET Doomed : alias' = Restrict(alias, DOMAIN alias \ batch)
  BY DEF MaintainSourceAliases, kSubset
<1>2. PICK batch \in SUBSET Doomed : alias' = Restrict(alias, DOMAIN alias \ batch)
  BY <1>1
<1> DEFINE D == DOMAIN alias \ batch
<1>3. alias' = [a \in D |-> alias[a]]
  BY <1>2 DEF Restrict
<1>4. DOMAIN alias' = D /\ \A a \in D : alias'[a] = alias[a]
  BY <1>3
<1> QED
  BY <1>1, <1>2, <1>4 DEF Part, SourceInv, SourceTypeOK, IsTable

LEMMA SameRequests ==
    ASSUME SourceInv, UNCHANGED <<catalog, ring, request>>
    PROVE  request' \in [RequestIds -> {AtRest} \cup Underway] /\ RequestsDerived'
  BY DEF SourceInv, SourceTypeOK, RequestsDerived, Derived

LEMMA StepBackground ==
    ASSUME SourceInv, FlushTouches \/ MaintainSourceAliases
    PROVE  SourceInv'
<1>1. /\ Part(alias') /\ touch' \in {touch, {}}
      /\ UNCHANGED <<clock, catalog, epoch, ring, guard, refs, request>>
  BY FlushIs, MaintainIs
<1>2. IsTable(alias') /\ \A a \in DOMAIN alias' : catalog[a[2]] # "absent" /\ alias'[a].owner[1] = a[1]
  BY <1>1, PartIs
<1>3. request' \in [RequestIds -> {AtRest} \cup Underway] /\ RequestsDerived'
  BY <1>1, SameRequests
<1>4. touch' \subseteq Pseudonyms /\ guard' \in RequestIds \cup {Nobody}
  BY <1>1 DEF SourceInv, SourceTypeOK
<1> QED
  BY <1>1, <1>2, <1>3, <1>4, AliasStep

LEMMA StepTime ==
    ASSUME SourceInv, Elapse \/ (\E c \in refs : Expire(c)) \/ UNCHANGED sourceVars
    PROVE  SourceInv'
<1>1. /\ UNCHANGED <<catalog, epoch, ring, alias, guard, touch, request>>
      /\ clock' \in Nat /\ refs' \subseteq refs
<2>1. clock \in Nat
  BY DEF SourceInv, SourceTypeOK
<2>2. CASE Elapse
  BY <2>1, <2>2 DEF Elapse
<2>3. CASE \E c \in refs : Expire(c)
  BY <2>1, <2>3 DEF Expire
<2>4. CASE UNCHANGED sourceVars
  BY <2>1, <2>4 DEF sourceVars
<2> QED
  BY <2>2, <2>3, <2>4
<1>2. request' \in [RequestIds -> {AtRest} \cup Underway] /\ RequestsDerived'
  BY <1>1, SameRequests
<1> QED
  BY <1>1, <1>2 DEF SourceInv, SourceTypeOK, IsTable, OneActive, RingsLoaded, Settled, RowsKnown

LEMMA NextSource == SourceInv /\ [SourceNext]_sourceVars => SourceInv'
<1> SUFFICES ASSUME SourceInv, [SourceNext]_sourceVars PROVE SourceInv'
  OBVIOUS
<1>1. ASSUME NEW n \in Nodes, NEW loaded \in SUBSET Generations, Start(n, loaded) PROVE SourceInv'
  BY <1>1, StepStart
<1>2. ASSUME NEW n \in Nodes, NEW g \in Generations, DropRetired(n, g) PROVE SourceInv'
  BY <1>2, StepDropRetired
<1>3. ASSUME NEW n \in Nodes, SelectActive(n) PROVE SourceInv'
  BY <1>3, StepSelectActive
<1>4. ASSUME NEW g \in Generations, Activate(g) \/ Retire(g) PROVE SourceInv'
  BY <1>4, StepActivate, StepRetire
<1>5. ASSUME NEW r \in RequestIds, NEW n \in Nodes, NEW client \in Clients, NEW forged \in Forged,
             NEW path \in Paths, Arrive(r, n, client, forged, path)
      PROVE  SourceInv'
  BY <1>5, StepArrive
<1>6. ASSUME NEW r \in RequestIds, RejectCredential(r) \/ BeginBind(r) \/ Bind(r) \/ FinishRequest(r) PROVE SourceInv'
  BY <1>6, StepRejectCredential, StepBeginBind, StepBind, StepFinishRequest
<1>7. CASE \/ FlushTouches \/ MaintainSourceAliases
  BY <1>7, StepBackground
<1>8. CASE Elapse \/ (\E c \in refs : Expire(c)) \/ UNCHANGED sourceVars
  BY <1>8, StepTime
<1> QED
  BY <1>1, <1>2, <1>3, <1>4, <1>5, <1>6, <1>7, <1>8 DEF SourceNext

(* Every reachable state has the types, one active generation, rings that  *)
(* hold what has been active, rows and requests whose pseudonyms the       *)
(* authority knows.                                                        *)
THEOREM SourceInvariance == SourceSpec => []SourceInv
  BY InitSource, NextSource, PTL DEF SourceSpec

(* A client does not choose who it is, whatever headers it forges: a       *)
(* request's source is the address that reached the first trusted proxy.   *)
THEOREM ClientIsSource == SourceSpec => []SourceIsClient
<1>1. SourceInv => SourceIsClient
  BY DEF SourceInv, RequestsDerived, Derived, SourceIsClient
<1> QED
  BY <1>1, SourceInvariance, PTL

------------------------------------------------------------------------------
(* What is held against a source stays in reach.                           *)

(* A step that keeps every derivable row of an identity that is referred   *)
(* to keeps the identity derivable.                                        *)
LEMMA KeepsDerivable ==
    ASSUME NEW c, Usable \subseteq Usable',
           \A a \in DOMAIN alias : alias[a].owner = c /\ a[2] \in Usable
                => a \in DOMAIN alias' /\ alias'[a].owner = c,
           Derivable(c)
    PROVE  Derivable(c)'
  BY DEF Derivable, RowsOf

LEMMA RetireKeepsDerivable ==
    ASSUME SourceInv, NEW g \in Generations, Retire(g), NEW c \in refs, Derivable(c)
    PROVE  Derivable(c)'
<1>1. /\ catalog' = [catalog EXCEPT ![g] = "retired"] /\ RetirementSafe(g) /\ alias' = alias
  BY DEF Retire
<1>2. catalog \in [Generations -> States]
  BY DEF SourceInv, SourceTypeOK
<1>3. \A h \in Usable : h # g => h \in Usable'
  BY <1>1, <1>2 DEF Usable
<1>4. PICK a \in DOMAIN alias : alias[a].owner = c /\ a[2] \in Usable
  BY DEF Derivable, RowsOf
<1>5. CASE a[2] # g
  BY <1>1, <1>3, <1>4, <1>5 DEF Derivable, RowsOf
<1>6. CASE a[2] = g
<2>1. Retained(c, g)
  BY <1>1, <1>4, <1>6 DEF RetirementSafe
<2>2. PICK b \in DOMAIN alias : alias[b].owner = c /\ b[2] # g /\ b[2] \in Usable
  BY <2>1 DEF Retained, RowsOf
<2> QED
  BY <1>1, <1>3, <2>2 DEF Derivable, RowsOf
<1> QED
  BY <1>5, <1>6

LEMMA HistoryStep ==
    ASSUME SourceInv, SourceNext, NEW c \in refs, Derivable(c)
    PROVE  Derivable(c)'
<1> DEFINE Kept == \A a \in DOMAIN alias : alias[a].owner = c /\ a[2] \in Usable
                      => a \in DOMAIN alias' /\ alias'[a].owner = c
<1>0. catalog \in [Generations -> States]
  BY DEF SourceInv, SourceTypeOK
<1>1. ASSUME alias' = alias, catalog' = catalog PROVE Derivable(c)'
<2>1. Usable \subseteq Usable' /\ Kept
  BY <1>1 DEF Usable
<2> QED
  BY <2>1, KeepsDerivable
<1>2. ASSUME NEW n \in Nodes, NEW loaded \in SUBSET Generations, Start(n, loaded) PROVE Derivable(c)'
<2>1. /\ alias' = alias
      /\ catalog' = [g \in Generations |-> IF g \in loaded /\ catalog[g] = "absent" THEN "staged" ELSE catalog[g]]
  BY <1>2 DEF Start
<2>2. Usable \subseteq Usable' /\ Kept
  BY <1>0, <2>1 DEF Usable
<2> QED
  BY <2>2, KeepsDerivable
<1>3. ASSUME NEW n \in Nodes, NEW g \in Generations, DropRetired(n, g) \/ SelectActive(n) PROVE Derivable(c)'
  BY <1>1, <1>3 DEF DropRetired, SelectActive
<1>31. ASSUME NEW n \in Nodes, SelectActive(n) PROVE Derivable(c)'
  BY <1>1, <1>31 DEF SelectActive
<1>4. ASSUME NEW g \in Generations, Activate(g) PROVE Derivable(c)'
<2> DEFINE g0 == Active
<2>1. g0 \in Generations
  BY ActiveIs DEF SourceInv
<2>2. alias' = alias /\ catalog' = [catalog EXCEPT ![g0] = "superseded", ![g] = "active"]
  BY <1>4 DEF Activate
<2> HIDE DEF g0
<2>3. Usable \subseteq Usable' /\ Kept
  BY <1>0, <2>1, <2>2 DEF Usable
<2> QED
  BY <2>3, KeepsDerivable
<1>5. ASSUME NEW g \in Generations, Retire(g) PROVE Derivable(c)'
  BY <1>5, RetireKeepsDerivable
<1>6. ASSUME NEW r \in RequestIds, NEW n \in Nodes, NEW client \in Clients, NEW forged \in Forged,
             NEW path \in Paths, Arrive(r, n, client, forged, path)
      PROVE  Derivable(c)'
  BY <1>1, <1>6 DEF Arrive
<1>7. ASSUME NEW r \in RequestIds, RejectCredential(r) \/ BeginBind(r) \/ FinishRequest(r) PROVE Derivable(c)'
  BY <1>1, <1>7 DEF RejectCredential, BeginBind, FinishRequest
<1>8. ASSUME NEW r \in RequestIds, Bind(r) PROVE Derivable(c)'
<2>1. catalog' = catalog
  BY <1>8, BindIs
<2>2. CASE Failed(r)
  BY <1>1, <2>1, <2>2 DEF Failed
<2>3. CASE ~ Failed(r)
<3>1. PICK rows, owner :
                    /\ Part(rows) /\ \A a \in DOMAIN alias : alias[a].owner \in refs => a \in DOMAIN rows
                    /\ DOMAIN alias' = DOMAIN rows \cup request[r].aliases
                    /\ \A a \in DOMAIN rows : alias'[a] = rows[a]
                    /\ \A a \in request[r].aliases \ DOMAIN rows : alias'[a] = [owner |-> owner, seen |-> clock]
  BY <1>8, <2>3, BindIs
<3>2. DOMAIN rows \subseteq DOMAIN alias' /\ \A a \in DOMAIN rows : alias'[a] = rows[a] /\ rows[a].owner = alias[a].owner
  BY <3>1 DEF Part
<3>3. Usable \subseteq Usable' /\ Kept
  BY <2>1, <3>1, <3>2 DEF Usable
<3> QED
  BY <3>3, KeepsDerivable
<2> QED
  BY <2>2, <2>3
<1>9. CASE FlushTouches
<2>1. Part(alias') /\ DOMAIN alias' = DOMAIN alias /\ catalog' = catalog
  BY <1>9, FlushIs
<2>2. Usable \subseteq Usable' /\ Kept
  BY <2>1 DEF Usable, Part
<2> QED
  BY <2>2, KeepsDerivable
<1>10. CASE MaintainSourceAliases
<2>1. Part(alias') /\ catalog' = catalog /\ \A a \in DOMAIN alias \ Doomed : a \in DOMAIN alias'
  BY <1>10, MaintainIs
<2>2. \A a \in DOMAIN alias : alias[a].owner = c /\ a[2] \in Usable => a \notin Doomed
  BY DEF Doomed, Usable
<2>3. Usable \subseteq Usable' /\ Kept
  BY <2>1, <2>2 DEF Usable, Part
<2> QED
  BY <2>3, KeepsDerivable
<1>11. CASE Elapse \/ \E d \in refs : Expire(d)
  BY <1>1, <1>11 DEF Elapse, Expire
<1> QED
  BY <1>2, <1>3, <1>31, <1>4, <1>5, <1>6, <1>7, <1>8, <1>9, <1>10, <1>11 DEF SourceNext

(* No rotation, retirement, maintenance or reclamation leaves an identity  *)
(* that evidence or adaptive state refers to without an alias the nodes    *)
(* can derive, when it had one.                                            *)
THEOREM HistoryKept == SourceSpec => HistoryReachable
<1>1. SourceInv /\ [SourceNext]_sourceVars => [\A c \in refs \cap refs' : Derivable(c) => Derivable(c)']_sourceVars
  BY HistoryStep
<1> QED
  BY <1>1, SourceInvariance, PTL DEF SourceSpec, HistoryReachable
------------------------------------------------------------------------------
(* A source keeps the one identity it has.                                 *)

(* A step that adds no row and makes no generation usable that a row may   *)
(* have.                                                                   *)
LEMMA PartIdentified ==
    ASSUME SourceInv, Part(alias'),
           \A g \in Generations : g \in Usable' /\ catalog[g] # "absent" => g \in Usable,
           NEW source, Identified(source)
    PROVE  Identified(source)'
<1> DEFINE S == Rows(source, Usable)
<1>1. ASSUME NEW a \in Rows(source, Usable)' PROVE a \in S /\ alias'[a].owner = alias[a].owner
<2>1. a \in DOMAIN alias /\ a \in DOMAIN alias' /\ a[1] = source /\ a[2] \in Usable'
  BY DEF Rows, Part
<2>2. a[2] \in Generations /\ catalog[a[2]] # "absent"
  BY <2>1, PseudonymIs DEF SourceInv, SourceTypeOK, IsTable, RowsKnown
<2> QED
  BY <2>1, <2>2 DEF Rows, Part
<1>2. \A a, b \in S : alias[a].owner = alias[b].owner
  BY DEF Identified
<1> HIDE DEF S
<1> QED
  BY <1>1, <1>2 DEF Identified

(* Binding finds the owner of a source's rows wherever one of them is of   *)
(* a generation that has been active: every ring holds that generation.    *)
LEMMA BindIdentified ==
    ASSUME KeepSuperseded, SourceInv, NEW r \in RequestIds, Bind(r), NEW source \in Clients,
           Identified(source), Rows(source, Usable) # {} => Rows(source, Settled) # {}
    PROVE  Identified(source)'
<1>1. /\ request[r] \in Underway /\ Derived(request[r])
      /\ catalog' = catalog
  BY BindIs
<1>2. Usable' = Usable
  BY <1>1 DEF Usable
<1>3. Part(alias) /\ \A a \in DOMAIN alias : a = <<a[1], a[2]>>
  BY PseudonymIs DEF Part, SourceInv, SourceTypeOK, IsTable
<1>4. CASE Failed(r)
<2>1. alias' = alias
  BY <1>4 DEF Failed
<2> QED
  BY <1>2, <2>1 DEF Identified, Rows
<1>5. CASE ~ Failed(r)
<2> DEFINE S == request[r].aliases
           src == request[r].source
<2>1. PICK rows, owner :
                    /\ Part(rows)
                    /\ \A a \in S \cap DOMAIN alias : alias[a].owner = owner
                    /\ DOMAIN alias' = DOMAIN rows \cup S
                    /\ \A a \in DOMAIN rows : alias'[a] = rows[a]
                    /\ \A a \in S \ DOMAIN rows : alias'[a] = [owner |-> owner, seen |-> clock]
  BY <1>5, BindIs
<2>2. /\ \A a \in S : a[1] = src
      /\ \A g \in ring[request[r].node].loaded : <<src, g>> \in S
      /\ request[r].node \in Nodes
<3>1. request[r].pc # "idle"
  BY <1>1 DEF Underway
<3> QED
  BY <1>1, <3>1 DEF Derived, Underway
<2>3. \A g \in Settled : <<src, g>> \in S
  BY <2>2 DEF SourceInv, RingsLoaded
<2> HIDE DEF S, src
<2>4. /\ DOMAIN alias' = DOMAIN rows \cup S
      /\ \A a \in DOMAIN rows : alias'[a] = rows[a]
      /\ \A a \in S \ DOMAIN rows : alias'[a] = [owner |-> owner, seen |-> clock]
  BY <2>1
<2>5. \A a \in DOMAIN rows : a \in DOMAIN alias /\ alias'[a].owner = alias[a].owner
  BY <2>1, <2>4 DEF Part
<2>6. \A a \in S \ DOMAIN rows : alias'[a].owner = owner
  BY <2>4
<2>7. \A a, b \in Rows(source, Usable) : alias[a].owner = alias[b].owner
  BY DEF Identified
<2>8. CASE source # src
<3>1. ASSUME NEW a \in Rows(source, Usable)' PROVE a \in Rows(source, Usable) /\ alias'[a].owner = alias[a].owner
  BY <1>2, <2>2, <2>4, <2>5, <2>8 DEF Rows
<3> QED
  BY <2>7, <3>1 DEF Identified
<2>9. CASE source = src
<3>1. ASSUME NEW a \in Rows(source, Usable) PROVE alias[a].owner = owner
<4>1. PICK b \in Rows(source, Settled) : TRUE
  BY <3>1
<4>2. b \in DOMAIN alias /\ b[1] = src /\ b[2] \in Settled /\ b = <<b[1], b[2]>>
  BY <1>3, <2>9, <4>1 DEF Rows
<4>3. b \in S
  BY <2>3, <4>2
<4>4. alias[b].owner = owner
  BY <2>1, <4>2, <4>3
<4>5. b \in Rows(source, Usable)
  BY <4>2, <2>9 DEF Rows, Settled, Usable
<4> QED
  BY <2>7, <4>4, <4>5
<3>2. ASSUME NEW a \in Rows(source, Usable)' PROVE alias'[a].owner = owner
<4>1. a \in DOMAIN rows \cup S /\ a[1] = source /\ a[2] \in Usable
  BY <1>2, <2>4 DEF Rows
<4>2. CASE a \in DOMAIN rows
<5>1. a \in Rows(source, Usable)
  BY <2>5, <4>1, <4>2 DEF Rows
<5> QED
  BY <2>5, <3>1, <4>2, <5>1
<4>3. CASE a \notin DOMAIN rows
  BY <2>6, <4>1, <4>3
<4> QED
  BY <4>2, <4>3
<3> QED
  BY <3>2 DEF Identified
<2> QED
  BY <2>8, <2>9
<1> QED
  BY <1>4, <1>5

LEMMA IdentityStep ==
    ASSUME KeepSuperseded, SourceInv, SourceNext, NEW source \in Clients,
           Identified(source), Rows(source, Usable) # {} => Rows(source, Settled) # {}
    PROVE  Identified(source)'
<1>0. catalog \in [Generations -> States] /\ Part(alias)
  BY DEF SourceInv, SourceTypeOK, Part, IsTable
<1> DEFINE Tame == Part(alias') /\ \A g \in Generations : g \in Usable' /\ catalog[g] # "absent" => g \in Usable
<1>1. ASSUME Tame PROVE Identified(source)'
  BY <1>1, PartIdentified
<1>2. ASSUME alias' = alias, catalog' = catalog PROVE Tame
  BY <1>0, <1>2 DEF Usable, Part
<1>3. ASSUME NEW n \in Nodes, NEW loaded \in SUBSET Generations, Start(n, loaded) PROVE Tame
<2>1. /\ alias' = alias
      /\ catalog' = [g \in Generations |-> IF g \in loaded /\ catalog[g] = "absent" THEN "staged" ELSE catalog[g]]
  BY <1>3 DEF Start
<2> QED
  BY <1>0, <2>1 DEF Usable, Part
<1>4. ASSUME NEW n \in Nodes, NEW g \in Generations, DropRetired(n, g) PROVE Tame
  BY <1>2, <1>4 DEF DropRetired
<1>5. ASSUME NEW n \in Nodes, SelectActive(n) PROVE Tame
  BY <1>2, <1>5 DEF SelectActive
<1>6. ASSUME NEW g \in Generations, Activate(g) PROVE Tame
<2> DEFINE g0 == Active
<2>1. g0 \in Generations /\ catalog[g0] = "active"
  BY ActiveIs DEF SourceInv
<2>2. /\ alias' = alias /\ catalog' = [catalog EXCEPT ![g0] = "superseded", ![g] = "active"]
      /\ catalog[g] \in {"staged", "superseded"}
  BY <1>6 DEF Activate
<2> HIDE DEF g0
<2> QED
  BY <1>0, <2>1, <2>2 DEF Usable, Part
<1>7. ASSUME NEW g \in Generations, Retire(g) PROVE Tame
<2>1. alias' = alias /\ catalog' = [catalog EXCEPT ![g] = "retired"]
  BY <1>7 DEF Retire
<2> QED
  BY <1>0, <2>1 DEF Usable, Part
<1>8. ASSUME NEW r \in RequestIds, NEW n \in Nodes, NEW client \in Clients, NEW forged \in Forged,
             NEW path \in Paths, Arrive(r, n, client, forged, path)
      PROVE  Tame
  BY <1>2, <1>8 DEF Arrive
<1>9. ASSUME NEW r \in RequestIds, RejectCredential(r) \/ BeginBind(r) \/ FinishRequest(r) PROVE Tame
  BY <1>2, <1>9 DEF RejectCredential, BeginBind, FinishRequest
<1>10. ASSUME NEW r \in RequestIds, Bind(r) PROVE Identified(source)'
  BY <1>10, BindIdentified
<1>11. CASE FlushTouches \/ MaintainSourceAliases
<2>1. Part(alias') /\ catalog' = catalog
  BY <1>11, FlushIs, MaintainIs
<2> QED
  BY <1>1, <2>1 DEF Usable
<1>12. CASE Elapse \/ \E d \in refs : Expire(d)
  BY <1>1, <1>2, <1>12 DEF Elapse, Expire
<1> HIDE DEF Tame
<1> QED
  BY <1>1, <1>3, <1>4, <1>5, <1>6, <1>7, <1>8, <1>9, <1>10, <1>11, <1>12 DEF SourceNext

(* Where a superseded key stays configured until it is retired, binding,   *)
(* rotation, maintenance and reclamation merge no two sources and split    *)
(* none that has an alias of a generation that has been active.            *)
THEOREM IdentityKept ==
    ASSUME KeepSuperseded
    PROVE  SourceSpec => OneIdentity
<1>1. SourceInv /\ SourceInv' /\ [SourceNext]_sourceVars =>
        [/\ \A a \in DOMAIN alias' : alias'[a].owner[1] = a[1]
         /\ \A source \in Clients :
               Identified(source) /\ (Rows(source, Usable) # {} => Rows(source, Settled) # {})
               => Identified(source)']_sourceVars
<2>1. SourceInv' => \A a \in DOMAIN alias' : alias'[a].owner[1] = a[1]
  BY DEF SourceInv, RowsKnown
<2> QED
  BY <2>1, IdentityStep
<1> QED
  BY <1>1, SourceInvariance, PTL DEF SourceSpec, OneIdentity
=============================================================================
