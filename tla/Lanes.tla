-------------------------------- MODULE Lanes --------------------------------
(***************************************************************************)
(* Lanes of one credential (internal/lane): classification of a feature    *)
(* vector, the trust ladder NEW - PROBATION - ESTABLISHED, the security    *)
(* status NORMAL - SUSPICIOUS - BLOCKED, retention and the limits on the   *)
(* number of lanes.  These are the pure reducers that the resident store   *)
(* runs under its mutex, and the bbolt and PostgreSQL stores inside one    *)
(* transaction; the callers are modelled in Admission.                     *)
(*                                                                         *)
(* A lane is identified by a number, the order of which is the order of    *)
(* lane ids.  Request counts, active days and revisions are left out: no   *)
(* decision reads them.  Times are ticks, Zero is the zero time.           *)
(***************************************************************************)
EXTENDS Integers, FiniteSets, FiniteSetsExt, Functions

CONSTANTS
    Weight,         \* field -> its weight
    Absent,         \* the value of a field that was not observed
    LaneTag(_),     \* the hash of a feature vector
    MatchPercent,   \* similarity of a match
    MinComparable,  \* weight a match must rest on
    Limits,         \* [maxActive, maxProvisional, idle]
    Hysteresis,     \* [suspect, block, clear, observations, dwell, autoBlock]
    Learning,       \* [age, requests, days, maxRisk, allowNew]
    DayLength       \* ticks of a day

Fields == DOMAIN Weight

Zero == 0

(* A lane as it is stored by now.  A clean window starts with the lane or  *)
(* later; a suspicious lane that clears has its time.                      *)
StoredLane(rec, now) ==
    /\ DOMAIN rec = {"state", "status", "streak", "clearSince", "cleanSince", "firstSeen",
                     "lastSeen", "features", "clean", "days", "lastCleanDay", "risk"}
    /\ rec = [f \in DOMAIN rec |-> rec[f]]
    /\ rec.state \in {"NEW", "PROBATION", "ESTABLISHED"}
    /\ rec.status \in {"NORMAL", "SUSPICIOUS", "BLOCKED"}
    /\ {rec.clearSince, rec.cleanSince, rec.firstSeen, rec.lastSeen} \subseteq 0..now
    /\ rec.cleanSince = Zero \/ rec.cleanSince >= rec.firstSeen

Day(now) == now \div DayLength

(* Classification.                                                         *)

Mass(fields) == MapThenSumSet(LAMBDA f : Weight[f], fields)

Comparable(a, b) == {f \in Fields : a[f] # Absent /\ b[f] # Absent}

ComparableWeight(a, b) == Mass(Comparable(a, b))

Matched(a, b) == Mass({f \in Comparable(a, b) : a[f] = b[f]})

(* Similarity(c, a) > Similarity(c, b), as a comparison of fractions;      *)
(* nothing in common is similarity 0.                                      *)
MoreSimilar(c, a, b) ==
    LET Total(v) == Max({1, ComparableWeight(c, v)})
    IN  Matched(c, a) * Total(b) > Matched(c, b) * Total(a)

(* A match needs the similarity, and enough weight under it.               *)
IsMatch(c, v) ==
    LET total == ComparableWeight(c, v)
    IN  /\ total > 0
        /\ 100 * Matched(c, v) >= MatchPercent * total
        /\ MinComparable > 0
        /\ total >= MinComparable

(* Mutant: a blocked lane is only kept as long as any other.               *)
RetentionWithoutTombstone(rec, now) ==
    LET factor == CASE rec.status = "SUSPICIOUS" -> 16
                    [] rec.status # "SUSPICIOUS" /\ rec.state = "ESTABLISHED" -> 4
                    [] OTHER -> 1
    IN  Limits.idle <= 0 \/ rec.lastSeen > now - factor * Limits.idle

(* Retention: lanes are a cache, established ones live four times longer,  *)
(* suspicious ones sixteen times, blocked ones forever; without an idle    *)
(* bound every one does.                                                   *)
RetentionDecision(rec, now) ==
    LET factor == CASE rec.status = "SUSPICIOUS" -> 16
                    [] rec.status # "SUSPICIOUS" /\ rec.state = "ESTABLISHED" -> 4
                    [] OTHER -> 1
    IN  \/ Limits.idle <= 0
        \/ rec.lastSeen > now - Limits.idle
        \/ rec.status = "BLOCKED"
        \/ rec.lastSeen > now - factor * Limits.idle

NewLane(vector, now) ==
    [state |-> "NEW", status |-> "NORMAL", streak |-> 0, clearSince |-> Zero,
     cleanSince |-> now, firstSeen |-> now, lastSeen |-> now, features |-> vector,
     clean |-> 0, days |-> 0, lastCleanDay |-> -1, risk |-> 0]

(* BorrowOrCreate over the lanes of the credential: retention first, then  *)
(* the lane of the very same vector, then the best match, then a new lane  *)
(* within the limits.  The deletions stand even when the call fails.  All  *)
(* lanes have the feature schema and the classification revision of the    *)
(* running process.                                                        *)
ApplyBorrowOrCreate(lanes, vector, now) ==
    LET kept == Restrict(lanes, {l \in DOMAIN lanes : RetentionDecision(lanes[l], now)})
        ids == DOMAIN kept
        own == LaneTag(vector)
        Feat(l) == kept[l].features
        Better(l, m) == \/ MoreSimilar(vector, Feat(l), Feat(m))
                        \/ ~MoreSimilar(vector, Feat(m), Feat(l)) /\ l < m
        best == {l \in ids : \A m \in ids \ {l} : Better(l, m)}
        matches == {l \in best : IsMatch(vector, Feat(l))}
        provisional == {l \in ids : kept[l].state \in {"NEW", "PROBATION"}}
        Reuse(l) == [lanes |-> [kept EXCEPT ![l].lastSeen = now], lane |-> l,
                     created |-> FALSE, err |-> "none"]
        Fail(e) == [lanes |-> kept, lane |-> own, created |-> FALSE, err |-> e]
    IN  IF own \in ids
        THEN IF Feat(own) = vector THEN Reuse(own) ELSE Fail("conflict")
        ELSE IF matches # {} THEN Reuse(CHOOSE l \in matches : TRUE)
        ELSE IF \/ Cardinality(ids) >= Limits.maxActive
                \/ Limits.maxProvisional > 0 /\ Cardinality(provisional) >= Limits.maxProvisional
        THEN Fail("limit")
        ELSE [lanes |-> [l \in ids \cup {own} |-> IF l = own THEN NewLane(vector, now) ELSE kept[l]],
              lane |-> own, created |-> TRUE, err |-> "none"]

(* Mutant: a high score does not restart the dwell of a suspicious lane.   *)
ReduceKeepingClearSince(rec, score, now) ==
    LET h == Hysteresis
        Restart == IF rec.clearSince = Zero THEN [rec EXCEPT !.clearSince = now] ELSE rec
    IN  CASE rec.status = "BLOCKED" -> rec
          [] rec.status = "NORMAL" ->
                IF score >= h.block THEN [rec EXCEPT !.status = "BLOCKED"]
                ELSE IF score >= h.suspect THEN [rec EXCEPT !.status = "SUSPICIOUS"] ELSE rec
          [] rec.status = "SUSPICIOUS" ->
                IF rec.clearSince # Zero /\ score < h.clear /\ now - rec.clearSince >= h.dwell
                THEN [rec EXCEPT !.status = "NORMAL", !.clearSince = Zero]
                ELSE IF score < h.clear THEN Restart ELSE rec

(* One risk observation of the security status.  Without automatic block   *)
(* a block-worthy score makes the lane suspicious at once; a suspicious    *)
(* lane recovers after a dwell below the clear threshold; a blocked one    *)
(* stays.                                                                  *)
ReduceLaneSecurity(rec, score, now) ==
    LET h == Hysteresis
        streak == rec.streak + 1
    IN  CASE rec.status = "BLOCKED" -> rec
          [] rec.status # "BLOCKED" /\ score >= h.block /\ h.autoBlock ->
                [rec EXCEPT !.status = "BLOCKED", !.clearSince = Zero]
          [] rec.status = "NORMAL" /\ ~(score >= h.block /\ h.autoBlock) ->
                IF score < h.suspect THEN [rec EXCEPT !.streak = 0, !.clearSince = Zero]
                ELSE IF streak >= h.observations \/ score >= h.block
                THEN [rec EXCEPT !.status = "SUSPICIOUS", !.streak = streak, !.clearSince = Zero]
                ELSE [rec EXCEPT !.streak = streak]
          [] rec.status = "SUSPICIOUS" /\ ~(score >= h.block /\ h.autoBlock) ->
                IF score >= h.clear THEN [rec EXCEPT !.clearSince = Zero]
                ELSE IF rec.clearSince = Zero THEN [rec EXCEPT !.clearSince = now]
                ELSE IF now - rec.clearSince >= h.dwell
                THEN [rec EXCEPT !.status = "NORMAL", !.streak = 0, !.clearSince = Zero]
                ELSE rec

(* Mutant: a recovery keeps the window and the counters of before.         *)
ObservationKeepingWindow(rec, score, now) ==
    [ReduceLaneSecurity(rec, score, now) EXCEPT !.risk = score]

(* ObserveRisk: leaving NORMAL ends the clean window, coming back starts a *)
(* new one with fresh counters.                                            *)
ApplyRiskObservation(rec, score, now) ==
    LET next == [ReduceLaneSecurity(rec, score, now) EXCEPT !.risk = score]
    IN  CASE rec.status = "NORMAL" /\ next.status # "NORMAL" ->
                [next EXCEPT !.cleanSince = Zero]
          [] rec.status # "NORMAL" /\ next.status = "NORMAL" ->
                [next EXCEPT !.cleanSince = now, !.clean = 0, !.days = 0, !.lastCleanDay = -1]
          [] OTHER -> next

(* The trust ladder: policy alone seeds PROBATION; ESTABLISHED needs the   *)
(* whole clean window.                                                     *)
PromoteIfEligible(rec, disqualified, now) ==
    LET anchor == IF rec.cleanSince = Zero THEN rec.firstSeen ELSE rec.cleanSince
    IN  CASE rec.status # "NORMAL" \/ disqualified -> rec.state
          [] rec.status = "NORMAL" /\ ~disqualified /\ rec.state = "NEW" ->
                IF Learning.allowNew THEN "PROBATION" ELSE "NEW"
          [] rec.status = "NORMAL" /\ ~disqualified /\ rec.state = "PROBATION" ->
                IF /\ now - anchor >= Learning.age
                   /\ rec.clean >= Learning.requests
                   /\ rec.days >= Learning.days
                   /\ rec.risk <= Learning.maxRisk
                THEN "ESTABLISHED" ELSE "PROBATION"
          [] OTHER -> rec.state

(* A completed clean request: the counters, then the ladder.  The risk     *)
(* written is the one the request was admitted with.                       *)
ApplyCleanAuthorizedAndPromote(rec, score, disqualified, now) ==
    LET newDay == Day(now) # rec.lastCleanDay
        counted == [rec EXCEPT !.risk = score, !.clean = @ + 1,
                               !.days = IF newDay THEN @ + 1 ELSE @,
                               !.lastCleanDay = Day(now)]
    IN  [counted EXCEPT !.state = PromoteIfEligible(counted, disqualified, now)]

(* The operator clears a block: a new clean window, the counters stay.     *)
ApplyUnblock(rec, now) ==
    [rec EXCEPT !.status = "NORMAL", !.cleanSince = now, !.streak = 0, !.clearSince = Zero]
=============================================================================
