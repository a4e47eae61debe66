------------------------------ MODULE Detectors ------------------------------
(***************************************************************************)
(* The behaviour detectors (internal/producers, internal/anomaly): sliding *)
(* windows of distinct keys (novelty, enumeration, spray) and moving       *)
(* averages (concurrency, token and cost velocity).                        *)
(*                                                                         *)
(* In the standalone deployment a detector lives in memory and is          *)
(* checkpointed to bbolt by a ticker, by the observation that raises a     *)
(* signal and by Close.  In the cluster every observation is a transaction *)
(* of statepg/adaptive.go, behind a gate of the node that drops repeated   *)
(* observations.  The detector and the deployment of a behaviour are       *)
(* chosen at its start:                                                    *)
(*                                                                         *)
(*   novelty      distinct sources, networks or regions of a credential    *)
(*   enumeration  distinct endpoints of a credential                       *)
(*   spray        distinct networks of a credential, credentials of a      *)
(*                source                                                   *)
(*   invalid      distinct invalid candidates of a source                  *)
(*   concurrency  requests in flight of a lane                             *)
(*   token        tokens of a completion of a lane                         *)
(*   cost         cost of a completion of a credential                     *)
(*                                                                         *)
(* A detector maps a subject to its state, which is the same record for    *)
(* both kinds.  An average is kept in units of 1/Scale, rounded down.      *)
(***************************************************************************)
EXTENDS Integers, FiniteSets, FiniteSetsExt, Functions

CONSTANTS
    Subjects, Keys,      \* subjects and window keys
    Values,              \* samples of an average; only positive ones are observed
    Calls,               \* concurrent observations
    Nodes,               \* nodes of the cluster
    Modes,               \* set of <<deployment, kind>>
    Threshold,           \* of enumeration and spray
    CostFloor,           \* absoluteCostFloorMicrounits
    Window, Cooldown, MaxSubjects, MaxKeys,
    Refresh,             \* distributedObservationRefresh
    GateCapacity,        \* distributedObservationGateCapacity
    Retention,           \* AdaptiveRetention
    MaxRestored,         \* keys per subject that restoreWindows accepts
    MaxStateSize,        \* keys of a checkpoint of maxDetectorStateBytes
    Scale,
    MaxClock, MaxObservations,               \* mode -> bound
    MaxStarts                                \* bound

(* The configuration only asks for a retention that is not negative; rows  *)
(* that maintenance deletes inside the window are not counted.             *)
ASSUME RetentionAssumption == Retention >= Window /\ Retention >= Cooldown

(* Every caller keeps 256 keys of a subject; the thresholds it passes are  *)
(* 8 at most (DefaultThresholds, NewEnumerationProducer).  The refresh     *)
(* interval is a second.                                                   *)
ASSUME DetectorAssumption ==
    /\ Values \subseteq Nat /\ IsFiniteSet(Keys) /\ IsFiniteSet(Subjects)
    /\ {Threshold, CostFloor, Window, Cooldown, MaxSubjects, MaxKeys, Refresh, Retention, Scale} \subseteq Nat
    /\ MaxKeys > Threshold /\ MaxKeys > 1 /\ MaxSubjects > 0 /\ Refresh > 0
    /\ {"ticker", "closer", "none"} \cap Calls = {}
    /\ Modes \subseteq {"standalone", "cluster"}
                  \X {"novelty", "enumeration", "spray", "invalid", "concurrency", "token", "cost"}

VARIABLES
    mode,
    clock,
    state,      \* subject -> detector state: the process's, or the cluster's rows
    saved,      \* the checkpoint
    dirty,      \* changed since the last checkpoint
    failed,     \* the last checkpoint failed (PersistenceError)
    process,    \* "up", "closing", "down"
    flush,      \* the holder of flushMu and its progress
    call,       \* observation in progress
    gate,       \* node -> subject and observation -> when it last passed
    count,      \* observations of the detector and starts so far
    acked,      \* history: subject -> last emission whose flush succeeded
    evicted,    \* history: calls whose subject was evicted before their flush returned
    asked,      \* history: subject -> key -> last time a request presented it, within the window
    lost        \* history: <<node, subject, key>> that passed the gate and failed at the authority

vars == <<mode, clock, state, saved, dirty, failed, process, flush, call, gate, count, acked, evicted, asked, lost>>

Never == 0

NoSignal == "none"

Deployment == mode[1]

Kind == mode[2]

IsWindow == Kind \in {"novelty", "enumeration", "spray", "invalid"}

(* A second distinct source, network or region is already news.            *)
WindowThreshold == IF Kind = "novelty" THEN 1 ELSE Threshold

Observations == IF IsWindow THEN Keys ELSE Values

Fresh == [keys |-> <<>>, ema |-> 0, samples |-> 0, lastSeen |-> Never, lastEmit |-> Never]

Cooled(d, now) == d.lastEmit = Never \/ now - d.lastEmit >= Cooldown

Emit(d, signal, now) ==
    [state |-> IF signal = NoSignal THEN d ELSE [d EXCEPT !.lastEmit = now], signal |-> signal]

------------------------------------------------------------------------------
(* Windows.                                                                *)

(* The map f with v at x.                                                  *)
Put(f, x, v) == [y \in DOMAIN f \cup {x} |-> IF y = x THEN v ELSE f[y]]

Since(keys, t) == Restrict(keys, {k \in DOMAIN keys : keys[k] >= t})

(* The n oldest keys.                                                      *)
Oldest(keys, n) ==
    CHOOSE D \in kSubset(n, DOMAIN keys) : \A k \in D, j \in DOMAIN keys \ D : keys[k] <= keys[j]

(* observeWindow: only a key that is new in the window raises a signal.    *)
ObserveWindowLocal(d, key, threshold, now) ==
    LET live == Since(d.keys, now - Window)
        raised == /\ key \notin DOMAIN live
                  /\ Cardinality(DOMAIN live) >= threshold
                  /\ Cooled(d, now)
    IN  Emit([d EXCEPT !.keys = Put(live, key, now), !.lastSeen = now],
             IF raised THEN "over" ELSE NoSignal, now)

(* Detector.observe: every observation above the threshold does; over the  *)
(* bound the oldest keys go, but none of this very instant.                *)
ObserveSpray(d, key, now) ==
    LET live == Since(Put(d.keys, key, now), now - Window)
        older == {k \in DOMAIN live : live[k] < now}
        over == Min({Cardinality(older), Max({0, Cardinality(DOMAIN live) - MaxKeys})})
        kept == Restrict(live, DOMAIN live \ Oldest(live, over))
        raised == Cardinality(DOMAIN kept) > WindowThreshold /\ Cooled(d, now)
    IN  Emit([d EXCEPT !.keys = kept, !.lastSeen = now], IF raised THEN "over" ELSE NoSignal, now)

(* observeWindowOnce: over the bound the oldest rows stay.                 *)
ObserveWindowShared(d, key, now) ==
    LET live == Since(d.keys, now - Window + 1)
        rows == Put(live, key, now)
        kept == Restrict(rows, Oldest(rows, Min({MaxKeys, Cardinality(DOMAIN rows)})))
        raised == /\ key \notin DOMAIN live
                  /\ Cardinality(DOMAIN kept) > WindowThreshold
                  /\ Cooled(d, now)
    IN  Emit([d EXCEPT !.keys = kept, !.lastSeen = now], IF raised THEN "over" ELSE NoSignal, now)

------------------------------------------------------------------------------
(* Averages: alpha is 0.3.                                                 *)

Blend(ema, v) == (3 * Scale * v + 7 * ema) \div 10

Learn(d, v, now) ==
    [d EXCEPT !.samples = @ + 1, !.lastSeen = now,
              !.ema = IF d.samples = 0 THEN Scale * v ELSE Blend(@, v)]

(* The cost has no signal of its own for the tenfold.                      *)
Exceeds(d, v) ==
    CASE Kind # "cost" /\ Scale * v >= 10 * d.ema -> "over10"
      [] (Kind = "cost" \/ Scale * v < 10 * d.ema) /\ Scale * v >= 4 * d.ema -> "over4"
      [] OTHER -> NoSignal

(* A cost so small that it raises no signal.                               *)
BelowFloor(v) == Kind = "cost" /\ v < CostFloor

(* Two samples establish the average; a sample is compared with the        *)
(* average before it.                                                      *)
Established(d) == d.samples + 1 >= 3 /\ d.ema > 0

Crossed(d, v, now) == IF Established(d) /\ Cooled(d, now) THEN Exceeds(d, v) ELSE NoSignal

(* checkVelocity.                                                          *)
CheckVelocity(d, v, now) == Emit(Learn(d, v, now), Crossed(d, v, now), now)

(* Mutant: the concurrency ramp feeds the average too.                     *)
CheckRampLearnt(d, v, now) == Emit(Learn(d, v, now), Crossed(d, v, now), now)

(* checkConcurrencyVelocity: a ramp does not move the established average. *)
CheckConcurrencyVelocity(d, v, now) ==
    LET learnt == Learn(d, v, now)
        next == IF Established(d) /\ Scale * v >= 2 * d.ema
                THEN [learnt EXCEPT !.ema = d.ema] ELSE learnt
    IN  Emit(next, Crossed(d, v, now), now)

(* observeBaselineOnce: what is below the floor does not start the         *)
(* cooldown either.                                                        *)
ObserveBaselineShared(d, v, now) ==
    LET n == d.samples + 1
        crossed == IF n >= 3 /\ d.ema > 0 /\ ~BelowFloor(v) THEN Exceeds(d, v) ELSE NoSignal
        signal == IF d.lastEmit # Never /\ now - d.lastEmit < Cooldown THEN NoSignal ELSE crossed
        ema == IF n < 3 \/ d.ema <= 0 THEN (IF n = 1 THEN Scale * v ELSE Blend(d.ema, v))
               ELSE IF Kind # "concurrency" \/ Scale * v < 2 * d.ema THEN Blend(d.ema, v)
               ELSE d.ema
    IN  Emit([d EXCEPT !.samples = n, !.ema = ema, !.lastSeen = now], signal, now)

------------------------------------------------------------------------------
ReduceNovelty(d, o, now) == ObserveWindowLocal(d, o, 1, now)

ReduceEnumeration(d, o, now) == ObserveWindowLocal(d, o, Threshold, now)

ReduceConcurrency(d, o, now) == CheckConcurrencyVelocity(d, o, now)

(* observeCompletionLocal: the floor is applied to what checkVelocity      *)
(* returns, when the cooldown has started.                                 *)
ReduceCompletion(d, o, now) ==
    [CheckVelocity(d, o, now) EXCEPT !.signal = IF BelowFloor(o) THEN NoSignal ELSE @]

ReduceLocal(d, o, now) ==
    CASE Kind = "novelty" -> ReduceNovelty(d, o, now)
      [] Kind = "enumeration" -> ReduceEnumeration(d, o, now)
      [] Kind \in {"spray", "invalid"} -> ObserveSpray(d, o, now)
      [] Kind = "concurrency" -> ReduceConcurrency(d, o, now)
      [] Kind \in {"token", "cost"} -> ReduceCompletion(d, o, now)

ReduceShared(d, o, now) ==
    IF IsWindow THEN ObserveWindowShared(d, o, now) ELSE ObserveBaselineShared(d, o, now)

Reduce(d, o, now) ==
    IF Deployment = "standalone" THEN ReduceLocal(d, o, now) ELSE ReduceShared(d, o, now)

Coldest(m) == CHOOSE c \in DOMAIN m : \A t \in DOMAIN m : m[c].lastSeen <= m[t].lastSeen

(* A subject that is not known takes the place of the coldest one when     *)
(* there are MaxSubjects; the averages of the cluster have no such bound.  *)
Room(s) ==
    IF \/ s \in DOMAIN state \/ Cardinality(DOMAIN state) < MaxSubjects
       \/ Deployment = "cluster" /\ ~IsWindow
    THEN state
    ELSE Restrict(state, DOMAIN state \ {Coldest(state)})

(* One observation of the detector, under its lock or in its transaction.  *)
Observed(s, o) ==
    LET room == Room(s)
    IN  Reduce(IF s \in DOMAIN room THEN room[s] ELSE Fresh, o, clock)

(* A call that raised a signal for s and has not flushed it.               *)
Owes(c, s) ==
    \/ c.pc = "flush" /\ c.subject = s
    \/ c.pc = "mark" /\ c.then.pc = "flush" /\ c.then.subject = s

Apply(s, o) ==
    /\ state' = Put(Room(s), s, Observed(s, o).state)
    /\ acked' = [t \in Subjects |-> IF t \in DOMAIN state' THEN acked[t] ELSE Never]
    /\ evicted' = evicted \cup {c \in Calls : \E t \in DOMAIN state \ DOMAIN state' : Owes(call[c], t)}

IdleCall == [pc |-> "idle"]

NoFlush == [by |-> "none", pc |-> "none", copy |-> <<>>]

Init ==
    /\ mode \in Modes
    /\ clock = 1
    /\ state = <<>>
    /\ saved = <<>>
    /\ dirty = FALSE
    /\ failed = FALSE
    /\ process = "up"
    /\ flush = NoFlush
    /\ call = [c \in Calls |-> IdleCall]
    /\ gate = [n \in Nodes |-> <<>>]
    /\ count = [observations |-> 0, starts |-> 1]
    /\ acked = [s \in Subjects |-> Never]
    /\ evicted = {}
    /\ asked = [s \in Subjects |-> <<>>]
    /\ lost = {}

Counted ==
    /\ count.observations < MaxObservations[mode]
    /\ count' = [count EXCEPT !.observations = @ + 1]

------------------------------------------------------------------------------
(* Standalone: PersistentProducer, and Detector with a store.              *)

(* An observation that raised a signal flushes before it returns.          *)
Marked(s, raised) == IF raised THEN [pc |-> "flush", subject |-> s, at |-> clock] ELSE IdleCall

Observation(c, s, o) ==
    /\ Deployment = "standalone" /\ process = "up"
    /\ call[c].pc = "idle"
    /\ Counted
    /\ Apply(s, o)
    /\ UNCHANGED <<mode, clock, saved, failed, process, flush, gate, asked, lost>>

(* PersistentProducer: the wrapped producer changes under its own lock;    *)
(* the flag follows.                                                       *)
Unmarked(c, s, o) ==
    /\ call' = [call EXCEPT ![c] = [pc |-> "mark", then |-> Marked(s, Observed(s, o).signal # NoSignal)]]
    /\ UNCHANGED dirty

ObserveAdmission(c, s, o) ==
    Kind \in {"novelty", "enumeration", "concurrency"} /\ Observation(c, s, o) /\ Unmarked(c, s, o)

ObserveCompletion(c, s, o) == Kind \in {"token", "cost"} /\ Observation(c, s, o) /\ Unmarked(c, s, o)

MarkDirty(c) ==
    /\ call[c].pc = "mark"
    /\ dirty' = TRUE
    /\ call' = [call EXCEPT ![c] = @.then]
    /\ UNCHANGED <<mode, clock, state, saved, failed, process, flush, gate, count, acked, evicted, asked, lost>>

(* The spray detector raises the flag under the lock of its windows.       *)
PersistLocked(c, s, o) ==
    /\ call' = [call EXCEPT ![c] = Marked(s, Observed(s, o).signal # NoSignal)]
    /\ dirty' = TRUE

ObserveLocal(c, s, o) == Kind = "spray" /\ Observation(c, s, o) /\ PersistLocked(c, s, o)

ObserveInvalidLocal(c, s, o) == Kind = "invalid" /\ Observation(c, s, o) /\ PersistLocked(c, s, o)

(* Who may enter Flush: an observation, the ticker, Close after the ticker *)
(* has stopped.                                                            *)
Wants(f) ==
    IF f \in Calls THEN call[f].pc = "flush"
    ELSE f = (IF process = "up" THEN "ticker" ELSE "closer")

(* Flush returns to its caller.                                            *)
Return(f, ok) ==
    /\ process' = IF f = "closer" THEN "down" ELSE process
    /\ IF f \in Calls
       THEN /\ call' = [call EXCEPT ![f] = IdleCall]
            /\ acked' = [acked EXCEPT ![call[f].subject] = IF ok /\ f \notin evicted THEN call[f].at ELSE @]
            /\ evicted' = evicted \ {f}
       ELSE UNCHANGED <<call, acked, evicted>>

(* Mutant: a flush that finds nothing dirty does not wait for the one in   *)
(* progress.                                                               *)
BeginFlushUnlocked(f) ==
    /\ Deployment = "standalone" /\ process # "down" /\ Wants(f)
    /\ \/ /\ flush.pc = "none" /\ dirty
          /\ dirty' = FALSE
          /\ flush' = [by |-> f, pc |-> "snapshot", copy |-> <<>>]
          /\ UNCHANGED <<process, call, acked, evicted>>
       \/ ~dirty /\ Return(f, ~failed) /\ UNCHANGED <<dirty, flush>>
    /\ UNCHANGED <<mode, clock, state, saved, failed, gate, count, asked, lost>>

(* Flush takes flushMu and the flag; nothing dirty returns the last error. *)
BeginFlush(f) ==
    /\ Deployment = "standalone" /\ process # "down" /\ Wants(f)
    /\ flush.pc = "none"
    /\ IF dirty
       THEN /\ dirty' = FALSE
            /\ flush' = [by |-> f, pc |-> "snapshot", copy |-> <<>>]
            /\ UNCHANGED <<process, call, acked, evicted>>
       ELSE Return(f, ~failed) /\ UNCHANGED <<dirty, flush>>
    /\ UNCHANGED <<mode, clock, state, saved, failed, gate, count, asked, lost>>

SnapshotState ==
    /\ flush.pc = "snapshot"
    /\ flush' = [flush EXCEPT !.pc = "save", !.copy = state]
    /\ UNCHANGED <<mode, clock, state, saved, dirty, failed, process, call, gate, count, acked, evicted, asked, lost>>

(* Mutant: the flag is cleared once the checkpoint is safe.                *)
SaveThenClear ==
    /\ flush.pc = "save"
    /\ saved' = flush.copy
    /\ dirty' = FALSE
    /\ failed' = FALSE
    /\ Return(flush.by, TRUE)
    /\ flush' = NoFlush
    /\ UNCHANGED <<mode, clock, state, gate, count, asked, lost>>

SizeOf(m) == FoldSet(LAMBDA s, n : n + Cardinality(DOMAIN m[s].keys), 0, DOMAIN m)

(* SaveDetectorState, one bbolt transaction, refuses a large checkpoint; a *)
(* failure is dirty again.                                                 *)
SaveDetectorState ==
    /\ flush.pc = "save"
    /\ \E ok \in BOOLEAN :
          /\ ok => SizeOf(flush.copy) <= MaxStateSize
          /\ saved' = IF ok THEN flush.copy ELSE saved
          /\ dirty' = (dirty \/ ~ok)
          /\ failed' = ~ok
          /\ Return(flush.by, ok)
    /\ flush' = NoFlush
    /\ UNCHANGED <<mode, clock, state, gate, count, asked, lost>>

(* Close, when no request is left: the ticker ends, one last flush runs.   *)
Close ==
    /\ Deployment = "standalone" /\ process = "up"
    /\ \A c \in Calls : call[c] = IdleCall
    /\ flush.by # "ticker"
    /\ process' = "closing"
    /\ UNCHANGED <<mode, clock, state, saved, dirty, failed, flush, call, gate, count, acked, evicted, asked, lost>>

Crash ==
    /\ Deployment = "standalone" /\ process # "down"
    /\ process' = "down"
    /\ dirty' = FALSE
    /\ flush' = NoFlush
    /\ call' = [c \in Calls |-> IdleCall]
    /\ evicted' = {}
    /\ UNCHANGED <<mode, clock, state, saved, failed, gate, count, acked, asked, lost>>

(* RestoreState refuses what is over its bounds.                           *)
Restorable(m) ==
    /\ Cardinality(DOMAIN m) <= MaxSubjects
    /\ \A s \in DOMAIN m :
          Cardinality(DOMAIN m[s].keys) <= IF Kind \in {"spray", "invalid"} THEN MaxKeys ELSE MaxRestored

(* NewPersistentProducer, NewPersistentDetector: the process does not      *)
(* start on a checkpoint it refuses.                                       *)
Restart ==
    /\ process = "down" /\ count.starts < MaxStarts
    /\ Restorable(saved)
    /\ process' = "up"
    /\ state' = saved
    /\ dirty' = FALSE
    /\ failed' = FALSE
    /\ count' = [count EXCEPT !.starts = @ + 1]
    /\ UNCHANGED <<mode, clock, saved, flush, call, gate, acked, evicted, asked, lost>>

------------------------------------------------------------------------------
(* Cluster.                                                                *)

Passed(n, s, o) == IF <<s, o>> \in DOMAIN gate[n] THEN gate[n][<<s, o>>] ELSE Never

(* A key presented within the refresh interval does not reach the          *)
(* authority; neither does an unchanged sample of an average.              *)
Gated(n, s, o) == Passed(n, s, o) # Never /\ clock - Passed(n, s, o) < Refresh

(* A gate over its capacity loses what it need not hold any more, then     *)
(* anything, down to half of it.                                           *)
Trimmed(seen) ==
    LET held == {p \in DOMAIN seen : clock - seen[p] < Refresh}
        size == Min({Cardinality(held), GateCapacity \div 2})
    IN  IF Cardinality(DOMAIN seen) <= GateCapacity THEN {seen}
        ELSE {Restrict(seen, D) : D \in kSubset(size, held)}

(* distributedObservationGate.allow                                        *)
AllowWindow(n, s, o) == \E g \in Trimmed(Put(gate[n], <<s, o>>, clock)) : gate' = [gate EXCEPT ![n] = g]

(* distributedBaselineGate.allow remembers the last value only.            *)
AllowBaseline(n, s, o) ==
    \E g \in Trimmed(Put(Restrict(gate[n], {p \in DOMAIN gate[n] : p[1] # s}), <<s, o>>, clock)) :
        gate' = [gate EXCEPT ![n] = g]

(* The last observation of the key that passed the gate of the node has    *)
(* reached the authority, which still has its row.                         *)
Recorded(n, s, o) ==
    /\ s \in DOMAIN state /\ o \in DOMAIN state[s].keys
    /\ <<n, s, o>> \notin lost
    /\ \A c \in Calls :
          call[c].pc = "commit" /\ call[c].subject = s /\ call[c].of = o => n \notin call[c].through

(* The node is about to call the authority; through: whose gate it passed. *)
Send(c, s, o, through) ==
    /\ Counted
    /\ call' = [call EXCEPT ![c] = [pc |-> "commit", subject |-> s, of |-> o, through |-> through]]
    /\ UNCHANGED <<asked, lost>>

(* Mutant: the gate slides, a dropped repeat keeps it closed.              *)
SuppressedSliding(n, s, o) ==
    /\ Gated(n, s, o)
    /\ gate' = [gate EXCEPT ![n] = Put(@, <<s, o>>, clock)]
    /\ asked' = IF Recorded(n, s, o) THEN [asked EXCEPT ![s] = Put(@, o, clock)] ELSE asked
    /\ UNCHANGED <<call, count, lost>>

Suppressed(n, s, o) ==
    /\ Gated(n, s, o)
    /\ asked' = IF Recorded(n, s, o) THEN [asked EXCEPT ![s] = Put(@, o, clock)] ELSE asked
    /\ UNCHANGED <<gate, call, count, lost>>

Presented(c) ==
    /\ Deployment = "cluster"
    /\ call[c].pc = "idle"
    /\ UNCHANGED <<mode, clock, state, saved, dirty, failed, process, flush, acked, evicted>>

ObserveNovelty(n, c, s, o) ==
    /\ Kind = "novelty" /\ Presented(c)
    /\ \/ Suppressed(n, s, o)
       \/ ~Gated(n, s, o) /\ AllowWindow(n, s, o) /\ Send(c, s, o, {n})

ObserveEnumeration(n, c, s, o) ==
    /\ Kind = "enumeration" /\ Presented(c)
    /\ \/ Suppressed(n, s, o)
       \/ ~Gated(n, s, o) /\ AllowWindow(n, s, o) /\ Send(c, s, o, {n})

ObserveConcurrency(n, c, s, o) ==
    /\ Kind = "concurrency" /\ Presented(c)
    /\ \/ Suppressed(n, s, o)
       \/ ~Gated(n, s, o) /\ AllowBaseline(n, s, o) /\ Send(c, s, o, {})

(* Completions and the spray detector have no gate.                        *)
ObserveCompletionShared(c, s, o) ==
    Kind \in {"token", "cost"} /\ Presented(c) /\ Send(c, s, o, {}) /\ UNCHANGED gate

ObserveSprayShared(c, s, o) == Kind = "spray" /\ Presented(c) /\ Send(c, s, o, {}) /\ UNCHANGED gate

ObserveInvalidShared(c, s, o) == Kind = "invalid" /\ Presented(c) /\ Send(c, s, o, {}) /\ UNCHANGED gate

(* Keys of the window that the bound on keys discards: the newest ones.    *)
Discarded(s, o) ==
    LET rows == IF s \in DOMAIN state THEN state[s].keys ELSE <<>>
    IN  ({o} \cup DOMAIN Since(rows, clock - Window + 1)) \ DOMAIN state'[s].keys

(* What was presented, without the keys discarded and the subjects evicted *)
(* for want of room.                                                       *)
Told(s, o) ==
    [t \in Subjects |->
        CASE t = s -> Restrict(Put(asked[s], o, clock), (DOMAIN asked[s] \cup {o}) \ Discarded(s, o))
          [] t # s /\ t \in DOMAIN state' -> asked[t]
          [] t # s /\ t \notin DOMAIN state' -> <<>>]

(* A transaction on the authority's clock, retried, or failed; a failure   *)
(* leaves the gate closed.                                                 *)
Transaction(c) ==
    /\ call[c].pc = "commit"
    /\ LET s == call[c].subject
           o == call[c].of
           passes == {<<n, s, o>> : n \in call[c].through}
       IN  \/ Apply(s, o) /\ asked' = Told(s, o) /\ lost' = lost \ passes
           \/ lost' = lost \cup passes /\ UNCHANGED <<state, acked, evicted, asked>>
    /\ call' = [call EXCEPT ![c] = IdleCall]
    /\ UNCHANGED <<mode, clock, saved, dirty, failed, process, flush, gate, count>>

ObserveWindow(c) == IsWindow /\ Transaction(c)

ObserveBaseline(c) == ~IsWindow /\ Transaction(c)

(* maintainAdaptive, a transaction for each table: keys, averages and      *)
(* subjects not seen for the retention; a batch may be any of them.        *)
MaintainAdaptive ==
    LET cutoff == clock - Retention
        old(s) == {k \in DOMAIN state[s].keys : state[s].keys[k] < cutoff}
    IN  /\ Deployment = "cluster"
        /\ \E s \in DOMAIN state :
              \/ \E K \in SUBSET old(s) \ {{}} :
                    state' = [state EXCEPT ![s].keys = Restrict(@, DOMAIN @ \ K)]
              \/ /\ state[s].lastSeen < cutoff
                 /\ state' = Restrict(state, DOMAIN state \ {s})
        /\ UNCHANGED <<mode, clock, saved, dirty, failed, process, flush, call, gate, count, acked, evicted, asked, lost>>

Tick ==
    /\ clock < MaxClock[mode]
    /\ clock' = clock + 1
    /\ asked' = [s \in Subjects |-> Since(asked[s], clock' - Window + 1)]
    /\ UNCHANGED <<mode, state, saved, dirty, failed, process, flush, call, gate, count, acked, evicted, lost>>

Next ==
    \/ \E c \in Calls, s \in Subjects, o \in Observations :
          \/ ObserveAdmission(c, s, o) \/ ObserveCompletion(c, s, o) \/ ObserveLocal(c, s, o) \/ ObserveInvalidLocal(c, s, o)
          \/ \E n \in Nodes :
                ObserveNovelty(n, c, s, o) \/ ObserveEnumeration(n, c, s, o) \/ ObserveConcurrency(n, c, s, o)
          \/ ObserveCompletionShared(c, s, o) \/ ObserveSprayShared(c, s, o) \/ ObserveInvalidShared(c, s, o)
    \/ \E c \in Calls : MarkDirty(c) \/ ObserveWindow(c) \/ ObserveBaseline(c)
    \/ MaintainAdaptive
    \/ \E f \in Calls \cup {"ticker", "closer"} : BeginFlush(f)
    \/ SnapshotState \/ SaveDetectorState \/ Close \/ Crash \/ Restart \/ Tick

Spec == Init /\ [][Next]_vars

------------------------------------------------------------------------------
(* With the flag clear, nobody in Flush and no observation about to raise  *)
(* the flag, the checkpoint is the detector: no interleaving of            *)
(* observations with the ticker, a signal's flush or Close loses one       *)
(* (Flush clears the flag before it takes the snapshot).                   *)
CheckpointCurrent ==
    /\ Deployment = "standalone" /\ process # "down"
    /\ ~dirty /\ flush.pc = "none"
    /\ \A c \in Calls : call[c].pc # "mark"
    => saved = state

(* A signal whose observation returned without a persistence error is in   *)
(* the checkpoint, with its cooldown: a crash right after it neither       *)
(* forgets the detection nor raises it again at once.                      *)
AckedEmissionDurable ==
    \A s \in Subjects :
        Deployment = "standalone" /\ acked[s] # Never
        => s \in DOMAIN saved /\ saved[s].lastEmit >= acked[s]

(* The gates do not hide a spray from the cluster: when a threshold of     *)
(* distinct keys was presented within the window less one refresh          *)
(* interval, repeats that a gate dropped after a recorded one included, a  *)
(* key that was not presented in the window raises the signal, unless the  *)
(* cooldown runs.  Excepted are keys that the authority discarded because  *)
(* the subject had too many, the subjects it evicted because there were    *)
(* too many, and repeats of a key whose transaction failed (Told, lost).   *)
SprayDetected ==
    [][\A c \in Calls :
          /\ Deployment = "cluster" /\ IsWindow
          /\ call[c].pc = "commit" /\ call'[c].pc = "idle" /\ state' # state
          => LET s == call[c].subject
                 d == IF s \in DOMAIN state THEN state[s] ELSE Fresh
                 recent == {k \in DOMAIN asked[s] : asked[s][k] >= clock - (Window - Refresh)}
             IN  /\ call[c].of \notin DOMAIN asked[s]
                 /\ Cardinality(recent) >= WindowThreshold
                 /\ Cooled(d, clock)
                 => state'[s].lastEmit = clock]_vars

(* From the same detector and sample, the reducer of the process and the   *)
(* one of the cluster raise the same signal and learn the same average.    *)
(* They also start the same cooldown, except for a cost below the floor:   *)
(* it raises no signal in either, but starts the cooldown of the process.  *)
ReducersAgree ==
    ~IsWindow =>
        \A s \in DOMAIN state, v \in Values :
            LET local == ReduceLocal(state[s], v, clock)
                shared == ObserveBaselineShared(state[s], v, clock)
            IN  /\ local.signal = shared.signal
                /\ [local.state EXCEPT !.lastEmit = Never] = [shared.state EXCEPT !.lastEmit = Never]
                /\ local.state.lastEmit = shared.state.lastEmit \/ BelowFloor(v)

(* velocity.go: "The absolute floor gates EMISSION only", so that the      *)
(* cooldown of a detector starts with a signal, in either deployment.      *)
FloorGatesEmissionOnly ==
    ~IsWindow =>
        \A s \in DOMAIN state, v \in Values :
            LET next == Reduce(state[s], v, clock)
            IN  next.state.lastEmit # state[s].lastEmit => next.signal # NoSignal
=============================================================================
