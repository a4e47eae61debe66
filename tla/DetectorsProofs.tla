--------------------------- MODULE DetectorsProofs ---------------------------
(***************************************************************************)
(* Proofs about Detectors, for any number of subjects, keys, observations  *)
(* in progress and nodes, and for every bound.                             *)
(***************************************************************************)
EXTENDS Detectors, FiniteSetTheorems, WellFoundedInduction, TLAPS

Maps(A, B) == UNION {[D -> B] : D \in SUBSET A}

Detector == [keys : Maps(Keys, Nat), ema : Int, samples : Nat, lastSeen : Nat, lastEmit : Nat]

Table == Maps(Subjects, Detector)

Marks == {IdleCall} \cup [pc : {"flush"}, subject : Subjects, at : Nat]

Progress ==
    Marks \cup [pc : {"mark"}, then : Marks]
          \cup [pc : {"commit"}, subject : Subjects, of : Observations, through : SUBSET Nodes]

Holders == Calls \cup {"ticker", "closer", "none"}

TypeOK ==
    /\ mode \in Modes
    /\ clock \in Nat /\ clock > 0
    /\ state \in Table /\ saved \in Table
    /\ dirty \in BOOLEAN /\ failed \in BOOLEAN
    /\ process \in {"up", "closing", "down"}
    /\ flush \in [by : Holders, pc : {"none", "snapshot", "save"}, copy : Table]
    /\ call \in [Calls -> Progress]
    /\ gate \in [Nodes -> Maps(Subjects \X Observations, Nat)]
    /\ acked \in [Subjects -> Nat]
    /\ evicted \subseteq Calls
    /\ asked \in [Subjects -> Maps(Keys \cup Values, Nat)]
    /\ lost \subseteq Nodes \X Subjects \X Observations

------------------------------------------------------------------------------
(* Maps.                                                                   *)

LEMMA MapIs ==
    ASSUME NEW A, NEW B, NEW f
    PROVE  f \in Maps(A, B) <=> /\ DOMAIN f \in SUBSET A
                                /\ f \in [DOMAIN f -> B]
  BY DEF Maps

LEMMA MapAt ==
    ASSUME NEW A, NEW B, NEW f \in Maps(A, B)
    PROVE  DOMAIN f \subseteq A /\ \A x \in DOMAIN f : f[x] \in B
  BY MapIs

LEMMA EmptyMap ==
    ASSUME NEW A, NEW B
    PROVE  <<>> \in Maps(A, B) /\ DOMAIN <<>> = {}
<1>1. <<>> \in [{} -> B]
  OBVIOUS
<1> QED
  BY <1>1 DEF Maps

LEMMA PutMap ==
    ASSUME NEW A, NEW B, NEW f \in Maps(A, B), NEW x \in A, NEW v \in B
    PROVE  /\ Put(f, x, v) \in Maps(A, B)
           /\ DOMAIN Put(f, x, v) = DOMAIN f \cup {x}
           /\ Put(f, x, v)[x] = v
           /\ \A y \in DOMAIN f : y # x => Put(f, x, v)[y] = f[y]
<1>1. DOMAIN f \subseteq A /\ \A y \in DOMAIN f : f[y] \in B
  BY MapAt
<1>2. Put(f, x, v) \in [DOMAIN f \cup {x} -> B]
  BY <1>1 DEF Put
<1> QED
  BY <1>1, <1>2 DEF Put, Maps

LEMMA RestrictMap ==
    ASSUME NEW A, NEW B, NEW f \in Maps(A, B), NEW D \in SUBSET DOMAIN f
    PROVE  /\ Restrict(f, D) \in Maps(A, B)
           /\ DOMAIN Restrict(f, D) = D
           /\ \A y \in D : Restrict(f, D)[y] = f[y]
<1>1. DOMAIN f \subseteq A /\ \A y \in DOMAIN f : f[y] \in B
  BY MapAt
<1>2. Restrict(f, D) \in [D -> B]
  BY <1>1 DEF Restrict
<1> QED
  BY <1>1, <1>2 DEF Restrict, Maps

------------------------------------------------------------------------------
(* The oldest keys.                                                        *)

(* A set of naturals has a least element.                                  *)
LEMMA Least ==
    ASSUME NEW S \in SUBSET Nat, S # {}
    PROVE  \E m \in S : \A y \in S : m <= y
<1> DEFINE R == OpToRel(<, Nat)
<1>1. IsWellFoundedOn(R, Nat)
  BY NatLessThanWellFounded, Zenon
<1>2. \A x, y \in Nat : <<y, x>> \notin R => x <= y
  BY DEF OpToRel
<1> HIDE DEF R
<1>3. PICK m \in S : \A y \in S : ~(<<y, m>> \in R)
  BY <1>1, WFMin
<1> QED
  BY <1>2, <1>3

IsOldest(keys, n, D) ==
    /\ D \in SUBSET DOMAIN keys /\ Cardinality(D) = n
    /\ \A k \in D, j \in DOMAIN keys \ D : keys[k] <= keys[j]

(* Where one more key is left, the oldest of the others joins.             *)
LEMMA OneMore ==
    ASSUME NEW keys \in Maps(Keys, Nat), NEW n \in Nat, NEW D, IsOldest(keys, n, D),
           n < Cardinality(DOMAIN keys)
    PROVE  \E E : IsOldest(keys, n + 1, E)
<1>1. DOMAIN keys \subseteq Keys /\ \A k \in DOMAIN keys : keys[k] \in Nat
  BY MapAt
<1>2. IsFiniteSet(DOMAIN keys)
  BY <1>1, FS_Subset, DetectorAssumption
<1>3. D \subseteq DOMAIN keys /\ Cardinality(D) = n /\ IsFiniteSet(D)
  BY <1>2, FS_Subset DEF IsOldest
<1>4. DOMAIN keys \ D # {}
  BY <1>3 DEF IsOldest
<1> DEFINE T == {keys[j] : j \in DOMAIN keys \ D}
<1>5. T \in SUBSET Nat /\ T # {}
  BY <1>1, <1>4
<1>6. PICK m \in T : \A y \in T : m <= y
  BY <1>5, Least
<1>7. PICK j \in DOMAIN keys \ D : keys[j] = m
  BY <1>6
<1>8. \A i \in DOMAIN keys \ D : keys[j] <= keys[i]
  BY <1>6, <1>7
<1>9. Cardinality(D \cup {j}) = n + 1
  BY <1>3, <1>7, FS_AddElement
<1> HIDE DEF T
<1>10. IsOldest(keys, n + 1, D \cup {j})
  BY <1>3, <1>7, <1>8, <1>9 DEF IsOldest
<1> QED
  BY <1>10

(* There are n oldest keys, whenever there are n keys.                     *)
LEMMA OldestExists ==
    ASSUME NEW keys \in Maps(Keys, Nat), NEW n \in Nat, n <= Cardinality(DOMAIN keys)
    PROVE  \E D : IsOldest(keys, n, D)
<1> DEFINE S == {i \in Nat : i <= Cardinality(DOMAIN keys) /\ ~ \E D : IsOldest(keys, i, D)}
<1> SUFFICES ASSUME S # {} PROVE FALSE
  OBVIOUS
<1>1. IsFiniteSet(DOMAIN keys) /\ Cardinality(DOMAIN keys) \in Nat
  BY MapAt, FS_Subset, FS_CardinalityType, DetectorAssumption
<1>2. PICK m \in S : \A y \in S : m <= y
<2>1. S \in SUBSET Nat
  OBVIOUS
<2> HIDE DEF S
<2> QED
  BY <2>1, Least
<1>3. m # 0
<2>1. IsOldest(keys, 0, {})
  BY FS_EmptySet DEF IsOldest
<2> QED
  BY <2>1
<1>4. m - 1 \in Nat /\ m - 1 < Cardinality(DOMAIN keys) /\ m - 1 \notin S
  BY <1>1, <1>2, <1>3
<1>5. PICK D : IsOldest(keys, m - 1, D)
  BY <1>1, <1>4
<1>6. \E E : IsOldest(keys, (m - 1) + 1, E)
  BY <1>4, <1>5, OneMore
<1>7. (m - 1) + 1 = m
  BY <1>2
<1> QED
  BY <1>2, <1>6, <1>7

(* Oldest is a set of n of the keys.                                       *)
LEMMA OldestIs ==
    ASSUME NEW keys \in Maps(Keys, Nat), NEW n \in Nat, n <= Cardinality(DOMAIN keys)
    PROVE  Oldest(keys, n) \in SUBSET DOMAIN keys /\ Cardinality(Oldest(keys, n)) = n
<1>1. PICK D : IsOldest(keys, n, D)
  BY OldestExists
<1>2. D \in kSubset(n, DOMAIN keys)
  BY <1>1 DEF IsOldest, kSubset
<1>3. \A k \in D, j \in DOMAIN keys \ D : keys[k] <= keys[j]
  BY <1>1 DEF IsOldest
<1>4. Oldest(keys, n) \in kSubset(n, DOMAIN keys)
  BY <1>2, <1>3 DEF Oldest
<1> QED
  BY <1>4 DEF kSubset

------------------------------------------------------------------------------
(* The reducers.                                                           *)

(* A reducer returns a detector state, whose last emission is the old one  *)
(* unless it raised a signal.                                              *)
Reduces(r, d, now) ==
    /\ r.state \in Detector
    /\ r.state.lastEmit \in {d.lastEmit, now}
    /\ r.signal # NoSignal => r.state.lastEmit = now

LEMMA EmitReduces ==
    ASSUME NEW d, NEW e \in Detector, NEW now \in Nat, NEW signal, e.lastEmit = d.lastEmit
    PROVE  /\ Reduces(Emit(e, signal, now), d, now)
           /\ Emit(e, signal, now).state.keys = e.keys
           /\ Emit(e, signal, now).state.lastSeen = e.lastSeen
  BY DEF Reduces, Emit, Detector

LEMMA SinceMap ==
    ASSUME NEW A, NEW keys \in Maps(A, Nat), NEW t \in Int
    PROVE  /\ Since(keys, t) \in Maps(A, Nat)
           /\ DOMAIN Since(keys, t) = {k \in DOMAIN keys : keys[k] >= t}
           /\ \A k \in DOMAIN Since(keys, t) : Since(keys, t)[k] = keys[k]
<1> DEFINE D == {k \in DOMAIN keys : keys[k] >= t}
<1>1. D \in SUBSET DOMAIN keys
  OBVIOUS
<1> HIDE DEF D
<1>2. /\ Restrict(keys, D) \in Maps(A, Nat)
      /\ DOMAIN Restrict(keys, D) = D
      /\ \A y \in D : Restrict(keys, D)[y] = keys[y]
  BY <1>1, RestrictMap
<1> QED
  BY <1>2 DEF Since, D

LEMMA KeysFinite ==
    ASSUME NEW keys \in Maps(Keys, Nat)
    PROVE  IsFiniteSet(DOMAIN keys) /\ Cardinality(DOMAIN keys) \in Nat
  BY MapAt, FS_Subset, FS_CardinalityType, DetectorAssumption

LEMMA WindowLocalReduces ==
    ASSUME NEW d \in Detector, NEW key \in Keys, NEW threshold \in Nat, NEW now \in Nat
    PROVE  Reduces(ObserveWindowLocal(d, key, threshold, now), d, now)
<1> DEFINE live == Since(d.keys, now - Window)
           e == [d EXCEPT !.keys = Put(live, key, now), !.lastSeen = now]
<1>1. d.keys \in Maps(Keys, Nat) /\ now - Window \in Int
  BY DetectorAssumption DEF Detector
<1>2. live \in Maps(Keys, Nat)
  BY <1>1, SinceMap
<1> HIDE DEF live
<1>3. Put(live, key, now) \in Maps(Keys, Nat)
  BY <1>2, PutMap
<1>4. e \in Detector /\ e.lastEmit = d.lastEmit
  BY <1>3 DEF Detector
<1> HIDE DEF e
<1>5. \A signal : Reduces(Emit(e, signal, now), d, now)
  BY <1>4, EmitReduces
<1> QED
  BY <1>5 DEF ObserveWindowLocal, e, live

LEMMA SprayReduces ==
    ASSUME NEW d \in Detector, NEW key \in Keys, NEW now \in Nat
    PROVE  Reduces(ObserveSpray(d, key, now), d, now)
<1> DEFINE live == Since(Put(d.keys, key, now), now - Window)
           older == {k \in DOMAIN live : live[k] < now}
           over == Min({Cardinality(older), Max({0, Cardinality(DOMAIN live) - MaxKeys})})
           kept == Restrict(live, DOMAIN live \ Oldest(live, over))
           e == [d EXCEPT !.keys = kept, !.lastSeen = now]
<1>1. d.keys \in Maps(Keys, Nat) /\ now - Window \in Int
  BY DetectorAssumption DEF Detector
<1>2. Put(d.keys, key, now) \in Maps(Keys, Nat)
  BY <1>1, PutMap
<1>3. live \in Maps(Keys, Nat)
  BY <1>1, <1>2, SinceMap
<1> HIDE DEF live, over, older
<1>4. DOMAIN live \ Oldest(live, over) \in SUBSET DOMAIN live
  OBVIOUS
<1>5. kept \in Maps(Keys, Nat)
  BY <1>3, <1>4, RestrictMap
<1> HIDE DEF kept
<1>6. e \in Detector /\ e.lastEmit = d.lastEmit
  BY <1>5 DEF Detector
<1> HIDE DEF e
<1>7. \A signal : Reduces(Emit(e, signal, now), d, now)
  BY <1>6, EmitReduces
<1> DEFINE raised == Cardinality(DOMAIN kept) > WindowThreshold /\ Cooled(d, now)
<1> HIDE DEF raised
<1>8. ObserveSpray(d, key, now) = Emit(e, IF raised THEN "over" ELSE NoSignal, now)
  BY Zenon DEF ObserveSpray, e, kept, over, older, live, raised
<1> QED
  BY <1>7, <1>8

(* What the transaction of the cluster does with a key: the rows that are  *)
(* left are live ones and that of the key, and a new key over the          *)
(* threshold raises the signal.                                            *)
LEMMA WindowSharedReduces ==
    ASSUME mode \in Modes, NEW d \in Detector, NEW key \in Keys, NEW now \in Nat
    PROVE  LET r == ObserveWindowShared(d, key, now)
           IN  /\ Reduces(r, d, now)
               /\ r.state.lastSeen = now
               /\ \A k \in DOMAIN r.state.keys \ {key} : k \in DOMAIN d.keys /\ d.keys[k] > now - Window
               /\ \A k \in DOMAIN r.state.keys : r.state.keys[k] = IF k = key THEN now ELSE d.keys[k]
               /\ \A recent \in SUBSET DOMAIN d.keys :
                     /\ \A k \in recent : d.keys[k] > now - Window
                     /\ ~(key \in DOMAIN d.keys /\ d.keys[key] > now - Window)
                     /\ Cardinality(recent) >= WindowThreshold
                     /\ Cooled(d, now)
                     => r.state.lastEmit = now
<1> DEFINE live == Since(d.keys, now - Window + 1)
           rows == Put(live, key, now)
           n == Min({MaxKeys, Cardinality(DOMAIN rows)})
           kept == Restrict(rows, Oldest(rows, n))
           e == [d EXCEPT !.keys = kept, !.lastSeen = now]
<1>1. d.keys \in Maps(Keys, Nat) /\ now - Window + 1 \in Int
  BY DetectorAssumption DEF Detector
<1>2. /\ live \in Maps(Keys, Nat)
      /\ DOMAIN live = {k \in DOMAIN d.keys : d.keys[k] >= now - Window + 1}
      /\ \A k \in DOMAIN live : live[k] = d.keys[k]
  BY <1>1, SinceMap
<1> HIDE DEF live
<1>3. /\ rows \in Maps(Keys, Nat)
      /\ DOMAIN rows = DOMAIN live \cup {key}
      /\ rows[key] = now
      /\ \A k \in DOMAIN live : k # key => rows[k] = live[k]
<2>1. live \in Maps(Keys, Nat)
  BY <1>2
<2>2. rows \in Maps(Keys, Nat)
  BY <2>1, PutMap
<2>3. DOMAIN rows = DOMAIN live \cup {key}
  BY DEF Put
<2>4. rows[key] = now
  BY DEF Put
<2>5. \A k \in DOMAIN live : k # key => rows[k] = live[k]
  BY DEF Put
<2> QED
  BY <2>2, <2>3, <2>4, <2>5
<1> HIDE DEF rows
<1>4. MaxKeys \in Nat /\ Cardinality(DOMAIN rows) \in Nat /\ IsFiniteSet(DOMAIN live)
  BY <1>2, <1>3, KeysFinite, DetectorAssumption
<1>5. n \in Nat /\ n <= Cardinality(DOMAIN rows) /\ (n = MaxKeys \/ n = Cardinality(DOMAIN rows))
  BY <1>4 DEF Min
<1> HIDE DEF n
<1>6. Oldest(rows, n) \in SUBSET DOMAIN rows /\ Cardinality(Oldest(rows, n)) = n
  BY <1>3, <1>5, OldestIs
<1>7. /\ kept \in Maps(Keys, Nat)
      /\ DOMAIN kept = Oldest(rows, n)
      /\ \A k \in DOMAIN kept : kept[k] = rows[k]
  BY <1>3, <1>6, RestrictMap
<1> HIDE DEF kept
<1>8. e \in Detector /\ e.lastEmit = d.lastEmit /\ e.keys = kept /\ e.lastSeen = now
  BY <1>7 DEF Detector
<1> DEFINE raised == /\ key \notin DOMAIN live
                     /\ Cardinality(DOMAIN kept) > WindowThreshold
                     /\ Cooled(d, now)
           r == Emit(e, IF raised THEN "over" ELSE NoSignal, now)
<1> HIDE DEF e, raised
<1>9. Reduces(r, d, now) /\ r.state.keys = kept /\ r.state.lastSeen = now
  BY <1>8, EmitReduces
<1>10. ObserveWindowShared(d, key, now) = r
  BY DEF ObserveWindowShared, e, kept, rows, live, n, raised
<1>11. \A k \in DOMAIN kept \ {key} : k \in DOMAIN d.keys /\ d.keys[k] > now - Window
<2>1. \A k \in DOMAIN d.keys : d.keys[k] \in Nat
  BY <1>1, MapAt
<2> QED
  BY <1>2, <1>3, <1>6, <1>7, <2>1, DetectorAssumption
<1>12. \A k \in DOMAIN kept : kept[k] = IF k = key THEN now ELSE d.keys[k]
  BY <1>2, <1>3, <1>6, <1>7
<1>13. ASSUME NEW recent \in SUBSET DOMAIN d.keys,
              \A k \in recent : d.keys[k] > now - Window,
              ~(key \in DOMAIN d.keys /\ d.keys[key] > now - Window),
              Cardinality(recent) >= WindowThreshold,
              Cooled(d, now)
       PROVE  r.state.lastEmit = now
<2>1. recent \subseteq DOMAIN live /\ key \notin DOMAIN live
<3>1. \A k \in DOMAIN d.keys : d.keys[k] \in Nat
  BY <1>1, MapAt
<3> QED
  BY <1>2, <1>13, <3>1, DetectorAssumption
<2>2. Cardinality(recent) <= Cardinality(DOMAIN live) /\ Cardinality(recent) \in Nat
  BY <1>4, <2>1, FS_Subset, FS_CardinalityType
<2>3. Cardinality(DOMAIN rows) = Cardinality(DOMAIN live) + 1 /\ Cardinality(DOMAIN live) \in Nat
  BY <1>3, <1>4, <2>1, FS_AddElement, FS_CardinalityType
<2>4. WindowThreshold \in Nat /\ MaxKeys > WindowThreshold
  BY DetectorAssumption DEF WindowThreshold
<2>5. n > WindowThreshold
  BY <1>4, <1>5, <1>13, <2>2, <2>3, <2>4
<2>6. raised
  BY <1>6, <1>7, <1>13, <2>1, <2>5 DEF raised
<2> QED
  BY <1>9, <2>6 DEF Reduces, Emit, NoSignal
<1> HIDE DEF r
<1> QED
  BY <1>9, <1>10, <1>11, <1>12, <1>13

(* Averages are integers; the reducers keep them so.                       *)
LEMMA LearnTyped ==
    ASSUME NEW d \in Detector, NEW v \in Nat, NEW now \in Nat
    PROVE  /\ Learn(d, v, now) \in Detector /\ Learn(d, v, now).lastEmit = d.lastEmit
           /\ Scale * v \in Int /\ Blend(d.ema, v) \in Int
<1>1. Scale * v \in Int /\ d.ema \in Int
  BY DetectorAssumption DEF Detector
<1>2. Blend(d.ema, v) \in Int
<2>1. 3 * Scale * v \in Int
  BY DetectorAssumption
<2>2. 3 * Scale * v + 7 * d.ema \in Int
  BY <1>1, <2>1
<2>3. \A x \in Int : x \div 10 \in Int
  OBVIOUS
<2> QED
  BY <2>2, <2>3 DEF Blend
<1> DEFINE ema == IF d.samples = 0 THEN Scale * v ELSE Blend(d.ema, v)
           n == d.samples + 1
           e == [d EXCEPT !.samples = n, !.lastSeen = now, !.ema = ema]
<1>3. Learn(d, v, now) = e
  BY DEF Learn
<1>4. ema \in Int /\ n \in Nat
  BY <1>1, <1>2 DEF Detector
<1> HIDE DEF ema, n
<1>5. e \in Detector /\ e.lastEmit = d.lastEmit
  BY <1>4 DEF Detector
<1> QED
  BY <1>1, <1>2, <1>3, <1>5

LEMMA VelocityReduces ==
    ASSUME NEW d \in Detector, NEW v \in Nat, NEW now \in Nat
    PROVE  Reduces(CheckVelocity(d, v, now), d, now)
<1> DEFINE e == Learn(d, v, now)
<1>1. e \in Detector /\ e.lastEmit = d.lastEmit
  BY LearnTyped
<1> HIDE DEF e
<1>2. \A signal : Reduces(Emit(e, signal, now), d, now)
  BY <1>1, EmitReduces
<1> QED
  BY <1>2 DEF CheckVelocity, e

(* The floor takes the signal away and nothing else.                       *)
LEMMA CompletionReduces ==
    ASSUME NEW d \in Detector, NEW v \in Nat, NEW now \in Nat
    PROVE  Reduces(ReduceCompletion(d, v, now), d, now)
<1> DEFINE r == CheckVelocity(d, v, now)
           q == ReduceCompletion(d, v, now)
<1>1. Reduces(r, d, now)
  BY VelocityReduces
<1>2. q.state = r.state /\ q.signal \in {r.signal, NoSignal}
  BY DEF ReduceCompletion, CheckVelocity, Emit
<1> HIDE DEF q, r
<1>3. Reduces(q, d, now)
  BY <1>1, <1>2 DEF Reduces
<1> QED
  BY <1>3 DEF q

LEMMA ConcurrencyReduces ==
    ASSUME NEW d \in Detector, NEW v \in Nat, NEW now \in Nat
    PROVE  Reduces(CheckConcurrencyVelocity(d, v, now), d, now)
<1> DEFINE learnt == Learn(d, v, now)
           next == IF Established(d) /\ Scale * v >= 2 * d.ema
                   THEN [learnt EXCEPT !.ema = d.ema] ELSE learnt
<1>1. next \in Detector /\ next.lastEmit = d.lastEmit
<2>1. learnt \in Detector /\ learnt.lastEmit = d.lastEmit
  BY LearnTyped
<2> HIDE DEF learnt
<2> QED
  BY <2>1 DEF Detector
<1> HIDE DEF next
<1>2. \A signal : Reduces(Emit(next, signal, now), d, now)
  BY <1>1, EmitReduces
<1> QED
  BY <1>2 DEF CheckConcurrencyVelocity, next

LEMMA BaselineReduces ==
    ASSUME NEW d \in Detector, NEW v \in Nat, NEW now \in Nat
    PROVE  Reduces(ObserveBaselineShared(d, v, now), d, now)
<1> DEFINE n == d.samples + 1
           ema == IF n < 3 \/ d.ema <= 0 THEN (IF n = 1 THEN Scale * v ELSE Blend(d.ema, v))
                  ELSE IF Kind # "concurrency" \/ Scale * v < 2 * d.ema THEN Blend(d.ema, v)
                  ELSE d.ema
           e == [d EXCEPT !.samples = n, !.ema = ema, !.lastSeen = now]
<1>1. ema \in Int /\ n \in Nat
<2>1. Scale * v \in Int /\ Blend(d.ema, v) \in Int /\ d.ema \in Int /\ d.samples \in Nat
  BY LearnTyped DEF Detector
<2> QED
  BY <2>1
<1> HIDE DEF ema, n
<1>2. e \in Detector /\ e.lastEmit = d.lastEmit
  BY <1>1 DEF Detector
<1> HIDE DEF e
<1>3. \A signal : Reduces(Emit(e, signal, now), d, now)
  BY <1>2, EmitReduces
<1> QED
  BY <1>3 DEF ObserveBaselineShared, e, ema, n

(* An observation of this behaviour's kind.                                *)
LEMMA ObservationTyped ==
    ASSUME mode \in Modes, NEW o \in Observations
    PROVE  /\ IsWindow => o \in Keys
           /\ ~IsWindow => o \in Nat
           /\ Kind \in {"novelty", "enumeration", "spray", "invalid", "concurrency", "token", "cost"}
           /\ Deployment \in {"standalone", "cluster"}
  BY DetectorAssumption DEF Observations, Kind, Deployment

LEMMA ReduceReduces ==
    ASSUME mode \in Modes, NEW o \in Observations, NEW d \in Detector, NEW now \in Nat
    PROVE  Reduces(Reduce(d, o, now), d, now)
<1>0. Threshold \in Nat /\ 1 \in Nat
  BY DetectorAssumption
<1>1. CASE Deployment = "standalone"
<2>1. Reduce(d, o, now) = ReduceLocal(d, o, now)
  BY <1>1 DEF Reduce
<2>2. CASE Kind = "novelty"
  BY <1>0, <2>1, <2>2, ObservationTyped, WindowLocalReduces DEF ReduceLocal, ReduceNovelty, IsWindow
<2>3. CASE Kind = "enumeration"
  BY <1>0, <2>1, <2>3, ObservationTyped, WindowLocalReduces DEF ReduceLocal, ReduceEnumeration, IsWindow
<2>4. CASE Kind \in {"spray", "invalid"}
  BY <2>1, <2>4, ObservationTyped, SprayReduces DEF ReduceLocal, IsWindow
<2>5. CASE Kind = "concurrency"
  BY <2>1, <2>5, ObservationTyped, ConcurrencyReduces DEF ReduceLocal, ReduceConcurrency, IsWindow
<2>6. CASE Kind \in {"token", "cost"}
  BY <2>1, <2>6, ObservationTyped, CompletionReduces DEF ReduceLocal, IsWindow
<2> QED
  BY <2>2, <2>3, <2>4, <2>5, <2>6, ObservationTyped
<1>2. CASE Deployment # "standalone"
<2>1. CASE IsWindow
  BY <1>2, <2>1, ObservationTyped, WindowSharedReduces DEF Reduce, ReduceShared
<2>2. CASE ~IsWindow
  BY <1>2, <2>2, ObservationTyped, BaselineReduces DEF Reduce, ReduceShared
<2> QED
  BY <2>1, <2>2
<1> QED
  BY <1>1, <1>2

(* Both reducers of an average do the same, but for the cooldown of a cost *)
(* below the floor.                                                        *)
Agree(local, shared, v) ==
    /\ local.signal = shared.signal
    /\ [local.state EXCEPT !.lastEmit = Never] = [shared.state EXCEPT !.lastEmit = Never]
    /\ local.state.lastEmit = shared.state.lastEmit \/ BelowFloor(v)

LEMMA Agreement ==
    ASSUME mode \in Modes, ~IsWindow, NEW d \in Detector, NEW v \in Nat, NEW now \in Nat
    PROVE  Agree(ReduceLocal(d, v, now), ObserveBaselineShared(d, v, now), v)
<1> DEFINE B == Blend(d.ema, v)
           V == Scale * v
           X == Exceeds(d, v)
<1>1. V \in Int /\ B \in Int /\ d.ema \in Int /\ d.samples \in Nat /\ d.lastEmit \in Nat
  BY LearnTyped DEF Detector
<1>2. Cooldown \in Nat
  BY DetectorAssumption
<1>3. Kind \in {"concurrency", "token", "cost"}
  BY DetectorAssumption DEF Kind, IsWindow
<1>4. DOMAIN d = {"keys", "ema", "samples", "lastSeen", "lastEmit"}
  BY DEF Detector
<1> DEFINE est == d.samples + 1 >= 3 /\ d.ema > 0
           cool == d.lastEmit = Never \/ now - d.lastEmit >= Cooldown
           crossed == IF est /\ cool THEN X ELSE NoSignal
           blended == IF d.samples = 0 THEN V ELSE B
           learnt == [d EXCEPT !.samples = d.samples + 1, !.lastSeen = now, !.ema = blended]
           ramp == [d EXCEPT !.samples = d.samples + 1, !.ema = d.ema, !.lastSeen = now]
<1>5. Learn(d, v, now) = learnt
  BY DEF Learn
<1>6. Crossed(d, v, now) = crossed
  BY DEF Crossed, Established, Cooled
<1> DEFINE ema == IF d.samples + 1 < 3 \/ d.ema <= 0 THEN (IF d.samples + 1 = 1 THEN V ELSE B)
                  ELSE IF Kind # "concurrency" \/ V < 2 * d.ema THEN B ELSE d.ema
           signal == IF d.lastEmit # Never /\ now - d.lastEmit < Cooldown THEN NoSignal
                     ELSE IF est /\ ~BelowFloor(v) THEN X ELSE NoSignal
           shared == [d EXCEPT !.samples = d.samples + 1, !.ema = ema, !.lastSeen = now]
<1>7. ObserveBaselineShared(d, v, now) = Emit(shared, signal, now)
<2>1. est /\ ~BelowFloor(v) <=> d.samples + 1 >= 3 /\ d.ema > 0 /\ ~BelowFloor(v)
  OBVIOUS
<2> QED
  BY <2>1 DEF ObserveBaselineShared
<1>8. signal = IF BelowFloor(v) THEN NoSignal ELSE crossed
<2> HIDE DEF X
<2> QED
  BY <1>1, <1>2
<1>9. CASE Kind \in {"token", "cost"}
<2>1. ReduceLocal(d, v, now) = [Emit(learnt, crossed, now) EXCEPT !.signal = IF BelowFloor(v) THEN NoSignal ELSE @]
  BY <1>5, <1>6, <1>9 DEF ReduceLocal, ReduceCompletion, CheckVelocity
<2>2. ema = blended
<3> HIDE DEF V, B
<3> QED
  BY <1>1, <1>9
<2>3. learnt = shared
<3> HIDE DEF ema, blended
<3> QED
  BY <2>2
<2>4. learnt \in Detector
  BY <1>5, LearnTyped
<2> DEFINE local == Emit(learnt, crossed, now)
<2> HIDE DEF learnt, shared, crossed, signal
<2>5. /\ local.signal = crossed
      /\ local.state = IF crossed = NoSignal THEN learnt ELSE [learnt EXCEPT !.lastEmit = now]
      /\ local = [state |-> local.state, signal |-> crossed]
  BY DEF Emit
<2>6. /\ Emit(shared, signal, now).signal = signal
      /\ Emit(shared, signal, now).state = IF signal = NoSignal THEN learnt ELSE [learnt EXCEPT !.lastEmit = now]
  BY <2>3 DEF Emit
<2> DEFINE stripped == [learnt EXCEPT !.lastEmit = Never]
<2>7. /\ [[learnt EXCEPT !.lastEmit = now] EXCEPT !.lastEmit = Never] = stripped
      /\ learnt.lastEmit = learnt.lastEmit
  BY <2>4 DEF Detector
<2>8. [local.state EXCEPT !.lastEmit = Never] = stripped
      /\ [Emit(shared, signal, now).state EXCEPT !.lastEmit = Never] = stripped
<3> HIDE DEF local, stripped
<3>1. CASE local.state = learnt
  BY <2>5, <2>6, <2>7, <3>1 DEF stripped
<3>2. CASE local.state # learnt
  BY <2>5, <2>6, <2>7, <3>2 DEF stripped
<3> QED
  BY <3>1, <3>2
<2>9. [local EXCEPT !.signal = IF BelowFloor(v) THEN NoSignal ELSE @].state = local.state
      /\ [local EXCEPT !.signal = IF BelowFloor(v) THEN NoSignal ELSE @].signal = signal
<3> HIDE DEF local
<3> QED
  BY <1>8, <2>5
<2>10. ~BelowFloor(v) => local.state = Emit(shared, signal, now).state
  BY <1>8, <2>5, <2>6
<2> HIDE DEF local, stripped
<2> QED
  BY <1>7, <2>1, <2>6, <2>8, <2>9, <2>10 DEF Agree, local
<1>10. CASE Kind = "concurrency"
<2> DEFINE next == IF est /\ V >= 2 * d.ema THEN [learnt EXCEPT !.ema = d.ema] ELSE learnt
<2>0. ~BelowFloor(v) /\ signal = crossed
  BY <1>8, <1>10 DEF BelowFloor
<2>1. ReduceLocal(d, v, now) = Emit(next, crossed, now)
  BY <1>5, <1>6, <1>10 DEF ReduceLocal, ReduceConcurrency, CheckConcurrencyVelocity, Established
<2>4. next = shared
<3>1. CASE est /\ V >= 2 * d.ema
<4>1. ema = d.ema
<5> HIDE DEF V, B
<5> QED
  BY <1>1, <1>10, <3>1
<4> HIDE DEF ema, blended
<4>2. next = [learnt EXCEPT !.ema = d.ema]
  BY <3>1
<4> QED
  BY <1>4, <4>1, <4>2
<3>2. CASE ~(est /\ V >= 2 * d.ema)
<4>1. ema = blended
<5> HIDE DEF V, B
<5> QED
  BY <1>1, <1>10, <3>2
<4>2. next = learnt
  BY <3>2
<4> HIDE DEF ema, blended
<4> QED
  BY <4>1, <4>2
<3> QED
  BY <3>1, <3>2
<2> HIDE DEF next, shared, signal, crossed
<2>5. ReduceLocal(d, v, now) = ObserveBaselineShared(d, v, now)
  BY <1>7, <2>0, <2>1, <2>4
<2> QED
  BY <2>5 DEF Agree
<1> QED
  BY <1>3, <1>9, <1>10

------------------------------------------------------------------------------
(* The inductive invariant.                                                *)

Has(table, s, t) == s \in DOMAIN table /\ table[s].lastEmit >= t

(* No emission lies in the future.                                         *)
Past ==
    /\ \A s \in DOMAIN state : state[s].lastEmit <= clock
    /\ \A s \in DOMAIN saved : saved[s].lastEmit <= clock
    /\ \A s \in DOMAIN flush.copy : flush.copy[s].lastEmit <= clock

(* Which steps a deployment has.                                           *)
Deployed ==
    /\ Deployment = "standalone" => \A c \in Calls : call[c].pc # "commit"
    /\ Deployment = "cluster" =>
          /\ process = "up" /\ flush.pc = "none"
          /\ \A c \in Calls : call[c].pc \in {"idle", "commit"}
          /\ \A s \in Subjects : acked[s] = Never

(* Who holds flushMu, and which processes still serve.                     *)
Holding ==
    /\ process # "up" => \A c \in Calls : call[c] = IdleCall
    /\ process = "down" => flush.pc = "none"
    /\ flush.pc # "none" =>
          /\ \A f \in Calls : flush.by = f => call[f].pc = "flush"
          /\ flush.by = "closer" => process = "closing"

(* Between two flushes, and between the snapshot of a flush and its save,  *)
(* what is not dirty is what is saved, or about to be.                     *)
Current ==
    /\ Deployment = "standalone" /\ process # "down"
    /\ ~dirty
    /\ \A c \in Calls : call[c].pc # "mark"
    => /\ flush.pc = "none" => saved = state
       /\ flush.pc = "save" => flush.copy = state

Signalled(f) == IF call[f].pc = "mark" THEN call[f].then ELSE call[f]

(* A signal that has not been flushed is in the detector, and in the       *)
(* checkpoint, or the copy on its way there, once the flag is clear again. *)
SignalHeld ==
    \A f \in Calls \ evicted :
        LET m == Signalled(f)
        IN  /\ m.pc = "flush" => Has(state, m.subject, m.at)
            /\ call[f].pc = "flush" /\ ~dirty /\ flush.pc = "none" => Has(saved, m.subject, m.at)
            /\ call[f].pc = "flush" /\ flush.pc = "save" /\ (~dirty \/ flush.by = f)
                  => Has(flush.copy, m.subject, m.at)

(* So is one that was, until its subject is evicted.                       *)
AckedHeld ==
    \A s \in Subjects : acked[s] # Never =>
        /\ Has(saved, s, acked[s])
        /\ process # "down" => Has(state, s, acked[s])
        /\ flush.pc = "save" => Has(flush.copy, s, acked[s])

KeysOf(s) == IF s \in DOMAIN state THEN state[s].keys ELSE <<>>

(* What was presented is in the rows, which are less than a refresh        *)
(* interval older, or too long ago to count.                               *)
Covers(rows, told, now) ==
    \A k \in DOMAIN told :
        \/ k \in DOMAIN rows /\ told[k] < rows[k] + Refresh
        \/ told[k] < now - (Window - Refresh)

(* A live row was presented, no earlier.                                   *)
Asks(rows, told, now) ==
    \A k \in DOMAIN rows : rows[k] > now - Window => k \in DOMAIN told /\ rows[k] <= told[k]

(* No row is newer than its subject, which is not of the future.           *)
Before(d, now) == d.lastSeen <= now /\ \A k \in DOMAIN d.keys : d.keys[k] <= d.lastSeen

(* A gate that dropped a repeat since the row was written passed the key   *)
(* before that.                                                            *)
GatesBehind ==
    /\ \A n \in Nodes : \A p \in DOMAIN gate[n] : gate[n][p] <= clock
    /\ \A n \in Nodes, s \in Subjects, o \in Observations :
          Recorded(n, s, o) => Passed(n, s, o) <= state[s].keys[o]

Tracked ==
    /\ \A s \in Subjects : Covers(KeysOf(s), asked[s], clock) /\ Asks(KeysOf(s), asked[s], clock)
    /\ \A s \in DOMAIN state : Before(state[s], clock)
    /\ GatesBehind

(* The windows of the cluster.                                             *)
ClusterInv == Deployment = "cluster" /\ IsWindow => Tracked

IInv ==
    /\ TypeOK /\ Past /\ Deployed /\ Holding
    /\ Current /\ SignalHeld /\ AckedHeld /\ ClusterInv

------------------------------------------------------------------------------
(* Observations.                                                           *)

LEMMA RoomIs ==
    ASSUME TypeOK, NEW s \in Subjects
    PROVE  /\ Room(s) \in Table
           /\ DOMAIN Room(s) \subseteq DOMAIN state
           /\ \A t \in DOMAIN Room(s) : Room(s)[t] = state[t]
           /\ s \in DOMAIN state => s \in DOMAIN Room(s)
<1>0. state \in Maps(Subjects, Detector)
  BY DEF TypeOK, Table
<1>1. CASE Room(s) = state
  BY <1>1 DEF TypeOK
<1>2. CASE Room(s) # state
<2> DEFINE D == DOMAIN state \ {Coldest(state)}
<2>1. Room(s) = Restrict(state, D) /\ s \notin DOMAIN state
  BY <1>2 DEF Room
<2>2. D \in SUBSET DOMAIN state
  OBVIOUS
<2> HIDE DEF D
<2>3. /\ Restrict(state, D) \in Maps(Subjects, Detector)
      /\ DOMAIN Restrict(state, D) = D
      /\ \A t \in D : Restrict(state, D)[t] = state[t]
  BY <1>0, <2>2, RestrictMap
<2> QED
  BY <2>1, <2>2, <2>3 DEF Table
<1> QED
  BY <1>1, <1>2

LEMMA EntryTyped ==
    ASSUME NEW table \in Table
    PROVE  /\ DOMAIN table \subseteq Subjects
           /\ \A t \in DOMAIN table :
                 table[t] \in Detector /\ table[t].lastEmit \in Nat /\ table[t].keys \in Maps(Keys, Nat)
<1>1. DOMAIN table \subseteq Subjects /\ \A t \in DOMAIN table : table[t] \in Detector
  BY MapAt DEF Table
<1> QED
  BY <1>1 DEF Detector

LEMMA FreshTyped == Fresh \in Detector /\ Fresh.lastEmit = 0 /\ Fresh.keys = <<>>
<1>1. <<>> \in Maps(Keys, Nat)
  BY EmptyMap
<1> QED
  BY <1>1 DEF Fresh, Detector, Never

(* What the detector has of a subject.                                     *)
Known(s) == IF s \in DOMAIN state THEN state[s] ELSE Fresh

LEMMA ObservedIs ==
    ASSUME TypeOK, Past, NEW s \in Subjects, NEW o \in Observations
    PROVE  /\ Observed(s, o) = Reduce(Known(s), o, clock)
           /\ Known(s) \in Detector /\ Known(s).lastEmit <= clock
           /\ Reduces(Observed(s, o), Known(s), clock)
<1>1. state \in Maps(Subjects, Detector) /\ clock \in Nat /\ mode \in Modes
  BY DEF TypeOK, Table
<1>2. \A t \in DOMAIN state : state[t] \in Detector
  BY <1>1, MapAt
<1>3. Known(s) \in Detector /\ Known(s).lastEmit <= clock
  BY <1>1, <1>2, FreshTyped DEF Known, Past
<1>4. Observed(s, o) = Reduce(Known(s), o, clock)
  BY RoomIs DEF Observed, Known
<1>5. Reduces(Observed(s, o), Known(s), clock)
  BY <1>1, <1>3, <1>4, ReduceReduces
<1> QED
  BY <1>3, <1>4, <1>5

(* One observation changes one subject; the others stay or are evicted,    *)
(* and no emission is forgotten.                                           *)
LEMMA ApplyDoes ==
    ASSUME TypeOK, Past, NEW s \in Subjects, NEW o \in Observations, Apply(s, o)
    PROVE  /\ state' \in Table /\ acked' \in [Subjects -> Nat] /\ evicted' \subseteq Calls
           /\ s \in DOMAIN state' /\ DOMAIN state' \subseteq DOMAIN state \cup {s}
           /\ state'[s] = Observed(s, o).state
           /\ \A t \in DOMAIN state' : state'[t].lastEmit <= clock
           /\ \A t \in DOMAIN state' : t # s => state'[t] = state[t]
           /\ \A t \in DOMAIN state \cap DOMAIN state' : state'[t].lastEmit >= state[t].lastEmit
           /\ Observed(s, o).signal # NoSignal => Has(state', s, clock)
           /\ \A t \in Subjects : acked'[t] = IF t \in DOMAIN state' THEN acked[t] ELSE Never
           /\ evicted' = evicted \cup {c \in Calls : \E t \in DOMAIN state \ DOMAIN state' : Owes(call[c], t)}
<1> DEFINE d == Observed(s, o).state
<1>1. d \in Detector /\ d.lastEmit \in {Known(s).lastEmit, clock}
      /\ (Observed(s, o).signal # NoSignal => d.lastEmit = clock)
  BY ObservedIs DEF Reduces
<1>2. Known(s) \in Detector /\ Known(s).lastEmit <= clock /\ Known(s).lastEmit \in Nat
  BY ObservedIs DEF Detector
<1>3. /\ Room(s) \in Maps(Subjects, Detector)
      /\ DOMAIN Room(s) \subseteq DOMAIN state
      /\ \A t \in DOMAIN Room(s) : Room(s)[t] = state[t]
  BY RoomIs DEF Table
<1> HIDE DEF d
<1>4. state' = Put(Room(s), s, d)
  BY DEF Apply, d
<1>5. state' \in Maps(Subjects, Detector)
  BY <1>1, <1>3, <1>4, PutMap
<1>6. DOMAIN state' = DOMAIN Room(s) \cup {s} /\ state'[s] = d
      /\ \A t \in DOMAIN Room(s) : t # s => state'[t] = Room(s)[t]
  BY <1>4 DEF Put
<1>7. clock \in Nat
  BY DEF TypeOK
<1>8. \A t \in DOMAIN state : state[t] \in Detector /\ state[t].lastEmit \in Nat
  BY EntryTyped DEF TypeOK
<1>9. \A t \in DOMAIN state' : state'[t].lastEmit <= clock
<2>1. d.lastEmit <= clock
  BY <1>1, <1>2, <1>7
<2> QED
  BY <1>3, <1>6, <2>1 DEF Past
<1>10. \A t \in DOMAIN state \cap DOMAIN state' : state'[t].lastEmit >= state[t].lastEmit
<2> TAKE t \in DOMAIN state \cap DOMAIN state'
<2>1. CASE t = s
  BY <1>1, <1>2, <1>6, <1>7, <2>1 DEF Known
<2>2. CASE t # s
  BY <1>3, <1>6, <1>8, <2>2
<2> QED
  BY <2>1, <2>2
<1>11. acked' \in [Subjects -> Nat]
       /\ \A t \in Subjects : acked'[t] = IF t \in DOMAIN state' THEN acked[t] ELSE Never
  BY DEF Apply, TypeOK, Never
<1>12. evicted' = evicted \cup {c \in Calls : \E t \in DOMAIN state \ DOMAIN state' : Owes(call[c], t)}
       /\ evicted' \subseteq Calls
  BY DEF Apply, TypeOK
<1>13. Observed(s, o).signal # NoSignal => Has(state', s, clock)
  BY <1>1, <1>6, <1>7 DEF Has
<1> QED
  BY <1>3, <1>5, <1>6, <1>9, <1>10, <1>11, <1>12, <1>13 DEF Table, d

(* A mark is a mark.                                                       *)
LEMMA MarkedIs ==
    ASSUME TypeOK, NEW s \in Subjects, NEW raised \in BOOLEAN
    PROVE  /\ Marked(s, raised) \in Marks /\ Marked(s, raised).pc \in {"idle", "flush"}
           /\ Marked(s, raised).pc = "flush" =>
                 raised /\ Marked(s, raised).subject = s /\ Marked(s, raised).at = clock
  BY DEF Marked, Marks, IdleCall, TypeOK

(* What is in progress.                                                    *)
LEMMA ProgressIs ==
    ASSUME TypeOK, NEW f \in Calls
    PROVE  /\ call[f] \in Progress
           /\ call[f].pc \in {"idle", "flush", "mark", "commit"}
           /\ Signalled(f).pc = "flush" =>
                 /\ Signalled(f).subject \in Subjects /\ Signalled(f).at \in Nat
                 /\ Owes(call[f], Signalled(f).subject)
           /\ call[f].pc = "flush" =>
                 Signalled(f) = call[f] /\ call[f].subject \in Subjects /\ call[f].at \in Nat
           /\ call[f].pc = "mark" => call[f].then \in Marks
           /\ call[f].pc = "commit" =>
                 call[f].subject \in Subjects /\ call[f].of \in Observations /\ call[f].through \subseteq Nodes
           /\ call[f].pc = "idle" => call[f] = IdleCall
<1>1. call[f] \in Progress
  BY DEF TypeOK
<1>2. \A m \in Marks : /\ m.pc \in {"idle", "flush"} /\ (m.pc = "idle" => m = IdleCall)
                       /\ m.pc = "flush" => m.subject \in Subjects /\ m.at \in Nat
  BY DEF Marks, IdleCall
<1>3. CASE call[f] \in Marks
  BY <1>1, <1>2, <1>3 DEF Signalled, Owes
<1>4. CASE call[f] \in [pc : {"mark"}, then : Marks]
<2>1. call[f].pc = "mark" /\ call[f].then \in Marks
  BY <1>4
<2> QED
  BY <1>1, <1>2, <2>1 DEF Signalled, Owes
<1>5. CASE call[f] \in [pc : {"commit"}, subject : Subjects, of : Observations, through : SUBSET Nodes]
  BY <1>1, <1>5 DEF Signalled
<1> QED
  BY <1>1, <1>3, <1>4, <1>5 DEF Progress

(* The parts of the type invariant, for the steps below.                   *)
LEMMA Kept ==
    ASSUME UNCHANGED mode
    PROVE  /\ Deployment' = Deployment /\ Kind' = Kind /\ IsWindow' = IsWindow
           /\ Observations' = Observations /\ Progress' = Progress
  BY DEF Deployment, Kind, IsWindow, Observations, Progress

LEMMA LocalStep ==
    ASSUME IInv, NEW c \in Calls, NEW s \in Subjects, NEW o \in Observations,
           Observation(c, s, o), Unmarked(c, s, o) \/ PersistLocked(c, s, o)
    PROVE  IInv'
<1> DEFINE m == Marked(s, Observed(s, o).signal # NoSignal)
<1>1. /\ TypeOK /\ Past /\ Deployed /\ Holding /\ SignalHeld /\ AckedHeld
  BY DEF IInv
<1>2. /\ Deployment = "standalone" /\ process = "up" /\ call[c].pc = "idle"
      /\ Apply(s, o)
      /\ UNCHANGED <<mode, clock, saved, failed, process, flush, gate, asked, lost>>
  BY DEF Observation
<1>3. /\ state' \in Table /\ acked' \in [Subjects -> Nat] /\ evicted' \subseteq Calls
      /\ s \in DOMAIN state' /\ DOMAIN state' \subseteq DOMAIN state \cup {s}
      /\ \A t \in DOMAIN state' : state'[t].lastEmit <= clock
      /\ \A t \in DOMAIN state \cap DOMAIN state' : state'[t].lastEmit >= state[t].lastEmit
      /\ Observed(s, o).signal # NoSignal => Has(state', s, clock)
      /\ \A t \in Subjects : acked'[t] = IF t \in DOMAIN state' THEN acked[t] ELSE Never
      /\ evicted' = evicted \cup {d \in Calls : \E t \in DOMAIN state \ DOMAIN state' : Owes(call[d], t)}
  BY <1>1, <1>2, ApplyDoes
<1>4. /\ m \in Marks /\ m.pc \in {"idle", "flush"}
      /\ m.pc = "flush" => Observed(s, o).signal # NoSignal /\ m.subject = s /\ m.at = clock
  BY <1>1, MarkedIs
<1> HIDE DEF m
<1>5. \/ call' = [call EXCEPT ![c] = [pc |-> "mark", then |-> m]] /\ dirty' = dirty
      \/ call' = [call EXCEPT ![c] = m] /\ dirty' = TRUE
  BY DEF Unmarked, PersistLocked, m
<1>6. call \in [Calls -> Progress] /\ dirty \in BOOLEAN
  BY <1>1 DEF TypeOK
<1>7. /\ call' \in [Calls -> Progress] /\ dirty' \in BOOLEAN /\ (dirty => dirty')
      /\ \A f \in Calls : f # c => call'[f] = call[f]
      /\ \/ call'[c] = [pc |-> "mark", then |-> m]
         \/ call'[c] = m /\ dirty' = TRUE
<2>1. m \in Progress /\ [pc |-> "mark", then |-> m] \in Progress
  BY <1>4 DEF Progress
<2> QED
  BY <1>5, <1>6, <2>1
<1>8. Signalled(c)' = m /\ \A f \in Calls : f # c => Signalled(f)' = Signalled(f)
  BY <1>4, <1>7 DEF Signalled
<1>9. \A f \in Calls, t \in Nat : Signalled(f).pc = "flush" /\ f \notin evicted' /\ Has(state, Signalled(f).subject, t)
                          => Has(state', Signalled(f).subject, t)
<2> SUFFICES ASSUME NEW f \in Calls, NEW t \in Nat, Signalled(f).pc = "flush", f \notin evicted',
                    Has(state, Signalled(f).subject, t)
             PROVE  Has(state', Signalled(f).subject, t)
  OBVIOUS
<2>1. Owes(call[f], Signalled(f).subject)
  BY <1>1, ProgressIs
<2>2. Signalled(f).subject \in DOMAIN state \cap DOMAIN state'
  BY <1>3, <2>1 DEF Has
<2>3. state[Signalled(f).subject].lastEmit \in Nat /\ state'[Signalled(f).subject].lastEmit \in Nat
  BY <1>1, <1>3, <2>2, EntryTyped DEF TypeOK
<2> QED
  BY <1>3, <2>2, <2>3 DEF Has
<1>10. TypeOK'
  BY <1>1, <1>2, <1>3, <1>7, Kept DEF TypeOK
<1>11. Past'
  BY <1>1, <1>2, <1>3 DEF Past
<1>12. Deployed'
  BY <1>1, <1>2, <1>4, <1>7, Kept DEF Deployed
<1>13. Holding'
  BY <1>1, <1>2, <1>7 DEF Holding
<1>14. Current'
<2>1. dirty' \/ call'[c].pc = "mark"
  BY <1>7
<2> QED
  BY <2>1 DEF Current
<1>15. SignalHeld'
<2> SUFFICES ASSUME NEW f \in Calls, f \notin evicted'
             PROVE  LET n == Signalled(f)'
                    IN  /\ n.pc = "flush" => Has(state', n.subject, n.at)
                        /\ call'[f].pc = "flush" /\ ~dirty' /\ flush'.pc = "none" => Has(saved', n.subject, n.at)
                        /\ call'[f].pc = "flush" /\ flush'.pc = "save" /\ (~dirty' \/ flush'.by = f)
                              => Has(flush'.copy, n.subject, n.at)
  BY DEF SignalHeld, Has
<2>1. CASE f = c
<3>1. flush.pc # "none" => flush.by # c
  BY <1>1, <1>2 DEF Holding
<3> QED
  BY <1>2, <1>3, <1>4, <1>7, <1>8, <2>1, <3>1
<2>2. CASE f # c
<3>1. f \notin evicted
  BY <1>3
<3>2. Signalled(f)' = Signalled(f) /\ call'[f] = call[f]
  BY <1>7, <1>8, <2>2
<3>3. Signalled(f).pc = "flush" => Signalled(f).at \in Nat
  BY <1>1, ProgressIs
<3>4. Signalled(f).pc = "flush" => Has(state, Signalled(f).subject, Signalled(f).at)
  BY <1>1, <3>1 DEF SignalHeld
<3>5. Signalled(f).pc = "flush" => Has(state', Signalled(f).subject, Signalled(f).at)
  BY <1>9, <3>3, <3>4
<3>6. ~dirty' => ~dirty
  BY <1>7
<3>7. call[f].pc = "flush" /\ ~dirty /\ flush.pc = "none" => Has(saved, Signalled(f).subject, Signalled(f).at)
  BY <1>1, <3>1 DEF SignalHeld
<3>8. call[f].pc = "flush" /\ flush.pc = "save" /\ (~dirty \/ flush.by = f)
          => Has(flush.copy, Signalled(f).subject, Signalled(f).at)
  BY <1>1, <3>1 DEF SignalHeld
<3> QED
  BY <1>2, <3>2, <3>5, <3>6, <3>7, <3>8
<2> QED
  BY <2>1, <2>2
<1>16. AckedHeld'
<2> SUFFICES ASSUME NEW t \in Subjects, acked'[t] # Never
             PROVE  /\ Has(saved', t, acked'[t])
                    /\ process' # "down" => Has(state', t, acked'[t])
                    /\ flush'.pc = "save" => Has(flush'.copy, t, acked'[t])
  BY DEF AckedHeld, Has
<2>1. t \in DOMAIN state' /\ acked'[t] = acked[t] /\ acked[t] # Never /\ acked[t] \in Nat
  BY <1>1, <1>3 DEF TypeOK
<2>2. Has(saved, t, acked[t]) /\ Has(state, t, acked[t]) /\ (flush.pc = "save" => Has(flush.copy, t, acked[t]))
  BY <1>1, <1>2, <2>1 DEF AckedHeld
<2>3. t \in DOMAIN state /\ state[t].lastEmit \in Nat /\ state'[t].lastEmit \in Nat
  BY <1>1, <1>3, <2>1, <2>2, EntryTyped DEF TypeOK, Has
<2>4. Has(state', t, acked[t])
  BY <1>3, <2>1, <2>2, <2>3 DEF Has
<2> QED
  BY <1>2, <2>1, <2>2, <2>4
<1>17. ClusterInv'
  BY <1>2, Kept DEF ClusterInv
<1> QED
  BY <1>10, <1>11, <1>12, <1>13, <1>14, <1>15, <1>16, <1>17 DEF IInv

LEMMA MarkStep ==
    ASSUME IInv, NEW c \in Calls, MarkDirty(c)
    PROVE  IInv'
<1>1. /\ TypeOK /\ Past /\ Deployed /\ Holding /\ SignalHeld /\ AckedHeld /\ ClusterInv
  BY DEF IInv
<1>2. /\ call[c].pc = "mark" /\ dirty' = TRUE /\ call' = [call EXCEPT ![c] = call[c].then]
      /\ UNCHANGED <<mode, clock, state, saved, failed, process, flush, gate, acked, evicted, asked, lost>>
  BY DEF MarkDirty
<1>3. call[c].then \in Marks /\ call[c].then.pc \in {"idle", "flush"} /\ call[c].then \in Progress
<2>1. call[c].then \in Marks
  BY <1>1, <1>2, ProgressIs
<2> QED
  BY <2>1 DEF Marks, Progress, IdleCall
<1>4. /\ call' \in [Calls -> Progress] /\ call'[c] = call[c].then
      /\ \A f \in Calls : f # c => call'[f] = call[f]
  BY <1>1, <1>2, <1>3 DEF TypeOK
<1>5. \A f \in Calls : Signalled(f)' = Signalled(f)
  BY <1>2, <1>3, <1>4 DEF Signalled
<1>6. flush.pc # "none" => flush.by # c
  BY <1>1, <1>2 DEF Holding
<1>7. TypeOK'
  BY <1>1, <1>2, <1>4, Kept DEF TypeOK
<1>8. Past'
  BY <1>1, <1>2 DEF Past
<1>9. Deployed'
<2>1. Deployment = "cluster" => call[c].pc \in {"idle", "commit"}
  BY <1>1 DEF Deployed
<2> QED
  BY <1>1, <1>2, <1>3, <1>4, <2>1, Kept DEF Deployed
<1>10. Holding'
<2>1. process = "up"
  BY <1>1, <1>2 DEF Holding, IdleCall
<2> QED
  BY <1>1, <1>2, <1>4, <1>6, <2>1 DEF Holding
<1>11. Current'
  BY <1>2 DEF Current
<1>12. SignalHeld'
<2> SUFFICES ASSUME NEW f \in Calls, f \notin evicted'
             PROVE  LET n == Signalled(f)'
                    IN  /\ n.pc = "flush" => Has(state', n.subject, n.at)
                        /\ call'[f].pc = "flush" /\ ~dirty' /\ flush'.pc = "none" => Has(saved', n.subject, n.at)
                        /\ call'[f].pc = "flush" /\ flush'.pc = "save" /\ (~dirty' \/ flush'.by = f)
                              => Has(flush'.copy, n.subject, n.at)
  BY DEF SignalHeld, Has
<2>1. Signalled(f)' = Signalled(f) /\ f \notin evicted
  BY <1>2, <1>5
<2>2. Signalled(f).pc = "flush" => Has(state, Signalled(f).subject, Signalled(f).at)
  BY <1>1, <2>1 DEF SignalHeld
<2>3. call[f].pc = "flush" /\ flush.pc = "save" /\ flush.by = f
          => Has(flush.copy, Signalled(f).subject, Signalled(f).at)
  BY <1>1, <2>1 DEF SignalHeld
<2> QED
  BY <1>2, <1>4, <1>6, <2>1, <2>2, <2>3
<1>13. AckedHeld'
  BY <1>1, <1>2 DEF AckedHeld, Has
<1>14. ClusterInv'
<2>1. Deployment # "cluster"
  BY <1>1, <1>2 DEF Deployed
<2> QED
  BY <1>2, <2>1, Kept DEF ClusterInv
<1> QED
  BY <1>7, <1>8, <1>9, <1>10, <1>11, <1>12, <1>13, <1>14 DEF IInv

------------------------------------------------------------------------------
(* Flushing.                                                               *)

LEMMA ReturnDoes ==
    ASSUME TypeOK, NEW f, NEW ok \in BOOLEAN, Return(f, ok), f \in Calls => call[f].pc = "flush"
    PROVE  /\ call' \in [Calls -> Progress] /\ acked' \in [Subjects -> Nat] /\ evicted' \subseteq Calls
           /\ process' = IF f = "closer" THEN "down" ELSE process
           /\ \A g \in Calls : g # f => call'[g] = call[g] /\ (g \in evicted' <=> g \in evicted)
           /\ f \in Calls => call'[f] = IdleCall
           /\ f \notin Calls => UNCHANGED <<call, acked, evicted>>
           /\ \A s \in Subjects : acked'[s] = acked[s]
                 \/ (f \in Calls /\ ok /\ f \notin evicted /\ s = call[f].subject /\ acked'[s] = call[f].at)
<1>1. call \in [Calls -> Progress] /\ acked \in [Subjects -> Nat] /\ evicted \subseteq Calls
  BY DEF TypeOK
<1>2. CASE f \in Calls
<2>1. call[f].subject \in Subjects /\ call[f].at \in Nat /\ IdleCall \in Progress
  BY <1>2, ProgressIs DEF Progress, Marks
<2>2. /\ call' = [call EXCEPT ![f] = IdleCall]
      /\ acked' = [acked EXCEPT ![call[f].subject] =
                      IF ok /\ f \notin evicted THEN call[f].at ELSE acked[call[f].subject]]
      /\ evicted' = evicted \ {f}
      /\ process' = IF f = "closer" THEN "down" ELSE process
  BY <1>2 DEF Return
<2>3. /\ call' \in [Calls -> Progress] /\ call'[f] = IdleCall
      /\ \A g \in Calls : g # f => call'[g] = call[g]
  BY <1>1, <1>2, <2>1, <2>2
<2>4. evicted' \subseteq Calls /\ \A g \in Calls : g # f => (g \in evicted' <=> g \in evicted)
  BY <1>1, <2>2
<2>5. /\ acked' \in [Subjects -> Nat]
      /\ \A s \in Subjects : s # call[f].subject => acked'[s] = acked[s]
      /\ acked'[call[f].subject] = IF ok /\ f \notin evicted THEN call[f].at ELSE acked[call[f].subject]
  BY <1>1, <2>1, <2>2
<2>6. \A s \in Subjects : acked'[s] = acked[s]
         \/ (ok /\ f \notin evicted /\ s = call[f].subject /\ acked'[s] = call[f].at)
<3> TAKE s \in Subjects
<3>1. CASE s # call[f].subject
  BY <2>5, <3>1
<3>2. CASE s = call[f].subject /\ ok /\ f \notin evicted
  BY <2>5, <3>2
<3>3. CASE s = call[f].subject /\ ~(ok /\ f \notin evicted)
  BY <2>5, <3>3
<3> QED
  BY <3>1, <3>2, <3>3
<2> QED
  BY <1>2, <2>2, <2>3, <2>4, <2>5, <2>6
<1>3. CASE f \notin Calls
<2>1. UNCHANGED <<call, acked, evicted>> /\ process' = IF f = "closer" THEN "down" ELSE process
  BY <1>3 DEF Return
<2> QED
  BY <1>1, <1>3, <2>1
<1> QED
  BY <1>2, <1>3

(* A call that returns is idle; the others are as they were.               *)
LEMMA ReturnSignals ==
    ASSUME TypeOK, NEW f, NEW ok \in BOOLEAN, Return(f, ok), f \in Calls => call[f].pc = "flush"
    PROVE  /\ \A g \in Calls : /\ g = f => Signalled(g)'.pc = "idle" /\ call'[g].pc = "idle"
                               /\ g # f => Signalled(g)' = Signalled(g)
           /\ (\A c \in Calls : call'[c].pc # "mark") => \A c \in Calls : call[c].pc # "mark"
  BY ReturnDoes DEF Signalled, IdleCall

LEMMA NoFlushTyped == NoFlush \in [by : Holders, pc : {"none", "snapshot", "save"}, copy : Table]
                      /\ NoFlush.pc = "none" /\ DOMAIN NoFlush.copy = {}
<1>1. <<>> \in Table /\ DOMAIN <<>> = {}
  BY EmptyMap DEF Table
<1> QED
  BY <1>1 DEF NoFlush, Holders

LEMMA BeginFlushStep ==
    ASSUME IInv, NEW f \in Calls \cup {"ticker", "closer"}, BeginFlush(f)
    PROVE  IInv'
<1>1. /\ TypeOK /\ Past /\ Deployed /\ Holding /\ Current /\ SignalHeld /\ AckedHeld
  BY DEF IInv
<1>2. /\ Deployment = "standalone" /\ process # "down" /\ Wants(f) /\ flush.pc = "none"
      /\ UNCHANGED <<mode, clock, state, saved, failed, gate, asked, lost>>
  BY DEF BeginFlush
<1>3. /\ f \in Calls => call[f].pc = "flush"
      /\ f = "closer" => process = "closing"
<2>1. "closer" \notin Calls
  BY DetectorAssumption
<2> QED
  BY <1>1, <1>2, <2>1 DEF Wants, TypeOK
<1>4. ClusterInv'
  BY <1>2, Kept DEF ClusterInv
<1>5. CASE dirty
<2>1. /\ dirty' = FALSE /\ flush' = [by |-> f, pc |-> "snapshot", copy |-> <<>>]
      /\ UNCHANGED <<process, call, acked, evicted>>
  BY <1>5 DEF BeginFlush
<2>2. flush' \in [by : Holders, pc : {"none", "snapshot", "save"}, copy : Table]
      /\ DOMAIN flush'.copy = {} /\ flush'.pc = "snapshot" /\ flush'.by = f
<3>1. <<>> \in Table /\ DOMAIN <<>> = {}
  BY EmptyMap DEF Table
<3> QED
  BY <2>1, <3>1 DEF Holders
<2>3. TypeOK'
  BY <1>1, <1>2, <2>1, <2>2, Kept DEF TypeOK
<2>4. Past'
  BY <1>1, <1>2, <2>2 DEF Past
<2>5. Deployed'
  BY <1>1, <1>2, <2>1, Kept DEF Deployed
<2>6. Holding'
  BY <1>1, <1>2, <1>3, <2>1, <2>2 DEF Holding
<2>7. Current'
  BY <2>2 DEF Current
<2>8. SignalHeld'
<3>1. \A g \in Calls : Signalled(g)' = Signalled(g)
  BY <2>1 DEF Signalled
<3> QED
  BY <1>1, <1>2, <2>1, <2>2, <3>1 DEF SignalHeld, Has
<2>9. AckedHeld'
  BY <1>1, <1>2, <2>1, <2>2 DEF AckedHeld, Has
<2> QED
  BY <1>4, <2>3, <2>4, <2>5, <2>6, <2>7, <2>8, <2>9 DEF IInv
<1>6. CASE ~dirty
<2>0. (~failed) \in BOOLEAN
  OBVIOUS
<2>1. Return(f, ~failed) /\ UNCHANGED <<dirty, flush>>
  BY <1>6, Zenon DEF BeginFlush
<2>2. /\ call' \in [Calls -> Progress] /\ acked' \in [Subjects -> Nat] /\ evicted' \subseteq Calls
      /\ process' = IF f = "closer" THEN "down" ELSE process
      /\ \A g \in Calls : g # f => call'[g] = call[g] /\ (g \in evicted' <=> g \in evicted)
      /\ f \in Calls => call'[f] = IdleCall
      /\ f \notin Calls => UNCHANGED <<call, acked, evicted>>
      /\ \A s \in Subjects : acked'[s] = acked[s]
            \/ (f \in Calls /\ f \notin evicted /\ s = call[f].subject /\ acked'[s] = call[f].at)
  BY <1>1, <1>3, <2>0, <2>1, ReturnDoes
<2>3. /\ \A g \in Calls : /\ g = f => Signalled(g)'.pc = "idle" /\ call'[g].pc = "idle"
                          /\ g # f => Signalled(g)' = Signalled(g)
      /\ (\A c \in Calls : call'[c].pc # "mark") => \A c \in Calls : call[c].pc # "mark"
  BY <1>1, <1>3, <2>0, <2>1, ReturnSignals
<2>4. TypeOK'
  BY <1>1, <1>2, <2>1, <2>2, Kept DEF TypeOK
<2>5. Past'
  BY <1>1, <1>2, <2>1 DEF Past
<2>6. Deployed'
  BY <1>1, <1>2, <2>2, <2>3, Kept DEF Deployed
<2>7. Holding'
  BY <1>1, <1>2, <1>3, <2>1, <2>2 DEF Holding
<2>8. Current'
  BY <1>1, <1>2, <2>1, <2>2, <2>3, Kept DEF Current
<2>9. SignalHeld'
<3> SUFFICES ASSUME NEW g \in Calls, g \notin evicted'
             PROVE  LET n == Signalled(g)'
                    IN  /\ n.pc = "flush" => Has(state', n.subject, n.at)
                        /\ call'[g].pc = "flush" /\ ~dirty' /\ flush'.pc = "none" => Has(saved', n.subject, n.at)
                        /\ call'[g].pc = "flush" /\ flush'.pc = "save" /\ (~dirty' \/ flush'.by = g)
                              => Has(flush'.copy, n.subject, n.at)
  BY DEF SignalHeld, Has
<3>1. CASE g = f
  BY <2>3, <3>1
<3>2. CASE g # f
<4>1. g \notin evicted /\ call'[g] = call[g] /\ Signalled(g)' = Signalled(g)
  BY <2>2, <2>3, <3>2
<4>2. Signalled(g).pc = "flush" => Has(state, Signalled(g).subject, Signalled(g).at)
  BY <1>1, <4>1 DEF SignalHeld
<4>3. call[g].pc = "flush" => Has(saved, Signalled(g).subject, Signalled(g).at)
  BY <1>1, <1>2, <1>6, <4>1 DEF SignalHeld
<4> QED
  BY <1>2, <2>1, <4>1, <4>2, <4>3
<3> QED
  BY <3>1, <3>2
<2>10. AckedHeld'
<3> SUFFICES ASSUME NEW s \in Subjects, acked'[s] # Never
             PROVE  Has(saved, s, acked'[s]) /\ Has(state, s, acked'[s])
  BY <1>2, <2>1 DEF AckedHeld, Has
<3>1. CASE acked'[s] = acked[s]
  BY <1>1, <1>2, <3>1 DEF AckedHeld
<3>2. CASE acked'[s] # acked[s]
<4>1. f \in Calls /\ f \notin evicted /\ s = call[f].subject /\ acked'[s] = call[f].at
  BY <2>2, <3>2
<4>2. Signalled(f) = call[f] /\ call[f].pc = "flush"
  BY <1>1, <1>3, <4>1, ProgressIs
<4> QED
  BY <1>1, <1>2, <1>6, <4>1, <4>2 DEF SignalHeld
<3> QED
  BY <3>1, <3>2
<2> QED
  BY <1>4, <2>4, <2>5, <2>6, <2>7, <2>8, <2>9, <2>10 DEF IInv
<1> QED
  BY <1>5, <1>6

LEMMA SnapshotStep ==
    ASSUME IInv, SnapshotState
    PROVE  IInv'
<1>1. /\ TypeOK /\ Past /\ Deployed /\ Holding /\ SignalHeld /\ AckedHeld
  BY DEF IInv
<1>2. /\ flush.pc = "snapshot" /\ flush' = [flush EXCEPT !.pc = "save", !.copy = state]
      /\ UNCHANGED <<mode, clock, state, saved, dirty, failed, process, call, gate, acked, evicted, asked, lost>>
  BY DEF SnapshotState
<1>3. /\ flush' \in [by : Holders, pc : {"none", "snapshot", "save"}, copy : Table]
      /\ flush'.by = flush.by /\ flush'.pc = "save" /\ flush'.copy = state
  BY <1>1, <1>2 DEF TypeOK
<1>4. Deployment = "standalone" /\ process # "down"
<2>1. mode[1] \in {"standalone", "cluster"}
  BY <1>1, DetectorAssumption DEF TypeOK
<2> QED
  BY <1>1, <1>2, <2>1 DEF Deployed, Holding, Deployment
<1>5. TypeOK'
  BY <1>1, <1>2, <1>3, Kept DEF TypeOK
<1>6. Past'
  BY <1>1, <1>2, <1>3 DEF Past
<1>7. Deployed'
  BY <1>1, <1>2, <1>4, Kept DEF Deployed
<1>8. Holding'
  BY <1>1, <1>2, <1>3, <1>4 DEF Holding
<1>9. Current'
  BY <1>2, <1>3 DEF Current
<1>10. SignalHeld'
<2> SUFFICES ASSUME NEW f \in Calls, f \notin evicted'
             PROVE  LET n == Signalled(f)'
                    IN  /\ n.pc = "flush" => Has(state', n.subject, n.at)
                        /\ call'[f].pc = "flush" /\ flush'.pc = "save" => Has(flush'.copy, n.subject, n.at)
  BY <1>3 DEF SignalHeld, Has
<2>1. Signalled(f)' = Signalled(f) /\ f \notin evicted /\ (call[f].pc = "flush" => Signalled(f) = call[f])
  BY <1>2 DEF Signalled
<2>2. Signalled(f).pc = "flush" => Has(state, Signalled(f).subject, Signalled(f).at)
  BY <1>1, <2>1 DEF SignalHeld
<2> QED
  BY <1>2, <1>3, <2>1, <2>2
<1>11. AckedHeld'
  BY <1>1, <1>2, <1>3, <1>4 DEF AckedHeld, Has
<1>12. ClusterInv'
  BY <1>2, <1>4, Kept DEF ClusterInv
<1> QED
  BY <1>5, <1>6, <1>7, <1>8, <1>9, <1>10, <1>11, <1>12 DEF IInv

LEMMA SaveStep ==
    ASSUME IInv, SaveDetectorState
    PROVE  IInv'
<1>1. /\ TypeOK /\ Past /\ Deployed /\ Holding /\ Current /\ SignalHeld /\ AckedHeld
  BY DEF IInv
<1> DEFINE f == flush.by
<1>2. PICK ok \in BOOLEAN : /\ saved' = IF ok THEN flush.copy ELSE saved
                            /\ dirty' = (dirty \/ ~ok)
                            /\ failed' = ~ok
                            /\ Return(f, ok)
  BY DEF SaveDetectorState
<1>3. /\ flush.pc = "save" /\ flush' = NoFlush
      /\ UNCHANGED <<mode, clock, state, gate, asked, lost>>
  BY DEF SaveDetectorState
<1>4. /\ f \in Calls => call[f].pc = "flush"
      /\ f = "closer" => process = "closing"
      /\ process # "down"
  BY <1>1, <1>3 DEF Holding
<1>5. Deployment = "standalone"
<2>1. mode[1] \in {"standalone", "cluster"}
  BY <1>1, DetectorAssumption DEF TypeOK
<2> QED
  BY <1>1, <1>3, <2>1 DEF Deployed, Deployment
<1> HIDE DEF f
<1>6. /\ call' \in [Calls -> Progress] /\ acked' \in [Subjects -> Nat] /\ evicted' \subseteq Calls
      /\ process' = IF f = "closer" THEN "down" ELSE process
      /\ \A g \in Calls : g # f => call'[g] = call[g] /\ (g \in evicted' <=> g \in evicted)
      /\ f \in Calls => call'[f] = IdleCall
      /\ f \notin Calls => UNCHANGED <<call, acked, evicted>>
      /\ \A s \in Subjects : acked'[s] = acked[s]
            \/ (f \in Calls /\ ok /\ f \notin evicted /\ s = call[f].subject /\ acked'[s] = call[f].at)
  BY <1>1, <1>2, <1>4, ReturnDoes
<1>7. /\ \A g \in Calls : /\ g = f => Signalled(g)'.pc = "idle" /\ call'[g].pc = "idle"
                          /\ g # f => Signalled(g)' = Signalled(g)
      /\ (\A c \in Calls : call'[c].pc # "mark") => \A c \in Calls : call[c].pc # "mark"
  BY <1>1, <1>2, <1>4, ReturnSignals
<1>8. NoFlush \in [by : Holders, pc : {"none", "snapshot", "save"}, copy : Table]
      /\ NoFlush.pc = "none" /\ DOMAIN NoFlush.copy = {}
  BY NoFlushTyped
<1>9. /\ flush.copy \in Table /\ saved \in Table
      /\ ok => saved' = flush.copy
      /\ ~ok => saved' = saved /\ dirty' = TRUE
      /\ dirty => dirty'
      /\ dirty' \in BOOLEAN /\ failed' \in BOOLEAN
  BY <1>1, <1>2 DEF TypeOK
<1>10. TypeOK'
<2>1. saved' \in Table
  BY <1>9
<2> QED
  BY <1>1, <1>3, <1>6, <1>8, <1>9, <2>1, Kept DEF TypeOK
<1>11. Past'
  BY <1>1, <1>3, <1>8, <1>9 DEF Past
<1>12. Deployed'
  BY <1>1, <1>3, <1>5, <1>6, <1>7, Kept DEF Deployed
<1>13. Holding'
  BY <1>1, <1>3, <1>4, <1>6, <1>8 DEF Holding
<1>14. Current'
<2>1. process' # "down" => process # "down"
  BY <1>4
<2> QED
  BY <1>1, <1>3, <1>7, <1>8, <1>9, <2>1, Kept DEF Current
<1>15. SignalHeld'
<2> SUFFICES ASSUME NEW g \in Calls, g \notin evicted'
             PROVE  LET n == Signalled(g)'
                    IN  /\ n.pc = "flush" => Has(state', n.subject, n.at)
                        /\ call'[g].pc = "flush" /\ ~dirty' => Has(saved', n.subject, n.at)
  BY <1>3, <1>8 DEF SignalHeld, Has
<2>1. CASE g = f
  BY <1>7, <2>1
<2>2. CASE g # f
<3>1. g \notin evicted /\ call'[g] = call[g] /\ Signalled(g)' = Signalled(g)
  BY <1>6, <1>7, <2>2
<3>2. Signalled(g).pc = "flush" => Has(state, Signalled(g).subject, Signalled(g).at)
  BY <1>1, <3>1 DEF SignalHeld
<3>3. call[g].pc = "flush" /\ ~dirty => Has(flush.copy, Signalled(g).subject, Signalled(g).at)
  BY <1>1, <1>3, <3>1 DEF SignalHeld
<3>4. ~dirty' => ~dirty /\ saved' = flush.copy
  BY <1>9
<3> QED
  BY <1>3, <3>1, <3>2, <3>3, <3>4
<2> QED
  BY <2>1, <2>2
<1>16. AckedHeld'
<2> SUFFICES ASSUME NEW s \in Subjects, acked'[s] # Never
             PROVE  Has(saved', s, acked'[s]) /\ Has(state, s, acked'[s])
  BY <1>3, <1>8 DEF AckedHeld, Has
<2>1. CASE acked'[s] = acked[s]
<3>1. Has(saved, s, acked[s]) /\ Has(state, s, acked[s]) /\ Has(flush.copy, s, acked[s])
  BY <1>1, <1>3, <1>4, <2>1 DEF AckedHeld
<3> QED
  BY <1>9, <2>1, <3>1
<2>2. CASE acked'[s] # acked[s]
<3>1. f \in Calls /\ ok /\ f \notin evicted /\ s = call[f].subject /\ acked'[s] = call[f].at
  BY <1>6, <2>2
<3>2. Signalled(f) = call[f] /\ call[f].pc = "flush"
  BY <1>1, <1>4, <3>1, ProgressIs
<3>3. Has(state, s, call[f].at) /\ Has(flush.copy, s, call[f].at)
  BY <1>1, <1>3, <3>1, <3>2 DEF SignalHeld, f
<3> QED
  BY <1>9, <3>1, <3>3
<2> QED
  BY <2>1, <2>2
<1>17. ClusterInv'
  BY <1>3, <1>5, Kept DEF ClusterInv
<1> QED
  BY <1>10, <1>11, <1>12, <1>13, <1>14, <1>15, <1>16, <1>17 DEF IInv

------------------------------------------------------------------------------
(* The process.                                                            *)

LEMMA CloseStep ==
    ASSUME IInv, Close
    PROVE  IInv'
<1>1. /\ TypeOK /\ Past /\ Deployed /\ Holding /\ Current /\ SignalHeld /\ AckedHeld
  BY DEF IInv
<1>2. /\ Deployment = "standalone" /\ process = "up" /\ process' = "closing"
      /\ \A c \in Calls : call[c] = IdleCall
      /\ UNCHANGED <<mode, clock, state, saved, dirty, failed, flush, call, gate, acked, evicted, asked, lost>>
  BY DEF Close
<1>3. TypeOK'
  BY <1>1, <1>2, Kept DEF TypeOK
<1>4. Past'
  BY <1>1, <1>2 DEF Past
<1>5. Deployed'
  BY <1>1, <1>2, Kept DEF Deployed
<1>6. Holding'
  BY <1>1, <1>2 DEF Holding
<1>7. Current'
  BY <1>1, <1>2, Kept DEF Current
<1>8. SignalHeld'
  BY <1>1, <1>2 DEF SignalHeld, Signalled, Has, IdleCall
<1>9. AckedHeld'
  BY <1>1, <1>2 DEF AckedHeld, Has
<1>10. ClusterInv'
  BY <1>2, Kept DEF ClusterInv
<1> QED
  BY <1>3, <1>4, <1>5, <1>6, <1>7, <1>8, <1>9, <1>10 DEF IInv

LEMMA CrashStep ==
    ASSUME IInv, Crash
    PROVE  IInv'
<1>1. /\ TypeOK /\ Past /\ Deployed /\ Holding /\ AckedHeld
  BY DEF IInv
<1>2. /\ Deployment = "standalone" /\ process' = "down" /\ dirty' = FALSE /\ flush' = NoFlush
      /\ call' = [c \in Calls |-> IdleCall] /\ evicted' = {}
      /\ UNCHANGED <<mode, clock, state, saved, failed, gate, acked, asked, lost>>
  BY DEF Crash
<1>3. NoFlush \in [by : Holders, pc : {"none", "snapshot", "save"}, copy : Table]
      /\ NoFlush.pc = "none" /\ DOMAIN NoFlush.copy = {}
  BY NoFlushTyped
<1>4. call' \in [Calls -> Progress] /\ \A c \in Calls : call'[c] = IdleCall
  BY <1>2 DEF Progress, Marks
<1>5. TypeOK'
  BY <1>1, <1>2, <1>3, <1>4, Kept DEF TypeOK
<1>6. Past'
  BY <1>1, <1>2, <1>3 DEF Past
<1>7. Deployed'
  BY <1>1, <1>2, <1>4, Kept DEF Deployed, IdleCall
<1>8. Holding'
  BY <1>2, <1>3, <1>4 DEF Holding
<1>9. Current'
  BY <1>2 DEF Current
<1>10. SignalHeld'
  BY <1>4 DEF SignalHeld, Signalled, IdleCall
<1>11. AckedHeld'
  BY <1>1, <1>2, <1>3 DEF AckedHeld, Has
<1>12. ClusterInv'
  BY <1>2, Kept DEF ClusterInv
<1> QED
  BY <1>5, <1>6, <1>7, <1>8, <1>9, <1>10, <1>11, <1>12 DEF IInv

LEMMA RestartStep ==
    ASSUME IInv, Restart
    PROVE  IInv'
<1>1. /\ TypeOK /\ Past /\ Deployed /\ Holding /\ AckedHeld
  BY DEF IInv
<1>2. /\ process = "down" /\ process' = "up" /\ state' = saved /\ dirty' = FALSE /\ failed' = FALSE
      /\ UNCHANGED <<mode, clock, saved, flush, call, gate, acked, evicted, asked, lost>>
  BY DEF Restart
<1>3. Deployment = "standalone" /\ flush.pc = "none" /\ \A c \in Calls : call[c] = IdleCall
<2>1. mode[1] \in {"standalone", "cluster"}
  BY <1>1, DetectorAssumption DEF TypeOK
<2> QED
  BY <1>1, <1>2, <2>1 DEF Deployed, Deployment, Holding
<1>4. TypeOK'
  BY <1>1, <1>2, Kept DEF TypeOK
<1>5. Past'
  BY <1>1, <1>2 DEF Past
<1>6. Deployed'
  BY <1>1, <1>2, <1>3, Kept DEF Deployed
<1>7. Holding'
  BY <1>1, <1>2, <1>3 DEF Holding
<1>8. Current'
  BY <1>2, <1>3 DEF Current
<1>9. SignalHeld'
  BY <1>2, <1>3 DEF SignalHeld, Signalled, IdleCall
<1>10. AckedHeld'
  BY <1>1, <1>2, <1>3 DEF AckedHeld, Has
<1>11. ClusterInv'
  BY <1>2, <1>3, Kept DEF ClusterInv
<1> QED
  BY <1>4, <1>5, <1>6, <1>7, <1>8, <1>9, <1>10, <1>11 DEF IInv

------------------------------------------------------------------------------
(* Rows and what was presented.                                            *)

LEMMA KeysTyped ==
    ASSUME state \in Table, NEW s
    PROVE  KeysOf(s) \in Maps(Keys, Nat)
  BY EntryTyped, EmptyMap DEF KeysOf

LEMMA GateTyped ==
    ASSUME TypeOK
    PROVE  \A n \in Nodes : \A p \in DOMAIN gate[n] : gate[n][p] \in Nat
<1>1. gate \in [Nodes -> Maps(Subjects \X Observations, Nat)]
  BY DEF TypeOK
<1> QED
  BY <1>1, MapAt

(* Time passes.                                                            *)
LEMMA TickCovers ==
    ASSUME NEW rows \in Maps(Keys, Nat), NEW told \in Maps(Keys \cup Values, Nat), NEW now \in Nat,
           Covers(rows, told, now), Asks(rows, told, now), NEW next, next = now + 1
    PROVE  LET left == Since(told, next - Window + 1)
           IN  Covers(rows, left, next) /\ Asks(rows, left, next)
<1> DEFINE t == next - Window + 1
           left == Since(told, t)
<1>1. t \in Int /\ Window \in Nat /\ Refresh \in Nat
  BY DetectorAssumption
<1>2. DOMAIN left = {k \in DOMAIN told : told[k] >= t} /\ \A k \in DOMAIN left : left[k] = told[k]
<2> HIDE DEF t
<2> QED
  BY <1>1, SinceMap
<1>3. (\A k \in DOMAIN told : told[k] \in Nat) /\ (\A k \in DOMAIN rows : rows[k] \in Nat)
  BY MapAt
<1> HIDE DEF left
<1>4. Covers(rows, left, next)
  BY <1>1, <1>2, <1>3 DEF Covers
<1>5. Asks(rows, left, next)
  BY <1>1, <1>2, <1>3 DEF Asks
<1> QED
  BY <1>4, <1>5 DEF left

(* A repeat is dropped.                                                    *)
LEMMA RepeatCovers ==
    ASSUME NEW rows \in Maps(Keys, Nat), NEW told \in Maps(Keys \cup Values, Nat), NEW now \in Nat,
           Covers(rows, told, now), Asks(rows, told, now),
           NEW key \in DOMAIN rows, rows[key] <= now, now < rows[key] + Refresh
    PROVE  Covers(rows, Put(told, key, now), now) /\ Asks(rows, Put(told, key, now), now)
<1>1. /\ DOMAIN Put(told, key, now) = DOMAIN told \cup {key} /\ Put(told, key, now)[key] = now
      /\ \A k \in DOMAIN told : k # key => Put(told, key, now)[k] = told[k]
  BY DEF Put
<1> QED
  BY <1>1 DEF Covers, Asks

(* A transaction.                                                          *)
LEMMA CommitCovers ==
    ASSUME mode \in Modes, NEW d \in Detector, NEW told \in Maps(Keys \cup Values, Nat), NEW now \in Nat,
           NEW key \in Keys, Covers(d.keys, told, now), Asks(d.keys, told, now), Before(d, now)
    PROVE  LET e == ObserveWindowShared(d, key, now).state
               gone == ({key} \cup DOMAIN Since(d.keys, now - Window + 1)) \ DOMAIN e.keys
               left == Restrict(Put(told, key, now), (DOMAIN told \cup {key}) \ gone)
           IN  Covers(e.keys, left, now) /\ Asks(e.keys, left, now) /\ Before(e, now)
<1> DEFINE e == ObserveWindowShared(d, key, now).state
           gone == ({key} \cup DOMAIN Since(d.keys, now - Window + 1)) \ DOMAIN e.keys
           D == (DOMAIN told \cup {key}) \ gone
           left == Restrict(Put(told, key, now), D)
<1>1. d.keys \in Maps(Keys, Nat) /\ now - Window + 1 \in Int /\ d.lastSeen \in Nat
  BY DetectorAssumption DEF Detector
<1>2. \A k \in DOMAIN d.keys : d.keys[k] \in Nat /\ d.keys[k] <= now
<2>1. \A k \in DOMAIN d.keys : d.keys[k] \in Nat
  BY <1>1, MapAt
<2> QED
  BY <1>1, <2>1 DEF Before
<1>3. /\ e.lastSeen = now
      /\ \A k \in DOMAIN e.keys \ {key} : k \in DOMAIN d.keys /\ d.keys[k] > now - Window
      /\ \A k \in DOMAIN e.keys : e.keys[k] = IF k = key THEN now ELSE d.keys[k]
  BY WindowSharedReduces
<1>4. DOMAIN Since(d.keys, now - Window + 1) = {k \in DOMAIN d.keys : d.keys[k] >= now - Window + 1}
  BY <1>1, SinceMap
<1> HIDE DEF e
<1>5. /\ DOMAIN left = D /\ (key \in D => left[key] = now)
      /\ \A k \in D \ {key} : k \in DOMAIN told /\ left[k] = told[k]
<2>1. D \subseteq DOMAIN told \cup {key}
  OBVIOUS
<2> HIDE DEF D
<2> QED
  BY <2>1 DEF Put, Restrict
<1>6. /\ key \in D <=> key \in DOMAIN e.keys
      /\ \A k \in D \ {key} : k \in DOMAIN d.keys /\ d.keys[k] >= now - Window + 1 => k \in DOMAIN e.keys
      /\ \A k \in DOMAIN told : k \in DOMAIN e.keys => k \in D
  BY <1>4
<1>7. \A k \in DOMAIN told : told[k] \in Nat
  BY MapAt
<1>8. Window \in Nat /\ Refresh \in Nat /\ Refresh > 0
  BY DetectorAssumption
<1> HIDE DEF D, left
<1>9. Covers(e.keys, left, now)
<2> SUFFICES ASSUME NEW k \in D
             PROVE  \/ k \in DOMAIN e.keys /\ left[k] < e.keys[k] + Refresh
                    \/ left[k] < now - (Window - Refresh)
  BY <1>5 DEF Covers
<2>1. CASE k = key
  BY <1>3, <1>5, <1>6, <1>8, <2>1
<2>2. CASE k # key
<3>1. k \in DOMAIN told /\ left[k] = told[k] /\ told[k] \in Nat
  BY <1>5, <1>7, <2>2
<3>2. \/ k \in DOMAIN d.keys /\ told[k] < d.keys[k] + Refresh
      \/ told[k] < now - (Window - Refresh)
  BY <3>1 DEF Covers
<3>3. CASE k \in DOMAIN d.keys /\ told[k] < d.keys[k] + Refresh
<4>1. CASE d.keys[k] >= now - Window + 1
  BY <1>3, <1>6, <2>2, <3>1, <3>3, <4>1
<4>2. CASE ~(d.keys[k] >= now - Window + 1)
  BY <1>2, <1>8, <3>1, <3>3, <4>2
<4> QED
  BY <4>1, <4>2
<3> QED
  BY <3>1, <3>2, <3>3
<2> QED
  BY <2>1, <2>2
<1>10. Asks(e.keys, left, now)
<2> SUFFICES ASSUME NEW k \in DOMAIN e.keys PROVE k \in DOMAIN left /\ e.keys[k] <= left[k]
  BY DEF Asks
<2>1. CASE k = key
  BY <1>3, <1>5, <1>6, <2>1
<2>2. CASE k # key
<3>1. k \in DOMAIN d.keys /\ d.keys[k] > now - Window /\ e.keys[k] = d.keys[k]
  BY <1>3, <2>2
<3>2. k \in DOMAIN told /\ d.keys[k] <= told[k]
  BY <3>1 DEF Asks
<3> QED
  BY <1>5, <1>6, <2>2, <3>1, <3>2
<2> QED
  BY <2>1, <2>2
<1>11. Before(e, now)
  BY <1>2, <1>3 DEF Before
<1> QED
  BY <1>9, <1>10, <1>11 DEF e, left, D

(* Maintenance deletes rows that are too old to count.                     *)
LEMMA MaintainCovers ==
    ASSUME NEW rows \in Maps(Keys, Nat), NEW told \in Maps(Keys \cup Values, Nat), NEW now \in Nat,
           Covers(rows, told, now), Asks(rows, told, now),
           NEW left \in Maps(Keys, Nat),
           \A k \in DOMAIN left : k \in DOMAIN rows /\ left[k] = rows[k],
           \A k \in DOMAIN rows \ DOMAIN left : rows[k] < now - Retention
    PROVE  Covers(left, told, now) /\ Asks(left, told, now)
<1>1. (\A k \in DOMAIN told : told[k] \in Nat) /\ (\A k \in DOMAIN rows : rows[k] \in Nat)
  BY MapAt
<1>2. Window \in Nat /\ Refresh \in Nat /\ Retention \in Nat /\ Retention >= Window
  BY DetectorAssumption, RetentionAssumption
<1>3. Covers(left, told, now)
  BY <1>1, <1>2 DEF Covers
<1>4. Asks(left, told, now)
  BY DEF Asks
<1> QED
  BY <1>3, <1>4

LEMMA TickStep ==
    ASSUME IInv, Tick
    PROVE  IInv'
<1>1. /\ TypeOK /\ Past /\ Deployed /\ Holding /\ Current /\ SignalHeld /\ AckedHeld /\ ClusterInv
  BY DEF IInv
<1>2. /\ clock' = clock + 1
      /\ asked' = [s \in Subjects |-> Since(asked[s], clock' - Window + 1)]
      /\ UNCHANGED <<mode, state, saved, dirty, failed, process, flush, call, gate, acked, evicted, lost>>
  BY DEF Tick
<1>3. TypeOK'
<2>1. clock' \in Nat /\ clock' > 0
  BY <1>1, <1>2 DEF TypeOK
<2>2. asked' \in [Subjects -> Maps(Keys \cup Values, Nat)]
<3> DEFINE A == Keys \cup Values
<3>1. asked \in [Subjects -> Maps(A, Nat)]
  BY <1>1 DEF TypeOK
<3>2. clock' - Window + 1 \in Int
  BY <2>1, DetectorAssumption
<3> HIDE DEF A
<3>3. \A s \in Subjects : Since(asked[s], clock' - Window + 1) \in Maps(A, Nat)
  BY <3>1, <3>2, SinceMap
<3> QED
  BY <1>2, <3>3 DEF A
<2> QED
  BY <1>1, <1>2, <2>1, <2>2, Kept DEF TypeOK
<1>4. Past'
<2>1. clock \in Nat /\ state \in Table /\ saved \in Table /\ flush.copy \in Table
  BY <1>1 DEF TypeOK
<2>2. /\ \A s \in DOMAIN state : state[s].lastEmit \in Nat
      /\ \A s \in DOMAIN saved : saved[s].lastEmit \in Nat
      /\ \A s \in DOMAIN flush.copy : flush.copy[s].lastEmit \in Nat
  BY <2>1, EntryTyped
<2> QED
  BY <1>1, <1>2, <2>1, <2>2 DEF Past
<1>5. Deployed'
  BY <1>1, <1>2, Kept DEF Deployed
<1>6. Holding'
  BY <1>1, <1>2 DEF Holding
<1>7. Current'
  BY <1>1, <1>2, Kept DEF Current
<1>8. SignalHeld'
<2>1. \A f \in Calls : Signalled(f)' = Signalled(f)
  BY <1>2 DEF Signalled
<2> QED
  BY <1>1, <1>2, <2>1 DEF SignalHeld, Has
<1>9. AckedHeld'
  BY <1>1, <1>2 DEF AckedHeld, Has
<1>10. ClusterInv'
<2> SUFFICES ASSUME Deployment = "cluster", IsWindow PROVE Tracked'
  BY <1>2, Kept DEF ClusterInv
<2>1. Tracked /\ clock \in Nat /\ state \in Table /\ asked \in [Subjects -> Maps(Keys \cup Values, Nat)]
  BY <1>1 DEF ClusterInv, TypeOK
<2>2. ASSUME NEW s \in Subjects
      PROVE  Covers(KeysOf(s)', asked'[s], clock') /\ Asks(KeysOf(s)', asked'[s], clock')
<3>1. Covers(KeysOf(s), asked[s], clock) /\ Asks(KeysOf(s), asked[s], clock)
  BY <2>1 DEF Tracked
<3>2. KeysOf(s)' = KeysOf(s) /\ asked'[s] = Since(asked[s], clock' - Window + 1) /\ clock' = clock + 1
  BY <1>2 DEF KeysOf
<3>3. KeysOf(s) \in Maps(Keys, Nat)
  BY <2>1, KeysTyped
<3> QED
  BY <2>1, <3>1, <3>2, <3>3, TickCovers
<2>3. \A s \in DOMAIN state' : Before(state'[s], clock')
<3>1. \A s \in DOMAIN state : state[s].lastSeen \in Nat
  BY <2>1, EntryTyped DEF Detector
<3> QED
  BY <1>2, <2>1, <3>1 DEF Before, Tracked
<2>4. GatesBehind'
<3>1. \A n \in Nodes : \A p \in DOMAIN gate[n] : gate[n][p] \in Nat
  BY <1>1, GateTyped
<3>2. ASSUME NEW n \in Nodes, NEW s \in Subjects, NEW o \in Observations
      PROVE  Recorded(n, s, o)' = Recorded(n, s, o) /\ Passed(n, s, o)' = Passed(n, s, o)
  BY <1>2 DEF Recorded, Passed
<3> QED
  BY <1>2, <2>1, <3>1, <3>2, Kept DEF GatesBehind, Tracked
<2> QED
  BY <2>2, <2>3, <2>4 DEF Tracked
<1> QED
  BY <1>3, <1>4, <1>5, <1>6, <1>7, <1>8, <1>9, <1>10 DEF IInv

------------------------------------------------------------------------------
(* The cluster.                                                            *)

(* In the cluster nothing is flushed, so that three parts of the invariant *)
(* say nothing.                                                            *)
LEMMA ClusterKeeps ==
    ASSUME Deployment = "cluster", UNCHANGED mode,
           TypeOK', Past', ClusterInv',
           process' = "up", flush'.pc = "none",
           \A c \in Calls : call'[c].pc \in {"idle", "commit"},
           \A s \in Subjects : acked'[s] = Never
    PROVE  IInv'
<1>1. Deployment' = "cluster"
  BY Kept
<1>2. Deployed'
  BY <1>1 DEF Deployed
<1>3. Holding'
  BY DEF Holding
<1>4. Current'
  BY <1>1 DEF Current
<1>5. SignalHeld'
  BY DEF SignalHeld, Signalled
<1>6. AckedHeld'
  BY DEF AckedHeld
<1> QED
  BY <1>2, <1>3, <1>4, <1>5, <1>6 DEF IInv

LEMMA ClusterKept ==
    ASSUME ClusterInv, UNCHANGED <<mode, clock, state, call, gate, asked, lost>>
    PROVE  ClusterInv'
<1> SUFFICES ASSUME Deployment = "cluster", IsWindow PROVE Tracked'
  BY Kept DEF ClusterInv
<1>1. Tracked
  BY DEF ClusterInv
<1>2. \A t \in Subjects : KeysOf(t)' = KeysOf(t)
  BY DEF KeysOf
<1>3. \A n \in Nodes, s \in Subjects, o \in Observations :
         Recorded(n, s, o)' = Recorded(n, s, o) /\ Passed(n, s, o)' = Passed(n, s, o)
  BY DEF Recorded, Passed
<1>4. GatesBehind'
  BY <1>1, <1>3, Kept DEF Tracked, GatesBehind
<1> QED
  BY <1>1, <1>2, <1>4 DEF Tracked

Gates == Maps(Subjects \X Observations, Nat)

LEMMA TrimmedTyped ==
    ASSUME NEW seen \in Gates, NEW g \in Trimmed(seen)
    PROVE  g \in Gates /\ \A p \in DOMAIN g : p \in DOMAIN seen /\ g[p] = seen[p]
<1> DEFINE held == {p \in DOMAIN seen : clock - seen[p] < Refresh}
           size == Min({Cardinality(held), GateCapacity \div 2})
<1>1. CASE g = seen
  BY <1>1
<1>2. CASE g # seen
<2>1. PICK D \in kSubset(size, held) : g = Restrict(seen, D)
  BY <1>2 DEF Trimmed
<2>2. D \in SUBSET DOMAIN seen
  BY <2>1 DEF kSubset
<2> QED
  BY <2>1, <2>2, RestrictMap DEF Gates
<1> QED
  BY <1>1, <1>2

(* The gate of a window gets one time, and may lose others.                *)
LEMMA AllowWindowDoes ==
    ASSUME TypeOK, NEW n \in Nodes, NEW s \in Subjects, NEW o \in Observations, AllowWindow(n, s, o)
    PROVE  /\ gate' \in [Nodes -> Gates]
           /\ \A m \in Nodes : m # n => gate'[m] = gate[m]
           /\ \A p \in DOMAIN gate'[n] :
                 IF p = <<s, o>> THEN gate'[n][p] = clock ELSE p \in DOMAIN gate[n] /\ gate'[n][p] = gate[n][p]
<1>1. gate \in [Nodes -> Gates] /\ gate[n] \in Gates /\ clock \in Nat /\ <<s, o>> \in Subjects \X Observations
  BY DEF TypeOK, Gates
<1> DEFINE q == <<s, o>>
           put == Put(gate[n], q, clock)
<1>2. put \in Gates
  BY <1>1, PutMap DEF Gates
<1>3. PICK g \in Trimmed(put) : gate' = [gate EXCEPT ![n] = g]
  BY DEF AllowWindow
<1>4. \A p \in DOMAIN put : IF p = q THEN put[p] = clock ELSE p \in DOMAIN gate[n] /\ put[p] = gate[n][p]
<2> HIDE DEF q
<2> QED
  BY DEF Put
<1> HIDE DEF put
<1>5. g \in Gates /\ \A p \in DOMAIN g : p \in DOMAIN put /\ g[p] = put[p]
  BY <1>2, <1>3, TrimmedTyped
<1>6. gate' \in [Nodes -> Gates] /\ gate'[n] = g /\ \A m \in Nodes : m # n => gate'[m] = gate[m]
  BY <1>1, <1>3, <1>5
<1> QED
  BY <1>4, <1>5, <1>6

LEMMA AllowTyped ==
    ASSUME TypeOK, NEW n \in Nodes, NEW s \in Subjects, NEW o \in Observations,
           AllowWindow(n, s, o) \/ AllowBaseline(n, s, o)
    PROVE  gate' \in [Nodes -> Gates]
<1>1. gate \in [Nodes -> Gates] /\ gate[n] \in Gates /\ clock \in Nat /\ <<s, o>> \in Subjects \X Observations
  BY DEF TypeOK, Gates
<1>2. CASE AllowWindow(n, s, o)
  BY <1>2, AllowWindowDoes
<1>3. CASE AllowBaseline(n, s, o)
<2> DEFINE D == {p \in DOMAIN gate[n] : p[1] # s}
           rest == Restrict(gate[n], D)
<2>1. D \in SUBSET DOMAIN gate[n]
  OBVIOUS
<2> HIDE DEF D
<2>2. rest \in Gates
  BY <1>1, <2>1, RestrictMap DEF Gates
<2> HIDE DEF rest
<2>3. Put(rest, <<s, o>>, clock) \in Gates
  BY <1>1, <2>2, PutMap DEF Gates
<2>4. PICK g \in Trimmed(Put(rest, <<s, o>>, clock)) : gate' = [gate EXCEPT ![n] = g]
  BY <1>3 DEF AllowBaseline, rest, D
<2>5. g \in Gates
  BY <2>3, <2>4, TrimmedTyped
<2> QED
  BY <1>1, <2>4, <2>5
<1> QED
  BY <1>2, <1>3

LEMMA PassedTyped ==
    ASSUME TypeOK, NEW n \in Nodes, NEW s \in Subjects, NEW o \in Observations
    PROVE  Passed(n, s, o) \in Nat
  BY GateTyped DEF Passed, Never

(* A dropped repeat is less than a refresh interval younger than its row.  *)
LEMMA SuppressedStep ==
    ASSUME IInv, NEW n \in Nodes, NEW s \in Subjects, NEW o \in Observations,
           Suppressed(n, s, o), UNCHANGED <<mode, clock, state>>
    PROVE  asked' \in [Subjects -> Maps(Keys \cup Values, Nat)] /\ ClusterInv'
<1>1. TypeOK /\ ClusterInv /\ clock \in Nat /\ asked \in [Subjects -> Maps(Keys \cup Values, Nat)] /\ state \in Table
  BY DEF IInv, TypeOK
<1>2. UNCHANGED <<gate, call, lost>>
  BY DEF Suppressed
<1>3. CASE asked' = asked
  BY <1>1, <1>2, <1>3, ClusterKept
<1>4. CASE asked' # asked
<2>1. Recorded(n, s, o) /\ Gated(n, s, o) /\ asked' = [asked EXCEPT ![s] = Put(asked[s], o, clock)]
  BY <1>4 DEF Suppressed
<2>2. Put(asked[s], o, clock) \in Maps(Keys \cup Values, Nat)
<3> DEFINE A == Keys \cup Values
<3>1. o \in A /\ asked[s] \in Maps(A, Nat)
  BY <1>1 DEF Observations
<3> HIDE DEF A
<3>2. Put(asked[s], o, clock) \in Maps(A, Nat)
  BY <1>1, <3>1, PutMap
<3> QED
  BY <3>2 DEF A
<2>3. asked' \in [Subjects -> Maps(Keys \cup Values, Nat)]
  BY <1>1, <2>1, <2>2
<2>4. asked'[s] = Put(asked[s], o, clock) /\ \A t \in Subjects : t # s => asked'[t] = asked[t]
  BY <1>1, <2>1
<2>5. ClusterInv'
<3> SUFFICES ASSUME Deployment = "cluster", IsWindow PROVE Tracked'
  BY Kept DEF ClusterInv
<3>1. Tracked
  BY <1>1 DEF ClusterInv
<3>2. s \in DOMAIN state /\ KeysOf(s) = state[s].keys /\ o \in DOMAIN KeysOf(s)
  BY <2>1 DEF Recorded, KeysOf
<3>3. KeysOf(s) \in Maps(Keys, Nat) /\ KeysOf(s)[o] \in Nat /\ state[s].lastSeen \in Nat
  BY <1>1, <3>2, KeysTyped, EntryTyped, MapAt DEF Detector
<3>4. KeysOf(s)[o] <= clock /\ Passed(n, s, o) <= KeysOf(s)[o]
  BY <1>1, <2>1, <3>1, <3>2, <3>3 DEF Tracked, Before, GatesBehind
<3>5. clock < KeysOf(s)[o] + Refresh
<4>1. clock - Passed(n, s, o) < Refresh /\ Passed(n, s, o) \in Nat
  BY <1>1, <2>1, PassedTyped DEF Gated
<4> QED
  BY <1>1, <3>3, <3>4, <4>1, DetectorAssumption
<3>6. ASSUME NEW t \in Subjects
      PROVE  Covers(KeysOf(t)', asked'[t], clock') /\ Asks(KeysOf(t)', asked'[t], clock')
<4>1. Covers(KeysOf(t), asked[t], clock) /\ Asks(KeysOf(t), asked[t], clock)
  BY <3>1 DEF Tracked
<4>2. KeysOf(t)' = KeysOf(t)
  BY DEF KeysOf
<4>3. CASE t # s
  BY <2>4, <4>1, <4>2, <4>3
<4>4. CASE t = s
  BY <1>1, <2>4, <3>2, <3>3, <3>4, <3>5, <4>1, <4>2, <4>4, RepeatCovers
<4> QED
  BY <4>3, <4>4
<3>7. GatesBehind'
<4>1. \A m \in Nodes, t \in Subjects, k \in Observations :
         Recorded(m, t, k)' = Recorded(m, t, k) /\ Passed(m, t, k)' = Passed(m, t, k)
  BY <1>2 DEF Recorded, Passed
<4> QED
  BY <1>2, <3>1, <4>1, Kept DEF Tracked, GatesBehind
<3> QED
  BY <3>1, <3>6, <3>7 DEF Tracked
<2> QED
  BY <2>3, <2>5
<1> QED
  BY <1>3, <1>4

(* What passes a gate is not recorded until its transaction.               *)
LEMMA SendBehind ==
    ASSUME TypeOK, GatesBehind, NEW c \in Calls, NEW s \in Subjects, NEW o \in Observations, NEW through,
           Presented(c), Send(c, s, o, through),
           \/ UNCHANGED gate
           \/ \E n \in Nodes : AllowWindow(n, s, o) /\ through = {n}
    PROVE  GatesBehind'
<1>1. /\ call[c].pc = "idle" /\ UNCHANGED <<mode, clock, state, lost>> /\ clock \in Nat
      /\ call' = [call EXCEPT ![c] = [pc |-> "commit", subject |-> s, of |-> o, through |-> through]]
      /\ call \in [Calls -> Progress]
  BY DEF Presented, Send, TypeOK
<1>2. /\ call'[c] = [pc |-> "commit", subject |-> s, of |-> o, through |-> through]
      /\ \A f \in Calls : f # c => call'[f] = call[f]
  BY <1>1
<1>3. ASSUME NEW m \in Nodes, NEW t \in Subjects, NEW k \in Observations, Recorded(m, t, k)'
      PROVE  Recorded(m, t, k) /\ ~(t = s /\ k = o /\ m \in through)
<2>1. \A f \in Calls : call'[f].pc = "commit" /\ call'[f].subject = t /\ call'[f].of = k => m \notin call'[f].through
  BY <1>3 DEF Recorded
<2>2. \A f \in Calls : call[f].pc = "commit" /\ call[f].subject = t /\ call[f].of = k => m \notin call[f].through
  BY <1>1, <1>2, <2>1
<2>3. ~(t = s /\ k = o /\ m \in through)
  BY <1>2, <2>1
<2> QED
  BY <1>1, <1>3, <2>2, <2>3 DEF Recorded
<1>4. \A m \in Nodes, t \in Subjects, k \in Observations :
         /\ Passed(m, t, k) \in Nat
         /\ Recorded(m, t, k) => Passed(m, t, k) <= state[t].keys[k] /\ 0 <= state[t].keys[k]
<2> TAKE m \in Nodes, t \in Subjects, k \in Observations
<2>1. Passed(m, t, k) \in Nat
  BY PassedTyped
<2>2. ASSUME Recorded(m, t, k) PROVE Passed(m, t, k) <= state[t].keys[k] /\ 0 <= state[t].keys[k]
<3>1. t \in DOMAIN state /\ k \in DOMAIN state[t].keys /\ state \in Table
  BY <2>2 DEF Recorded, TypeOK
<3>2. state[t].keys \in Maps(Keys, Nat)
  BY <3>1, EntryTyped
<3>3. state[t].keys[k] \in Nat
  BY <3>1, <3>2, MapAt
<3> QED
  BY <2>2, <3>3 DEF GatesBehind
<2> QED
  BY <2>1, <2>2
<1>5. CASE UNCHANGED gate
<2>1. \A m \in Nodes, t \in Subjects, k \in Observations : Passed(m, t, k)' = Passed(m, t, k)
  BY <1>5 DEF Passed
<2> QED
  BY <1>1, <1>3, <1>4, <1>5, <2>1, Kept DEF GatesBehind
<1>6. ASSUME NEW n \in Nodes, AllowWindow(n, s, o), through = {n} PROVE GatesBehind'
<2>1. /\ \A m \in Nodes : m # n => gate'[m] = gate[m]
      /\ \A p \in DOMAIN gate'[n] :
            IF p = <<s, o>> THEN gate'[n][p] = clock ELSE p \in DOMAIN gate[n] /\ gate'[n][p] = gate[n][p]
  BY <1>6, AllowWindowDoes
<2>2. \A m \in Nodes : \A p \in DOMAIN gate'[m] : gate'[m][p] <= clock
<3> TAKE m \in Nodes
<3>1. CASE m = n
  BY <1>1, <2>1, <3>1 DEF GatesBehind
<3>2. CASE m # n
  BY <2>1, <3>2 DEF GatesBehind
<3> QED
  BY <3>1, <3>2
<2>3. ASSUME NEW m \in Nodes, NEW t \in Subjects, NEW k \in Observations, Recorded(m, t, k)'
      PROVE  Passed(m, t, k)' <= state'[t].keys[k]
<3>1. Recorded(m, t, k) /\ ~(t = s /\ k = o /\ m = n)
  BY <1>3, <1>6, <2>3
<3>2. Passed(m, t, k)' \in {Passed(m, t, k), 0}
<4>1. CASE m # n
  BY <2>1, <4>1 DEF Passed
<4>2. CASE m = n
<5>1. <<t, k>> # <<s, o>>
  BY <3>1, <4>2
<5> QED
  BY <2>1, <4>2, <5>1 DEF Passed, Never
<4> QED
  BY <4>1, <4>2
<3> QED
  BY <1>1, <1>4, <3>1, <3>2
<2> QED
  BY <1>1, <2>2, <2>3, Kept DEF GatesBehind
<1> QED
  BY <1>5, <1>6

(* A request presents an observation to a node.                            *)
LEMMA PresentStep ==
    ASSUME IInv, NEW c \in Calls, NEW s \in Subjects, NEW o \in Observations, NEW through \in SUBSET Nodes,
           Presented(c),
           \/ \E n \in Nodes : Suppressed(n, s, o)
           \/ /\ Send(c, s, o, through) /\ gate' \in [Nodes -> Gates]
              /\ \/ ~IsWindow
                 \/ UNCHANGED gate
                 \/ \E n \in Nodes : AllowWindow(n, s, o) /\ through = {n}
    PROVE  IInv'
<1>1. TypeOK /\ Past /\ Deployed /\ Holding /\ ClusterInv
  BY DEF IInv
<1>2. /\ Deployment = "cluster" /\ call[c].pc = "idle"
      /\ UNCHANGED <<mode, clock, state, saved, dirty, failed, process, flush, acked, evicted>>
  BY DEF Presented
<1>3. /\ process = "up" /\ flush.pc = "none"
      /\ \A f \in Calls : call[f].pc \in {"idle", "commit"}
      /\ \A t \in Subjects : acked[t] = Never
  BY <1>1, <1>2 DEF Deployed
<1>4. call' \in [Calls -> Progress] /\ \A f \in Calls : call'[f].pc \in {"idle", "commit"}
<2>1. call \in [Calls -> Progress]
  BY <1>1 DEF TypeOK
<2>2. CASE call' = call
  BY <1>3, <2>1, <2>2
<2>3. CASE call' # call
<3> DEFINE r == [pc |-> "commit", subject |-> s, of |-> o, through |-> through]
<3>1. call' = [call EXCEPT ![c] = r]
  BY <2>3 DEF Send, Suppressed
<3>2. r \in Progress /\ r.pc = "commit"
  BY DEF Progress
<3> HIDE DEF r
<3> QED
  BY <1>3, <2>1, <3>1, <3>2
<2> QED
  BY <2>2, <2>3
<1>5. gate' \in [Nodes -> Gates] /\ UNCHANGED lost
  BY <1>1 DEF Suppressed, Send, TypeOK, Gates
<1>6. asked' \in [Subjects -> Maps(Keys \cup Values, Nat)] /\ ClusterInv'
<2>1. CASE \E n \in Nodes : Suppressed(n, s, o)
  BY <1>2, <2>1, SuppressedStep
<2>2. CASE /\ Send(c, s, o, through)
           /\ \/ ~IsWindow
              \/ UNCHANGED gate
              \/ \E n \in Nodes : AllowWindow(n, s, o) /\ through = {n}
<3>1. UNCHANGED asked /\ asked \in [Subjects -> Maps(Keys \cup Values, Nat)]
  BY <1>1, <2>2 DEF Send, TypeOK
<3>2. ClusterInv'
<4> SUFFICES ASSUME IsWindow PROVE Tracked'
  BY <1>2, Kept DEF ClusterInv
<4>1. Tracked
  BY <1>1, <1>2 DEF ClusterInv
<4>2. GatesBehind'
  BY <1>1, <2>2, <4>1, SendBehind DEF Tracked
<4>3. \A t \in Subjects : KeysOf(t)' = KeysOf(t)
  BY <1>2 DEF KeysOf
<4> QED
  BY <1>2, <3>1, <4>1, <4>2, <4>3 DEF Tracked
<3> QED
  BY <3>1, <3>2
<2> QED
  BY <2>1, <2>2
<1>7. TypeOK'
  BY <1>1, <1>2, <1>4, <1>5, <1>6, Kept DEF TypeOK, Gates
<1>8. Past'
  BY <1>1, <1>2 DEF Past
<1> QED
  BY <1>2, <1>3, <1>4, <1>6, <1>7, <1>8, ClusterKeeps

LEMMA ToldTyped ==
    ASSUME NEW s \in Subjects, NEW o \in Observations,
           asked \in [Subjects -> Maps(Keys \cup Values, Nat)], clock \in Nat
    PROVE  /\ Told(s, o) \in [Subjects -> Maps(Keys \cup Values, Nat)]
           /\ Told(s, o)[s] = Restrict(Put(asked[s], o, clock), (DOMAIN asked[s] \cup {o}) \ Discarded(s, o))
           /\ \A t \in Subjects : t # s => Told(s, o)[t] = IF t \in DOMAIN state' THEN asked[t] ELSE <<>>
<1> DEFINE A == Keys \cup Values
           D == (DOMAIN asked[s] \cup {o}) \ Discarded(s, o)
           own == Restrict(Put(asked[s], o, clock), D)
           val(t) == CASE t = s -> own
                       [] t # s /\ t \in DOMAIN state' -> asked[t]
                       [] t # s /\ t \notin DOMAIN state' -> <<>>
<1>1. asked \in [Subjects -> Maps(A, Nat)] /\ o \in A
  BY DEF Observations
<1>2. Told(s, o) = [t \in Subjects |-> val(t)]
  BY DEF Told
<1>3. D \subseteq DOMAIN asked[s] \cup {o}
  OBVIOUS
<1> HIDE DEF A, D, own
<1>4. val(s) = own /\ \A t \in Subjects : t # s => val(t) = IF t \in DOMAIN state' THEN asked[t] ELSE <<>>
<2>1. val(s) = own
  OBVIOUS
<2>2. ASSUME NEW t \in Subjects, t # s PROVE val(t) = IF t \in DOMAIN state' THEN asked[t] ELSE <<>>
<3>1. CASE t \in DOMAIN state'
  BY <2>2, <3>1
<3>2. CASE t \notin DOMAIN state'
  BY <2>2, <3>2
<3> QED
  BY <3>1, <3>2
<2> QED
  BY <2>1, <2>2, Zenon
<1>5. own \in Maps(A, Nat)
<2>0. asked[s] \in Maps(A, Nat)
  BY <1>1
<2>1. Put(asked[s], o, clock) \in Maps(A, Nat) /\ DOMAIN Put(asked[s], o, clock) = DOMAIN asked[s] \cup {o}
  BY <1>1, <2>0, PutMap
<2> DEFINE put == Put(asked[s], o, clock)
<2>2. own = Restrict(put, D)
  BY DEF own
<2>3. put \in Maps(A, Nat) /\ D \in SUBSET DOMAIN put
  BY <1>3, <2>1
<2> HIDE DEF put
<2> QED
  BY <2>2, <2>3, RestrictMap
<1>6. <<>> \in Maps(A, Nat)
  BY EmptyMap
<1> HIDE DEF val
<1>7. \A t \in Subjects : val(t) \in Maps(A, Nat)
  BY <1>1, <1>4, <1>5, <1>6
<1> QED
  BY <1>2, <1>4, <1>7 DEF own, A, D

(* The rows after a transaction.                                           *)
LEMMA CommitTracked ==
    ASSUME IInv, NEW c \in Calls, NEW s \in Subjects, NEW o \in Observations, Apply(s, o),
           Deployment = "cluster", IsWindow,
           call[c].pc = "commit", s = call[c].subject, o = call[c].of,
           call' = [call EXCEPT ![c] = IdleCall],
           asked' = Told(s, o), lost' = lost \ {<<n, s, o>> : n \in call[c].through},
           UNCHANGED <<mode, clock, gate>>
    PROVE  Tracked'
<1>1. TypeOK /\ Past /\ Tracked /\ clock \in Nat /\ mode \in Modes /\ state \in Table
      /\ asked \in [Subjects -> Maps(Keys \cup Values, Nat)] /\ call \in [Calls -> Progress]
  BY DEF IInv, TypeOK, ClusterInv
<1>2. o \in Keys
  BY <1>1, ObservationTyped
<1>3. /\ state' \in Table
      /\ s \in DOMAIN state' /\ DOMAIN state' \subseteq DOMAIN state \cup {s}
      /\ state'[s] = Observed(s, o).state
      /\ \A t \in DOMAIN state' : t # s => state'[t] = state[t]
  BY <1>1, ApplyDoes
<1>4. /\ Known(s) \in Detector /\ Known(s).keys = KeysOf(s)
      /\ state'[s] = ObserveWindowShared(Known(s), o, clock).state
<2>1. Known(s).keys = KeysOf(s)
  BY FreshTyped DEF Known, KeysOf
<2>2. Known(s) \in Detector /\ Observed(s, o) = Reduce(Known(s), o, clock)
  BY <1>1, ObservedIs
<2> QED
  BY <1>3, <2>1, <2>2 DEF Reduce, ReduceShared
<1>5. Before(Known(s), clock)
<2>1. CASE s \in DOMAIN state
  BY <1>1, <2>1 DEF Known, Tracked
<2>2. CASE s \notin DOMAIN state
<3>1. DOMAIN <<>> = {}
  BY EmptyMap
<3> QED
  BY <1>1, <2>2, <3>1 DEF Known, Fresh, Before, Never
<2> QED
  BY <2>1, <2>2
<1>6. /\ asked'[s] = Restrict(Put(asked[s], o, clock), (DOMAIN asked[s] \cup {o}) \ Discarded(s, o))
      /\ \A t \in Subjects : t # s => asked'[t] = IF t \in DOMAIN state' THEN asked[t] ELSE <<>>
<2> DEFINE new == Told(s, o)
           D == (DOMAIN asked[s] \cup {o}) \ Discarded(s, o)
<2>1. /\ new[s] = Restrict(Put(asked[s], o, clock), D)
      /\ \A t \in Subjects : t # s => new[t] = IF t \in DOMAIN state' THEN asked[t] ELSE <<>>
  BY <1>1, ToldTyped
<2>2. asked' = new
  OBVIOUS
<2> HIDE DEF new, D
<2>3. /\ asked'[s] = Restrict(Put(asked[s], o, clock), D)
      /\ \A t \in Subjects : t # s => asked'[t] = IF t \in DOMAIN state' THEN asked[t] ELSE <<>>
  BY <2>1, <2>2
<2> QED
  BY <2>3 DEF D
<1>7. Discarded(s, o) = ({o} \cup DOMAIN Since(Known(s).keys, clock - Window + 1)) \ DOMAIN state'[s].keys
  BY <1>4 DEF Discarded, KeysOf
<1>8. /\ Covers(state'[s].keys, asked'[s], clock) /\ Asks(state'[s].keys, asked'[s], clock)
      /\ Before(state'[s], clock)
<2>1. Covers(Known(s).keys, asked[s], clock) /\ Asks(Known(s).keys, asked[s], clock)
  BY <1>1, <1>4 DEF Tracked
<2>2. asked[s] \in Maps(Keys \cup Values, Nat)
  BY <1>1
<2> DEFINE d == Known(s)
           told == asked[s]
           e == ObserveWindowShared(d, o, clock).state
           gone == ({o} \cup DOMAIN Since(d.keys, clock - Window + 1)) \ DOMAIN e.keys
           left == Restrict(Put(told, o, clock), (DOMAIN told \cup {o}) \ gone)
<2>3. state'[s] = e
  BY <1>4
<2>4. asked'[s] = left
  BY <1>6, <1>7, <2>3
<2> HIDE DEF d, told
<2>5. d \in Detector /\ told \in Maps(Keys \cup Values, Nat) /\ Before(d, clock)
      /\ Covers(d.keys, told, clock) /\ Asks(d.keys, told, clock)
  BY <1>4, <1>5, <2>1, <2>2 DEF d, told
<2>6. Covers(e.keys, left, clock) /\ Asks(e.keys, left, clock) /\ Before(e, clock)
  BY <1>1, <1>2, <2>5, CommitCovers
<2> HIDE DEF e, left
<2> QED
  BY <2>3, <2>4, <2>6
<1>9. ASSUME NEW t \in Subjects
      PROVE  Covers(KeysOf(t)', asked'[t], clock) /\ Asks(KeysOf(t)', asked'[t], clock)
<2>1. CASE t = s
<3>1. KeysOf(t)' = state'[s].keys
  BY <1>3, <2>1 DEF KeysOf
<3> QED
  BY <1>8, <2>1, <3>1
<2>2. CASE t # s /\ t \in DOMAIN state'
<3>1. KeysOf(t)' = KeysOf(t) /\ asked'[t] = asked[t]
  BY <1>3, <1>6, <2>2 DEF KeysOf
<3> QED
  BY <1>1, <3>1 DEF Tracked
<2>3. CASE t # s /\ t \notin DOMAIN state'
<3>1. KeysOf(t)' = <<>> /\ asked'[t] = <<>> /\ DOMAIN <<>> = {}
  BY <1>6, <2>3, EmptyMap DEF KeysOf
<3> QED
  BY <3>1 DEF Covers, Asks
<2> QED
  BY <2>1, <2>2, <2>3
<1>10. \A t \in DOMAIN state' : Before(state'[t], clock)
  BY <1>1, <1>3, <1>8 DEF Tracked
<1>11. GatesBehind'
<2>1. \A n \in Nodes : \A p \in DOMAIN gate'[n] : gate'[n][p] <= clock'
  BY <1>1 DEF Tracked, GatesBehind
<2>2. \A n \in Nodes, t \in Subjects, k \in Observations : Passed(n, t, k)' = Passed(n, t, k)
  BY DEF Passed
<2>3. ASSUME NEW n \in Nodes, NEW t \in Subjects, NEW k \in Observations, Recorded(n, t, k)'
      PROVE  Passed(n, t, k) <= state'[t].keys[k]
<3>1. t \in DOMAIN state' /\ k \in DOMAIN state'[t].keys /\ <<n, t, k>> \notin lost'
      /\ \A f \in Calls : call'[f].pc = "commit" /\ call'[f].subject = t /\ call'[f].of = k => n \notin call'[f].through
  BY <2>3 DEF Recorded
<3>2. /\ \A k2 \in DOMAIN state'[s].keys \ {o} : k2 \in DOMAIN Known(s).keys
      /\ \A k2 \in DOMAIN state'[s].keys : state'[s].keys[k2] = IF k2 = o THEN clock ELSE Known(s).keys[k2]
  BY <1>1, <1>2, <1>4, WindowSharedReduces
<3>3. CASE t = s /\ k = o
<4>1. Passed(n, t, k) <= clock
  BY <1>1 DEF Tracked, GatesBehind, Passed, Never
<4> QED
  BY <3>1, <3>2, <3>3, <4>1
<3>4. CASE ~(t = s /\ k = o)
<4>1. t \in DOMAIN state /\ k \in DOMAIN state[t].keys /\ state'[t].keys[k] = state[t].keys[k]
<5>1. CASE t # s
  BY <1>3, <3>1, <5>1
<5>2. CASE t = s
<6>1. k \in DOMAIN KeysOf(s) /\ state'[s].keys[k] = KeysOf(s)[k]
  BY <1>4, <3>1, <3>2, <3>4, <5>2
<6>2. DOMAIN <<>> = {}
  BY EmptyMap
<6> QED
  BY <5>2, <6>1, <6>2 DEF KeysOf
<5> QED
  BY <5>1, <5>2
<4>2. <<n, t, k>> \notin lost
  BY <3>1, <3>4
<4>3. \A f \in Calls : call[f].pc = "commit" /\ call[f].subject = t /\ call[f].of = k => n \notin call[f].through
<5>1. \A f \in Calls : f # c => call'[f] = call[f]
  BY <1>1
<5> QED
  BY <3>1, <3>4, <5>1
<4>4. Recorded(n, t, k)
  BY <4>1, <4>2, <4>3 DEF Recorded
<4> QED
  BY <1>1, <4>1, <4>4 DEF Tracked, GatesBehind
<3> QED
  BY <3>3, <3>4
<2> QED
  BY <2>1, <2>2, <2>3, Kept DEF GatesBehind
<1> QED
  BY <1>9, <1>10, <1>11 DEF Tracked

LEMMA TransactionStep ==
    ASSUME IInv, NEW c \in Calls, Transaction(c)
    PROVE  IInv'
<1>1. TypeOK /\ Past /\ Deployed /\ ClusterInv /\ mode \in Modes /\ clock \in Nat
      /\ lost \subseteq Nodes \X Subjects \X Observations /\ call \in [Calls -> Progress]
      /\ asked \in [Subjects -> Maps(Keys \cup Values, Nat)]
  BY DEF IInv, TypeOK
<1> DEFINE s == call[c].subject
           o == call[c].of
           passes == {<<n, s, o>> : n \in call[c].through}
<1>2. /\ call[c].pc = "commit" /\ call' = [call EXCEPT ![c] = IdleCall]
      /\ UNCHANGED <<mode, clock, saved, dirty, failed, process, flush, gate>>
  BY DEF Transaction
<1>3. s \in Subjects /\ o \in Observations /\ call[c].through \subseteq Nodes
  BY <1>1, <1>2, ProgressIs
<1>4. \/ Apply(s, o) /\ asked' = Told(s, o) /\ lost' = lost \ passes
      \/ lost' = lost \cup passes /\ UNCHANGED <<state, acked, evicted, asked>>
  BY DEF Transaction
<1>5. passes \subseteq Nodes \X Subjects \X Observations
  BY <1>3
<1>6. Deployment = "cluster"
<2>1. mode[1] \in {"standalone", "cluster"}
  BY <1>1, DetectorAssumption
<2> QED
  BY <1>1, <1>2, <2>1 DEF Deployed, Deployment
<1>7. /\ process = "up" /\ flush.pc = "none"
      /\ \A f \in Calls : call[f].pc \in {"idle", "commit"}
      /\ \A t \in Subjects : acked[t] = Never
  BY <1>1, <1>6 DEF Deployed
<1>8. /\ call' \in [Calls -> Progress] /\ call'[c].pc = "idle"
      /\ \A f \in Calls : call'[f].pc \in {"idle", "commit"}
      /\ \A f \in Calls : f # c => call'[f] = call[f]
<2>1. IdleCall \in Progress /\ IdleCall.pc = "idle"
  BY DEF Progress, Marks, IdleCall
<2> QED
  BY <1>1, <1>2, <1>7, <2>1
<1>9. CASE Apply(s, o) /\ asked' = Told(s, o) /\ lost' = lost \ passes
<2>1. /\ state' \in Table /\ acked' \in [Subjects -> Nat] /\ evicted' \subseteq Calls
      /\ \A t \in DOMAIN state' : state'[t].lastEmit <= clock
      /\ \A t \in Subjects : acked'[t] = IF t \in DOMAIN state' THEN acked[t] ELSE Never
  BY <1>1, <1>3, <1>9, ApplyDoes
<2>2. asked' \in [Subjects -> Maps(Keys \cup Values, Nat)]
  BY <1>1, <1>3, <1>9, ToldTyped
<2>3. ClusterInv'
<3> SUFFICES ASSUME IsWindow PROVE Tracked'
  BY <1>2, Kept DEF ClusterInv
<3> QED
  BY <1>2, <1>3, <1>6, <1>9, CommitTracked
<2>4. TypeOK'
<3>1. lost' \subseteq Nodes \X Subjects \X Observations
  BY <1>1, <1>9
<3> QED
  BY <1>1, <1>2, <1>8, <2>1, <2>2, <3>1, Kept DEF TypeOK
<2>5. Past'
  BY <1>1, <1>2, <2>1 DEF Past
<2>6. \A t \in Subjects : acked'[t] = Never
  BY <1>7, <2>1
<2> QED
  BY <1>2, <1>6, <1>7, <1>8, <2>3, <2>4, <2>5, <2>6, ClusterKeeps
<1>10. CASE lost' = lost \cup passes /\ UNCHANGED <<state, acked, evicted, asked>>
<2>1. ClusterInv'
<3> SUFFICES ASSUME IsWindow PROVE Tracked'
  BY <1>2, Kept DEF ClusterInv
<3>1. Tracked
  BY <1>1, <1>6 DEF ClusterInv
<3>2. \A t \in Subjects : KeysOf(t)' = KeysOf(t)
  BY <1>10 DEF KeysOf
<3>3. ASSUME NEW n \in Nodes, NEW t \in Subjects, NEW k \in Observations
      PROVE  Passed(n, t, k)' = Passed(n, t, k) /\ (Recorded(n, t, k)' => Recorded(n, t, k))
<4>1. Passed(n, t, k)' = Passed(n, t, k)
  BY <1>2 DEF Passed
<4>2. ASSUME Recorded(n, t, k)' PROVE Recorded(n, t, k)
<5>1. t \in DOMAIN state /\ k \in DOMAIN state[t].keys /\ <<n, t, k>> \notin lost /\ <<n, t, k>> \notin passes
      /\ \A f \in Calls : call'[f].pc = "commit" /\ call'[f].subject = t /\ call'[f].of = k => n \notin call'[f].through
  BY <1>10, <4>2 DEF Recorded
<5>2. t = s /\ k = o => n \notin call[c].through
  BY <5>1
<5>3. \A f \in Calls : call[f].pc = "commit" /\ call[f].subject = t /\ call[f].of = k => n \notin call[f].through
  BY <1>8, <5>1, <5>2
<5> QED
  BY <5>1, <5>3 DEF Recorded
<4> QED
  BY <4>1, <4>2
<3>4. GatesBehind'
  BY <1>2, <1>10, <3>1, <3>3, Kept DEF Tracked, GatesBehind
<3> QED
  BY <1>2, <1>10, <3>1, <3>2, <3>4 DEF Tracked
<2>2. TypeOK'
<3>1. lost' \subseteq Nodes \X Subjects \X Observations
  BY <1>1, <1>5, <1>10
<3> QED
  BY <1>1, <1>2, <1>8, <1>10, <3>1, Kept DEF TypeOK
<2>3. Past'
  BY <1>1, <1>2, <1>10 DEF Past
<2> QED
  BY <1>2, <1>6, <1>7, <1>8, <1>10, <2>1, <2>2, <2>3, ClusterKeeps
<1> QED
  BY <1>4, <1>9, <1>10

(* Maintenance deletes old rows and changes none.                          *)
LEMMA MaintainRows ==
    ASSUME TypeOK, MaintainAdaptive
    PROVE  /\ state' \in Table /\ DOMAIN state' \subseteq DOMAIN state
           /\ \A t \in DOMAIN state \ DOMAIN state' : state[t].lastSeen < clock - Retention
           /\ \A t \in DOMAIN state' :
                 /\ state'[t].lastEmit = state[t].lastEmit /\ state'[t].lastSeen = state[t].lastSeen
                 /\ \A k \in DOMAIN state'[t].keys : k \in DOMAIN state[t].keys /\ state'[t].keys[k] = state[t].keys[k]
                 /\ \A k \in DOMAIN state[t].keys \ DOMAIN state'[t].keys : state[t].keys[k] < clock - Retention
<1>1. state \in Table
  BY DEF TypeOK
<1>2. PICK s \in DOMAIN state :
         \/ \E K \in SUBSET {k \in DOMAIN state[s].keys : state[s].keys[k] < clock - Retention} :
               state' = [state EXCEPT ![s].keys = Restrict(state[s].keys, DOMAIN state[s].keys \ K)]
         \/ state[s].lastSeen < clock - Retention /\ state' = Restrict(state, DOMAIN state \ {s})
  BY DEF MaintainAdaptive
<1>3. CASE state[s].lastSeen < clock - Retention /\ state' = Restrict(state, DOMAIN state \ {s})
<2> DEFINE D == DOMAIN state \ {s}
<2>1. D \in SUBSET DOMAIN state
  OBVIOUS
<2>2. state' = Restrict(state, D)
  BY <1>3
<2> HIDE DEF D
<2>3. state' \in Table /\ DOMAIN state' = D /\ \A t \in D : state'[t] = state[t]
  BY <1>1, <2>1, <2>2, RestrictMap DEF Table
<2>4. \A t \in DOMAIN state \ DOMAIN state' : t = s
  BY <2>3 DEF D
<2> QED
  BY <1>3, <2>1, <2>3, <2>4
<1>4. ASSUME NEW K \in SUBSET {k \in DOMAIN state[s].keys : state[s].keys[k] < clock - Retention},
             state' = [state EXCEPT ![s].keys = Restrict(state[s].keys, DOMAIN state[s].keys \ K)]
      PROVE  /\ state' \in Table /\ DOMAIN state' = DOMAIN state
             /\ \A t \in DOMAIN state' :
                   /\ state'[t].lastEmit = state[t].lastEmit /\ state'[t].lastSeen = state[t].lastSeen
                   /\ \A k \in DOMAIN state'[t].keys : k \in DOMAIN state[t].keys /\ state'[t].keys[k] = state[t].keys[k]
                   /\ \A k \in DOMAIN state[t].keys \ DOMAIN state'[t].keys : state[t].keys[k] < clock - Retention
<2> DEFINE D == DOMAIN state[s].keys \ K
           new == Restrict(state[s].keys, D)
<2>2. DOMAIN state \subseteq Subjects /\ \A t \in DOMAIN state : state[t] \in Detector /\ state[t].keys \in Maps(Keys, Nat)
  BY <1>1, EntryTyped
<2>3. D \in SUBSET DOMAIN state[s].keys /\ \A k \in DOMAIN state[s].keys \ D : state[s].keys[k] < clock - Retention
  OBVIOUS
<2>4. state' = [state EXCEPT ![s].keys = new]
  BY <1>4
<2> HIDE DEF D
<2>5. new \in Maps(Keys, Nat) /\ DOMAIN new = D /\ \A k \in D : new[k] = state[s].keys[k]
  BY <2>2, <2>3, RestrictMap
<2> HIDE DEF new
<2>6. /\ DOMAIN state' = DOMAIN state /\ state'[s] = [state[s] EXCEPT !.keys = new]
      /\ \A t \in DOMAIN state : t # s => state'[t] = state[t]
      /\ state' = [t \in DOMAIN state |-> IF t = s THEN [state[s] EXCEPT !.keys = new] ELSE state[t]]
  BY <2>4
<2>7. state'[s] \in Detector /\ state'[s].keys = new
      /\ state'[s].lastEmit = state[s].lastEmit /\ state'[s].lastSeen = state[s].lastSeen
  BY <2>2, <2>5, <2>6 DEF Detector
<2>8. state' \in [DOMAIN state -> Detector]
  BY <2>2, <2>6, <2>7
<2>9. state' \in Table
  BY <2>2, <2>6, <2>8, MapIs DEF Table
<2>10. ASSUME NEW t \in DOMAIN state'
       PROVE  /\ state'[t].lastEmit = state[t].lastEmit /\ state'[t].lastSeen = state[t].lastSeen
              /\ \A k \in DOMAIN state'[t].keys : k \in DOMAIN state[t].keys /\ state'[t].keys[k] = state[t].keys[k]
              /\ \A k \in DOMAIN state[t].keys \ DOMAIN state'[t].keys : state[t].keys[k] < clock - Retention
<3>1. CASE t = s
  BY <2>3, <2>5, <2>7, <3>1
<3>2. CASE t # s
  BY <2>6, <3>2
<3> QED
  BY <3>1, <3>2
<2> QED
  BY <2>6, <2>9, <2>10
<1> QED
  BY <1>2, <1>3, <1>4

LEMMA MaintainStep ==
    ASSUME IInv, MaintainAdaptive
    PROVE  IInv'
<1>1. TypeOK /\ Past /\ Deployed /\ ClusterInv /\ asked \in [Subjects -> Maps(Keys \cup Values, Nat)]
      /\ state \in Table /\ clock \in Nat
  BY DEF IInv, TypeOK
<1>2. /\ Deployment = "cluster"
      /\ UNCHANGED <<mode, clock, saved, dirty, failed, process, flush, call, gate, acked, evicted, asked, lost>>
  BY DEF MaintainAdaptive
<1>3. /\ state' \in Table /\ DOMAIN state' \subseteq DOMAIN state
      /\ \A t \in DOMAIN state \ DOMAIN state' : state[t].lastSeen < clock - Retention
      /\ \A t \in DOMAIN state' :
            /\ state'[t].lastEmit = state[t].lastEmit /\ state'[t].lastSeen = state[t].lastSeen
            /\ \A k \in DOMAIN state'[t].keys : k \in DOMAIN state[t].keys /\ state'[t].keys[k] = state[t].keys[k]
            /\ \A k \in DOMAIN state[t].keys \ DOMAIN state'[t].keys : state[t].keys[k] < clock - Retention
  BY <1>1, MaintainRows
<1>4. ClusterInv'
<2> SUFFICES ASSUME IsWindow PROVE Tracked'
  BY <1>2, Kept DEF ClusterInv
<2>1. Tracked
  BY <1>1, <1>2 DEF ClusterInv
<2>2. ASSUME NEW t \in Subjects
      PROVE  Covers(KeysOf(t)', asked[t], clock) /\ Asks(KeysOf(t)', asked[t], clock)
<3>1. Covers(KeysOf(t), asked[t], clock) /\ Asks(KeysOf(t), asked[t], clock)
  BY <2>1 DEF Tracked
<3>2. KeysOf(t) \in Maps(Keys, Nat) /\ KeysOf(t)' \in Maps(Keys, Nat)
<4>1. KeysOf(t)' = IF t \in DOMAIN state' THEN state'[t].keys ELSE <<>>
  BY DEF KeysOf
<4> QED
  BY <1>1, <1>3, <4>1, KeysTyped, EntryTyped, EmptyMap
<3>3. /\ \A k \in DOMAIN KeysOf(t)' : k \in DOMAIN KeysOf(t) /\ KeysOf(t)'[k] = KeysOf(t)[k]
      /\ \A k \in DOMAIN KeysOf(t) \ DOMAIN KeysOf(t)' : KeysOf(t)[k] < clock - Retention
<4>1. CASE t \in DOMAIN state'
  BY <1>3, <4>1 DEF KeysOf
<4>2. CASE t \in DOMAIN state /\ t \notin DOMAIN state'
<5>1. KeysOf(t)' = <<>> /\ KeysOf(t) = state[t].keys /\ DOMAIN <<>> = {}
  BY <4>2, EmptyMap DEF KeysOf
<5>2. state[t].lastSeen < clock - Retention /\ state[t].lastSeen \in Nat /\ Retention \in Nat
  BY <1>1, <1>3, <4>2, EntryTyped, DetectorAssumption DEF Detector
<5>3. \A k \in DOMAIN state[t].keys : state[t].keys[k] \in Nat /\ state[t].keys[k] <= state[t].lastSeen
<6>1. state[t].keys \in Maps(Keys, Nat) /\ Before(state[t], clock)
  BY <1>1, <2>1, <4>2, EntryTyped DEF Tracked
<6> QED
  BY <6>1, MapAt DEF Before
<5> QED
  BY <1>1, <5>1, <5>2, <5>3
<4>3. CASE t \notin DOMAIN state
<5>1. KeysOf(t)' = <<>> /\ KeysOf(t) = <<>> /\ DOMAIN <<>> = {}
  BY <1>3, <4>3, EmptyMap DEF KeysOf
<5> QED
  BY <5>1
<4> QED
  BY <4>1, <4>2, <4>3
<3>4. asked[t] \in Maps(Keys \cup Values, Nat)
  BY <1>1
<3> QED
  BY <1>1, <3>1, <3>2, <3>3, <3>4, MaintainCovers
<2>3. \A t \in DOMAIN state' : Before(state'[t], clock)
  BY <1>3, <2>1 DEF Before, Tracked
<2>4. GatesBehind'
<3>1. ASSUME NEW n \in Nodes, NEW t \in Subjects, NEW k \in Observations, Recorded(n, t, k)'
      PROVE  Passed(n, t, k)' <= state'[t].keys[k]
<4>1. Passed(n, t, k)' = Passed(n, t, k)
  BY <1>2 DEF Passed
<4>2. t \in DOMAIN state' /\ k \in DOMAIN state'[t].keys
  BY <3>1 DEF Recorded
<4>3. Recorded(n, t, k) /\ state'[t].keys[k] = state[t].keys[k]
  BY <1>2, <1>3, <3>1, <4>2 DEF Recorded
<4> QED
  BY <2>1, <4>1, <4>3 DEF Tracked, GatesBehind
<3> QED
  BY <1>2, <2>1, <3>1, Kept DEF Tracked, GatesBehind
<2> QED
  BY <1>2, <2>2, <2>3, <2>4 DEF Tracked
<1>5. TypeOK'
  BY <1>1, <1>2, <1>3, Kept DEF TypeOK
<1>6. Past'
  BY <1>1, <1>2, <1>3 DEF Past
<1>7. /\ process' = "up" /\ flush'.pc = "none"
      /\ \A c \in Calls : call'[c].pc \in {"idle", "commit"}
      /\ \A s \in Subjects : acked'[s] = Never
  BY <1>1, <1>2 DEF Deployed
<1> QED
  BY <1>2, <1>4, <1>5, <1>6, <1>7, ClusterKeeps

------------------------------------------------------------------------------
(* The invariant is inductive.                                             *)

LEMMA InitLemma == Init => IInv
<1> SUFFICES ASSUME Init PROVE IInv
  OBVIOUS
<1>1. /\ mode \in Modes /\ clock = 1 /\ state = <<>> /\ saved = <<>> /\ dirty = FALSE /\ failed = FALSE
      /\ process = "up" /\ flush = NoFlush /\ evicted = {}
      /\ call = [c \in Calls |-> IdleCall] /\ gate = [n \in Nodes |-> <<>>]
      /\ acked = [s \in Subjects |-> Never] /\ asked = [s \in Subjects |-> <<>>] /\ lost = {}
  BY DEF Init
<1>2. <<>> \in Table /\ <<>> \in Maps(Subjects \X Observations, Nat) /\ <<>> \in Maps(Keys \cup Values, Nat)
      /\ DOMAIN <<>> = {}
  BY EmptyMap DEF Table
<1>3. NoFlush \in [by : Holders, pc : {"none", "snapshot", "save"}, copy : Table]
      /\ NoFlush.pc = "none" /\ DOMAIN NoFlush.copy = {}
  BY NoFlushTyped
<1>4. /\ call \in [Calls -> Progress] /\ \A c \in Calls : call[c] = IdleCall /\ call[c].pc = "idle"
  BY <1>1 DEF Progress, Marks, IdleCall
<1>5. acked \in [Subjects -> Nat] /\ \A s \in Subjects : acked[s] = Never
  BY <1>1 DEF Never
<1>6. TypeOK
<2>1. gate \in [Nodes -> Maps(Subjects \X Observations, Nat)]
  BY <1>1, <1>2
<2>2. asked \in [Subjects -> Maps(Keys \cup Values, Nat)]
  BY <1>1, <1>2
<2>3. /\ mode \in Modes /\ clock \in Nat /\ clock > 0 /\ state \in Table /\ saved \in Table
      /\ process \in {"up", "closing", "down"} /\ evicted \subseteq Calls
      /\ lost \subseteq Nodes \X Subjects \X Observations
  BY <1>1, <1>2
<2>4. flush \in [by : Holders, pc : {"none", "snapshot", "save"}, copy : Table]
  BY <1>1, <1>3
<2>5. dirty \in BOOLEAN /\ failed \in BOOLEAN
  BY <1>1
<2> QED
  BY <1>4, <1>5, <2>1, <2>2, <2>3, <2>4, <2>5 DEF TypeOK
<1>7. Past
  BY <1>1, <1>2, <1>3 DEF Past
<1>8. Deployed
  BY <1>1, <1>3, <1>4, <1>5 DEF Deployed
<1>9. Holding
  BY <1>1, <1>3 DEF Holding
<1>10. Current
  BY <1>1, <1>3 DEF Current
<1>11. SignalHeld
  BY <1>4 DEF SignalHeld, Signalled
<1>12. AckedHeld
  BY <1>5 DEF AckedHeld
<1>13. ClusterInv
<2>1. \A s \in Subjects : asked[s] = <<>> /\ KeysOf(s) = <<>>
  BY <1>1, <1>2 DEF KeysOf
<2>2. \A n \in Nodes : gate[n] = <<>>
  BY <1>1
<2>3. GatesBehind
  BY <1>1, <1>2, <2>2 DEF GatesBehind, Recorded
<2> QED
  BY <1>1, <1>2, <2>1, <2>3 DEF ClusterInv, Tracked, Covers, Asks
<1> QED
  BY <1>6, <1>7, <1>8, <1>9, <1>10, <1>11, <1>12, <1>13 DEF IInv

LEMMA ObserveStep ==
    ASSUME IInv, NEW c \in Calls, NEW s \in Subjects, NEW o \in Observations,
           \/ ObserveAdmission(c, s, o) \/ ObserveCompletion(c, s, o)
           \/ ObserveLocal(c, s, o) \/ ObserveInvalidLocal(c, s, o)
           \/ \E n \in Nodes :
                 ObserveNovelty(n, c, s, o) \/ ObserveEnumeration(n, c, s, o) \/ ObserveConcurrency(n, c, s, o)
           \/ ObserveCompletionShared(c, s, o) \/ ObserveSprayShared(c, s, o) \/ ObserveInvalidShared(c, s, o)
    PROVE  IInv'
<1>1. CASE ObserveAdmission(c, s, o) \/ ObserveCompletion(c, s, o)
  BY <1>1, LocalStep DEF ObserveAdmission, ObserveCompletion
<1>2. CASE ObserveLocal(c, s, o) \/ ObserveInvalidLocal(c, s, o)
  BY <1>2, LocalStep DEF ObserveLocal, ObserveInvalidLocal
<1>3. ASSUME NEW n \in Nodes,
             ObserveNovelty(n, c, s, o) \/ ObserveEnumeration(n, c, s, o) \/ ObserveConcurrency(n, c, s, o)
      PROVE  IInv'
<2>1. /\ Presented(c)
      /\ \/ Suppressed(n, s, o)
         \/ AllowWindow(n, s, o) /\ Send(c, s, o, {n})
         \/ ~IsWindow /\ AllowBaseline(n, s, o) /\ Send(c, s, o, {})
  BY <1>3 DEF ObserveNovelty, ObserveEnumeration, ObserveConcurrency, IsWindow
<2>2. CASE Suppressed(n, s, o)
<3>1. {} \in SUBSET Nodes
  OBVIOUS
<3> QED
  BY <2>1, <2>2, <3>1, PresentStep
<2>3. CASE AllowWindow(n, s, o) /\ Send(c, s, o, {n})
<3>1. gate' \in [Nodes -> Gates] /\ {n} \in SUBSET Nodes
  BY <2>3, AllowTyped DEF IInv
<3> QED
  BY <2>1, <2>3, <3>1, PresentStep
<2>4. CASE ~IsWindow /\ AllowBaseline(n, s, o) /\ Send(c, s, o, {})
<3>1. gate' \in [Nodes -> Gates] /\ {} \in SUBSET Nodes
  BY <2>4, AllowTyped DEF IInv
<3> QED
  BY <2>1, <2>4, <3>1, PresentStep
<2> QED
  BY <2>1, <2>2, <2>3, <2>4
<1>4. CASE ObserveCompletionShared(c, s, o) \/ ObserveSprayShared(c, s, o) \/ ObserveInvalidShared(c, s, o)
<2>1. Presented(c) /\ Send(c, s, o, {}) /\ UNCHANGED gate
  BY <1>4 DEF ObserveCompletionShared, ObserveSprayShared, ObserveInvalidShared
<2>2. gate' \in [Nodes -> Gates] /\ {} \in SUBSET Nodes
  BY <2>1 DEF IInv, TypeOK, Gates
<2> QED
  BY <2>1, <2>2, PresentStep
<1> QED
  BY <1>1, <1>2, <1>3, <1>4

LEMMA StutterStep ==
    ASSUME IInv, UNCHANGED vars
    PROVE  IInv'
<1>1. UNCHANGED <<mode, clock, state, saved, dirty, failed, process, flush, call, gate, acked, evicted, asked, lost>>
  BY DEF vars
<1>2. TypeOK /\ Past /\ Deployed /\ Holding /\ Current /\ SignalHeld /\ AckedHeld /\ ClusterInv
  BY DEF IInv
<1>3. TypeOK'
  BY <1>1, <1>2, Kept DEF TypeOK
<1>4. Past' /\ Holding' /\ AckedHeld'
  BY <1>1, <1>2 DEF Past, Holding, AckedHeld, Has
<1>5. Deployed' /\ Current'
  BY <1>1, <1>2, Kept DEF Deployed, Current
<1>6. SignalHeld'
  BY <1>1, <1>2 DEF SignalHeld, Signalled, Has
<1>7. ClusterInv'
  BY <1>1, <1>2, ClusterKept
<1> QED
  BY <1>3, <1>4, <1>5, <1>6, <1>7 DEF IInv

LEMMA NextLemma == IInv /\ [Next]_vars => IInv'
<1> SUFFICES ASSUME IInv, [Next]_vars PROVE IInv'
  OBVIOUS
<1>1. ASSUME NEW c \in Calls, NEW s \in Subjects, NEW o \in Observations,
             \/ ObserveAdmission(c, s, o) \/ ObserveCompletion(c, s, o)
             \/ ObserveLocal(c, s, o) \/ ObserveInvalidLocal(c, s, o)
             \/ \E n \in Nodes :
                   ObserveNovelty(n, c, s, o) \/ ObserveEnumeration(n, c, s, o) \/ ObserveConcurrency(n, c, s, o)
             \/ ObserveCompletionShared(c, s, o) \/ ObserveSprayShared(c, s, o) \/ ObserveInvalidShared(c, s, o)
      PROVE  IInv'
  BY <1>1, ObserveStep
<1>2. ASSUME NEW c \in Calls, MarkDirty(c) PROVE IInv'
  BY <1>2, MarkStep
<1>3. ASSUME NEW c \in Calls, ObserveWindow(c) \/ ObserveBaseline(c) PROVE IInv'
  BY <1>3, TransactionStep DEF ObserveWindow, ObserveBaseline
<1>4. CASE MaintainAdaptive
  BY <1>4, MaintainStep
<1>5. ASSUME NEW f \in Calls \cup {"ticker", "closer"}, BeginFlush(f) PROVE IInv'
  BY <1>5, BeginFlushStep
<1>6. CASE SnapshotState
  BY <1>6, SnapshotStep
<1>7. CASE SaveDetectorState
  BY <1>7, SaveStep
<1>8. CASE Close
  BY <1>8, CloseStep
<1>9. CASE Crash
  BY <1>9, CrashStep
<1>10. CASE Restart
  BY <1>10, RestartStep
<1>11. CASE Tick
  BY <1>11, TickStep
<1>12. CASE UNCHANGED vars
  BY <1>12, StutterStep
<1> QED
  BY <1>1, <1>2, <1>3, <1>4, <1>5, <1>6, <1>7, <1>8, <1>9, <1>10, <1>11, <1>12 DEF Next

(* The detector, the checkpoint, the copy of a flush on its way and the    *)
(* signals of the calls in progress stay consistent under every step of    *)
(* the process; in the cluster the rows cover what the gates let through.  *)
THEOREM Inductive == Spec => []IInv
  BY InitLemma, NextLemma, PTL DEF Spec

------------------------------------------------------------------------------
(* Every variable of the detectors keeps its type, whatever the            *)
(* interleaving of observations, flushes, maintenance and crashes.         *)
THEOREM TypeCorrect == Spec => []TypeOK
<1>1. IInv => TypeOK
  BY DEF IInv
<1> QED
  BY <1>1, Inductive, PTL

(* Flush loses no observation: with the flag clear, flushMu free and no    *)
(* observation about to raise the flag, the checkpoint is the detector.    *)
THEOREM FlushLosesNothing == Spec => []CheckpointCurrent
<1>1. IInv => CheckpointCurrent
  BY DEF IInv, Current, CheckpointCurrent
<1> QED
  BY <1>1, Inductive, PTL

(* A signal whose observation returned without a persistence error is in   *)
(* the checkpoint, as long as its subject is not evicted: a restart        *)
(* neither forgets it nor raises it again before its cooldown.             *)
THEOREM AckedSurvivesCrash == Spec => []AckedEmissionDurable
<1>1. IInv => AckedEmissionDurable
  BY DEF IInv, AckedHeld, AckedEmissionDurable, Has
<1> QED
  BY <1>1, Inductive, PTL

(* From every state a detector of an average can reach and every sample,   *)
(* the process and the cluster raise the same signal and learn the same    *)
(* average, and start the same cooldown unless the sample is a cost below  *)
(* the floor.                                                              *)
THEOREM DeploymentsAgree == Spec => []ReducersAgree
<1>1. IInv => ReducersAgree
<2> SUFFICES ASSUME IInv, ~IsWindow, NEW s \in DOMAIN state, NEW v \in Values
             PROVE  Agree(ReduceLocal(state[s], v, clock), ObserveBaselineShared(state[s], v, clock), v)
  BY DEF ReducersAgree, Agree
<2>1. mode \in Modes /\ clock \in Nat /\ state \in Table
  BY DEF IInv, TypeOK
<2>2. state[s] \in Detector
  BY <2>1, EntryTyped
<2>3. v \in Nat
  BY DetectorAssumption
<2> QED
  BY <2>1, <2>2, <2>3, Agreement
<1> QED
  BY <1>1, Inductive, PTL

(* What SprayDetected asks of a step of c.                                 *)
Detects(c) ==
    /\ Deployment = "cluster" /\ IsWindow
    /\ call[c].pc = "commit" /\ call'[c].pc = "idle" /\ state' # state
    => LET s == call[c].subject
           d == IF s \in DOMAIN state THEN state[s] ELSE Fresh
           recent == {k \in DOMAIN asked[s] : asked[s][k] >= clock - (Window - Refresh)}
       IN  /\ call[c].of \notin DOMAIN asked[s]
           /\ Cardinality(recent) >= WindowThreshold
           /\ Cooled(d, clock)
           => state'[s].lastEmit = clock

(* Only its transaction ends a call of the cluster and changes the rows.   *)
LEMMA CommitIsTransaction ==
    ASSUME IInv, Next, NEW c \in Calls, Deployment = "cluster",
           call[c].pc = "commit", call'[c].pc = "idle", state' # state
    PROVE  Transaction(c)
<1>1. process = "up" /\ flush.pc = "none" /\ call \in [Calls -> Progress]
  BY DEF IInv, Deployed, TypeOK
<1>2. ASSUME NEW f \in Calls, NEW s \in Subjects, NEW o \in Observations,
             \/ ObserveAdmission(f, s, o) \/ ObserveCompletion(f, s, o)
             \/ ObserveLocal(f, s, o) \/ ObserveInvalidLocal(f, s, o)
      PROVE  FALSE
<2>1. Observation(f, s, o)
  BY <1>2 DEF ObserveAdmission, ObserveCompletion, ObserveLocal, ObserveInvalidLocal
<2> QED
  BY <2>1 DEF Observation
<1>3. ASSUME NEW f \in Calls, NEW s \in Subjects, NEW o \in Observations,
             \/ \E n \in Nodes :
                   ObserveNovelty(n, f, s, o) \/ ObserveEnumeration(n, f, s, o) \/ ObserveConcurrency(n, f, s, o)
             \/ ObserveCompletionShared(f, s, o) \/ ObserveSprayShared(f, s, o) \/ ObserveInvalidShared(f, s, o)
      PROVE  FALSE
<2>1. Presented(f)
  BY <1>3 DEF ObserveNovelty, ObserveEnumeration, ObserveConcurrency,
              ObserveCompletionShared, ObserveSprayShared, ObserveInvalidShared
<2> QED
  BY <2>1 DEF Presented
<1>4. ASSUME NEW f \in Calls, MarkDirty(f) PROVE FALSE
  BY <1>4 DEF MarkDirty
<1>5. ASSUME NEW f \in Calls, ObserveWindow(f) \/ ObserveBaseline(f) PROVE Transaction(c)
<2>1. Transaction(f)
  BY <1>5 DEF ObserveWindow, ObserveBaseline
<2>2. call' = [call EXCEPT ![f] = IdleCall]
  BY <2>1 DEF Transaction
<2>3. f = c
  BY <1>1, <2>2
<2> QED
  BY <2>1, <2>3
<1>6. ~MaintainAdaptive
  BY DEF MaintainAdaptive
<1>7. ASSUME NEW f \in Calls \cup {"ticker", "closer"}, BeginFlush(f) PROVE FALSE
  BY <1>7 DEF BeginFlush
<1>8. ~SnapshotState /\ ~SaveDetectorState
  BY DEF SnapshotState, SaveDetectorState
<1>9. ~Close /\ ~Crash
  BY DEF Close, Crash
<1>10. ~Restart /\ ~Tick
  BY DEF Restart, Tick
<1> QED
  BY <1>2, <1>3, <1>4, <1>5, <1>6, <1>7, <1>8, <1>9, <1>10 DEF Next

LEMMA StepDetects ==
    ASSUME IInv, Next, NEW c \in Calls
    PROVE  Detects(c)
<1> DEFINE s == call[c].subject
           o == call[c].of
           d == Known(s)
           recent == {k \in DOMAIN asked[s] : asked[s][k] >= clock - (Window - Refresh)}
<1> SUFFICES ASSUME Deployment = "cluster", IsWindow,
                    call[c].pc = "commit", call'[c].pc = "idle", state' # state,
                    o \notin DOMAIN asked[s], Cardinality(recent) >= WindowThreshold, Cooled(d, clock)
             PROVE  state'[s].lastEmit = clock
  BY DEF Detects, Known
<1>1. TypeOK /\ Past /\ ClusterInv /\ mode \in Modes /\ clock \in Nat
  BY DEF IInv, TypeOK
<1>2. Transaction(c)
  BY CommitIsTransaction
<1>3. s \in Subjects /\ o \in Observations
  BY <1>1, ProgressIs
<1>4. Apply(s, o)
  BY <1>2 DEF Transaction
<1> HIDE DEF s, o, recent
<1>5. o \in Keys
  BY <1>1, <1>3, ObservationTyped
<1>6. state'[s] = Observed(s, o).state
  BY <1>1, <1>3, <1>4, ApplyDoes
<1>7. Known(s) \in Detector /\ Observed(s, o) = ObserveWindowShared(d, o, clock)
<2>1. Known(s) \in Detector /\ Observed(s, o) = Reduce(Known(s), o, clock)
  BY <1>1, <1>3, ObservedIs
<2> QED
  BY <2>1 DEF Reduce, ReduceShared
<1>8. d.keys = KeysOf(s)
  BY FreshTyped DEF Known, KeysOf
<1>9. Covers(d.keys, asked[s], clock) /\ Asks(d.keys, asked[s], clock)
  BY <1>1, <1>3, <1>8 DEF ClusterInv, Tracked
<1>10. (\A k \in DOMAIN asked[s] : asked[s][k] \in Nat) /\ (\A k \in DOMAIN d.keys : d.keys[k] \in Nat)
<2>1. asked[s] \in Maps(Keys \cup Values, Nat) /\ d.keys \in Maps(Keys, Nat)
  BY <1>1, <1>3, <1>7 DEF TypeOK, Detector
<2> QED
  BY <2>1, MapAt
<1>11. ASSUME NEW k \in recent PROVE k \in DOMAIN d.keys /\ d.keys[k] > clock - Window
<2>1. k \in DOMAIN asked[s] /\ asked[s][k] >= clock - (Window - Refresh) /\ asked[s][k] \in Nat
  BY <1>10, <1>11 DEF recent
<2>2. Window \in Nat /\ Refresh \in Nat
  BY DetectorAssumption
<2>3. k \in DOMAIN d.keys /\ asked[s][k] < d.keys[k] + Refresh
  BY <1>1, <1>9, <2>1, <2>2 DEF Covers
<2> QED
  BY <1>1, <1>10, <2>1, <2>2, <2>3
<1>12. ~(o \in DOMAIN d.keys /\ d.keys[o] > clock - Window) /\ recent \in SUBSET DOMAIN d.keys
  BY <1>9, <1>11 DEF Asks
<1> HIDE DEF d
<1>13. d \in Detector
  BY <1>7 DEF d
<1> QED
  BY <1>1, <1>5, <1>6, <1>7, <1>11, <1>12, <1>13, WindowSharedReduces

(* The gates of the nodes hide no spray from the authority: once a         *)
(* threshold of distinct keys was presented within the window less one     *)
(* refresh interval, the next new key raises the signal unless its         *)
(* cooldown runs, for any number of nodes, calls in flight, evictions and  *)
(* maintenance passes.                                                     *)
THEOREM GatesHideNoSpray == Spec => SprayDetected
<1>1. IInv /\ [Next]_vars => [\A c \in Calls : Detects(c)]_vars
  BY StepDetects
<1> QED
  BY <1>1, Inductive, PTL DEF Spec, SprayDetected, Detects
=============================================================================
