---------------------------- MODULE DecisionProofs ----------------------------
(***************************************************************************)
(* Proofs about what decides on a request: PolicyLifecycle, the policy in  *)
(* force, and Admission, the pipeline that applies it.                     *)
(*                                                                         *)
(* The policy, for every set of nodes, policies and operations, on either  *)
(* authority.  What compares policies by revision alone (RefinesRegister,  *)
(* ActivatedIsLoaded) needs that a revision is never used for two          *)
(* different policies (RevisionsDistinct); the rest does not.              *)
(*                                                                         *)
(* The pipeline, for every set of requests, vectors, lanes and rules.      *)
(* What compares times needs that the stores use one clock (~Standalone);  *)
(* that a block stays does not.                                            *)
(***************************************************************************)
EXTENDS PolicyLifecycle, Admission, TLAPS, SequenceTheorems, FiniteSetTheorems,
        WellFoundedInduction

PolicyOrNone == Policies \cup {NoPolicy}

Manifest == [epoch : Nat, active : PolicyOrNone, candidate : PolicyOrNone, previous : PolicyOrNone]

Manager ==
    [up : BOOLEAN, boots : Nat, current : PolicyOrNone, candidate : PolicyOrNone,
     known : SUBSET Policies, epoch : Nat, last : Nat, acked : Manifest,
     published : [policy : PolicyOrNone, epoch : Nat], echo : BOOLEAN, loaded : SUBSET Policies]

Mutations == {"prepare", "activate", "rollback"}

Job ==
    [kind : Mutations \cup {"none", "boot", "reconcile"}, op : Ops \cup {NoOp}, arg : PolicyOrNone,
     pc : {"load", "initialize", "reread", "ack", "act"}, seen : Manifest]

TypeOK ==
    /\ deployment \in Deployments
    /\ manifest \in Manifest
    /\ artifacts \subseteq Policies
    /\ acks \in [Nodes -> [boots : Nat, state : Manifest]]
    /\ claims \in [Ops -> [action : Mutations \cup {"none"}, target : PolicyOrNone]]
    /\ member \in [Nodes -> BOOLEAN]
    /\ mgr \in [Nodes -> Manager]
    /\ job \in [Nodes -> Job]
    /\ hist \in [active : Seq(Policies), done : [Ops -> Nat]]

(* The history ends with the active policy, at its epoch.                  *)
HistoryInv ==
    /\ Len(hist.active) = manifest.epoch
    /\ manifest.epoch # 0 => hist.active[manifest.epoch] = manifest.active
    /\ manifest.epoch = 0 => manifest.active = NoPolicy /\ manifest.candidate = NoPolicy

(* An operation has taken effect when its id is claimed.                   *)
ClaimsInv == \A o \in Ops : hist.done[o] = IF claims[o] = NoClaim THEN 0 ELSE 1

(* A policy that was activated with an epoch.                              *)
Activation(p, e) == e \in 1..Len(hist.active) /\ hist.active[e] = p

(* Once an operation has refreshed, the manager's policy and epoch belong  *)
(* together; between operations they need not (HalfRefreshed).             *)
ManagersInv ==
    \A n \in Nodes :
        /\ job[n].pc \in {"ack", "act"} => Activation(mgr[n].current, mgr[n].epoch)
        /\ job[n].pc = "act" => job[n].kind \in Mutations
        /\ job[n].pc = "ack" => job[n].kind # "none"
        /\ mgr[n].up /\ job[n].kind # "boot" => manifest.epoch # 0
        /\ ~mgr[n].echo => Coherent(mgr[n].published)

IInv == TypeOK /\ HistoryInv /\ ClaimsInv /\ ManagersInv

-----------------------------------------------------------------------------
RevisionsDistinct == \A p, q \in Policies : p.rev = q.rev => p = q

Past == {hist.active[i] : i \in DOMAIN hist.active}

(* What a manager may roll back to has been active.                        *)
PastInv ==
    /\ manifest.previous \in Past \cup {NoPolicy}
    /\ \A o \in Ops : claims[o].action \in {"activate", "rollback"} => claims[o].target \in Past
    /\ \A n \in Nodes : mgr[n].known \subseteq Past /\ mgr[n].current \in Past \cup {NoPolicy}

(* A process has loaded the candidate it acknowledged, or is about to.     *)
LoadedInv ==
    \A n \in Nodes :
        /\ acks[n].boots <= mgr[n].boots
        /\ mgr[n].up /\ acks[n].boots = mgr[n].boots
              => acks[n].state.candidate \in mgr[n].loaded \cup {NoPolicy}
        /\ job[n].pc = "ack" => job[n].seen.candidate \in mgr[n].loaded \cup {NoPolicy}
        /\ job[n].kind = "boot" /\ job[n].pc # "ack" => mgr[n].loaded = {}

RInv == PastInv /\ LoadedInv

(* What every step keeps.                                                  *)
Kept == IInv' /\ (RevisionsDistinct /\ RInv => RInv')

-----------------------------------------------------------------------------
(***************************************************************************)
(* The manager's memory.                                                   *)
(***************************************************************************)
LEMMA RevType ==
    ASSUME NEW p \in PolicyOrNone
    PROVE  Rev(p) \in Nat /\ (Rev(p) = 0 <=> p = NoPolicy)
  BY PolicyAssumption DEF Rev, PolicyOrNone

LEMMA SameRevision ==
    ASSUME RevisionsDistinct, NEW p \in PolicyOrNone, NEW q \in PolicyOrNone, Rev(p) = Rev(q)
    PROVE  p = q
  <1>1. CASE p = NoPolicy \/ q = NoPolicy
    BY <1>1, RevType
  <1>2. CASE p \in Policies /\ q \in Policies /\ p # NoPolicy /\ q # NoPolicy
    BY <1>2 DEF RevisionsDistinct, Rev
  <1> QED
    BY <1>1, <1>2 DEF PolicyOrNone

LEMMA KnowingFacts ==
    ASSUME NEW known \in SUBSET Policies, NEW p \in PolicyOrNone
    PROVE  Knowing(known, p) \in SUBSET Policies /\ Knowing(known, p) \subseteq known \cup {p}
  BY DEF Knowing, PolicyOrNone

LEMMA MostNat ==
    ASSUME NEW a \in Nat, NEW b \in Nat
    PROVE  Most(a, b) \in Nat
  BY DEF Most

(* What a refresh does to a manager: the shared policy and epoch, known    *)
(* policies from the manifest, a candidate of the manifest's revision.     *)
LEMMA RefreshedFacts ==
    ASSUME NEW m \in Manager, NEW f \in Manifest
    PROVE  LET x == Refreshed(m, f) IN
           /\ x \in Manager
           /\ x.up = m.up /\ x.boots = m.boots /\ x.published = m.published /\ x.echo = m.echo
           /\ x.epoch = f.epoch /\ x.current = f.active
           /\ x.known \subseteq m.known \cup {f.active, f.previous}
           /\ m.loaded \subseteq x.loaded
           /\ RevisionsDistinct => f.candidate \in x.loaded \cup {NoPolicy}
  <1> DEFINE cand == IF Rev(m.candidate) = Rev(f.candidate) THEN m.candidate ELSE f.candidate
             known == Knowing(m.known, f.active)
             prev == IF \E q \in known : q.rev = Rev(f.previous) THEN NoPolicy ELSE f.previous
             good == IF prev = NoPolicy THEN known ELSE Knowing(known, prev)
             last == Most(Most(m.last, Rev(f.active)), Rev(cand))
             loaded == m.loaded \cup ({m.current, f.active, cand, prev} \ {NoPolicy})
  <1>1. /\ m.candidate \in PolicyOrNone /\ f.candidate \in PolicyOrNone /\ m.current \in PolicyOrNone
        /\ f.active \in PolicyOrNone /\ f.previous \in PolicyOrNone /\ m.known \in SUBSET Policies
        /\ m.loaded \in SUBSET Policies /\ m.last \in Nat /\ f.epoch \in Nat
    BY DEF Manager, Manifest
  <1>2. cand \in PolicyOrNone /\ (RevisionsDistinct => cand = f.candidate)
    BY <1>1, SameRevision
  <1>3. known \in SUBSET Policies /\ known \subseteq m.known \cup {f.active}
    BY <1>1, KnowingFacts
  <1>4. prev \in {NoPolicy, f.previous} /\ prev \in PolicyOrNone
    BY <1>1 DEF PolicyOrNone
  <1>5. Refreshed(m, f) = [m EXCEPT !.epoch = f.epoch, !.current = f.active, !.candidate = cand,
                                    !.known = good, !.last = last, !.loaded = loaded]
    BY DEF Refreshed
  <1>6. good \in SUBSET Policies /\ good \subseteq m.known \cup {f.active, f.previous}
    <2> HIDE DEF known, prev
    <2> QED
      BY <1>1, <1>3, <1>4, KnowingFacts DEF PolicyOrNone
  <1>7. last \in Nat
    <2> HIDE DEF cand
    <2>1. Rev(f.active) \in Nat /\ Rev(cand) \in Nat
      BY <1>1, <1>2, RevType
    <2> QED
      BY <1>1, <2>1, MostNat
  <1>8. /\ loaded \in SUBSET Policies /\ m.loaded \subseteq loaded
        /\ RevisionsDistinct => f.candidate \in loaded \cup {NoPolicy}
    <2> HIDE DEF cand, prev
    <2> QED
      BY <1>1, <1>2, <1>4 DEF PolicyOrNone
  <1> HIDE DEF cand, good, last, loaded
  <1> QED
    BY ZenonT(60), <1>1, <1>2, <1>5, <1>6, <1>7, <1>8 DEF Manager

(* A refresh that fails half-way.                                          *)
LEMMA HalfRefreshedFacts ==
    ASSUME NEW m \in Manager, NEW f \in Manifest, f.active \in Policies, NEW x \in HalfRefreshed(m, f)
    PROVE  /\ x \in Manager
           /\ x.up = m.up /\ x.boots = m.boots /\ x.published = m.published /\ x.echo = m.echo
           /\ x.known \subseteq m.known \cup {f.active}
           /\ x.current \in {m.current, f.active}
           /\ m.loaded \subseteq x.loaded
  <1>1. /\ Knowing(m.known, f.active) \in SUBSET Policies
        /\ Knowing(m.known, f.active) \subseteq m.known \cup {f.active}
    BY KnowingFacts DEF Manager, PolicyOrNone
  <1>2. Most(m.last, Rev(f.active)) \in Nat
    BY RevType, MostNat DEF Manager, PolicyOrNone
  <1>3. m.loaded \cup {f.active} \in SUBSET Policies
    BY DEF Manager
  <1>4. CASE x = [m EXCEPT !.epoch = f.epoch]
    BY <1>4 DEF Manager, Manifest
  <1>5. CASE x = [m EXCEPT !.epoch = f.epoch, !.current = f.active, !.known = Knowing(m.known, f.active),
                           !.last = Most(m.last, Rev(f.active)), !.loaded = m.loaded \cup {f.active}]
    BY <1>1, <1>2, <1>3, <1>5 DEF Manager, Manifest
  <1> QED
    BY <1>4, <1>5 DEF HalfRefreshed

(* A manager constructed from the manifest.                                *)
LEMMA NewManagerFacts ==
    ASSUME NEW m \in Manager, NEW f \in Manifest, f.active \in Policies
    PROVE  LET x == NewManager(m, f) IN
           /\ x \in Manager
           /\ x.up = m.up /\ x.boots = m.boots /\ x.published = m.published /\ x.echo = m.echo
           /\ x.epoch = f.epoch /\ x.current = f.active
           /\ x.known \subseteq {f.active, f.previous} /\ NoPolicy \notin x.known
           /\ f.candidate \in x.loaded \cup {NoPolicy}
  <1> DEFINE known == IF f.previous = NoPolicy THEN {f.active} ELSE Knowing({f.active}, f.previous)
             last == IF f.candidate = NoPolicy THEN Rev(f.active) ELSE Rev(f.candidate)
             loaded == {f.active, f.candidate, f.previous} \ {NoPolicy}
  <1>1. known \in SUBSET Policies /\ known \subseteq {f.active, f.previous}
    BY KnowingFacts DEF Manifest
  <1>2. last \in Nat
    BY RevType DEF Manifest
  <1>3. loaded \in SUBSET Policies /\ f.candidate \in loaded \cup {NoPolicy}
    BY DEF Manifest, PolicyOrNone
  <1>4. NewManager(m, f) = [m EXCEPT !.epoch = f.epoch, !.current = f.active, !.candidate = f.candidate,
                                     !.known = known, !.last = last, !.loaded = loaded]
    BY DEF NewManager
  <1>5. NoPolicy \notin known
    BY <1>1, PolicyAssumption
  <1> HIDE DEF known, last, loaded
  <1> QED
    BY ZenonT(60), <1>1, <1>2, <1>3, <1>4, <1>5 DEF Manager, Manifest

LEMMA PublishFacts ==
    ASSUME NEW m \in Manager
    PROVE  LET x == publishLocked(m) IN
           /\ x \in Manager
           /\ x.published = [policy |-> m.current, epoch |-> m.epoch] /\ x.echo = FALSE
           /\ x.up = m.up /\ x.boots = m.boots /\ x.current = m.current /\ x.epoch = m.epoch
           /\ x.known = m.known /\ x.loaded = m.loaded
  BY DEF publishLocked, Manager

LEMMA DownFacts ==
    ASSUME NEW b \in Nat
    PROVE  /\ LET x == [Down EXCEPT !.boots = b] IN
              /\ x \in Manager /\ x.up = FALSE /\ x.boots = b /\ x.known = {} /\ x.current = NoPolicy
              /\ x.published = Unpublished /\ x.loaded = {}
           /\ LET x == [Down EXCEPT !.up = TRUE, !.boots = b] IN
              /\ x \in Manager /\ x.up = TRUE /\ x.boots = b /\ x.known = {} /\ x.current = NoPolicy
              /\ x.published = Unpublished /\ x.loaded = {}
  BY DEF Down, Manager, Manifest, NoManifest, Unpublished, PolicyOrNone

LEMMA NoJobFacts == NoJob \in Job /\ NoJob.pc = "load" /\ NoJob.kind = "none"
  BY DEF NoJob, Job, Manifest, NoManifest, PolicyOrNone

LEMMA UnpublishedCoherent == Coherent(Unpublished)
  BY DEF Coherent, Unpublished

(* The active policy, once there is one.                                   *)
LEMMA ActiveFacts ==
    ASSUME IInv, manifest.epoch # 0
    PROVE  /\ manifest.active \in Policies /\ manifest.active \in Past
           /\ Activation(manifest.active, manifest.epoch)
  <1>1. manifest.epoch \in 1..Len(hist.active) /\ hist.active \in Seq(Policies)
    BY DEF IInv, TypeOK, HistoryInv, Manifest
  <1>2. manifest.active = hist.active[manifest.epoch] /\ manifest.epoch \in DOMAIN hist.active
    BY <1>1 DEF IInv, HistoryInv
  <1>3. hist.active[manifest.epoch] \in Policies
    BY <1>1, <1>2
  <1> QED
    BY <1>1, <1>2, <1>3 DEF Past, Activation

(* An activation is appended to the history: what was activated before     *)
(* stays so.                                                               *)
LEMMA HistoryGrows ==
    ASSUME hist.active \in Seq(Policies), NEW p \in Policies, hist'.active = Append(hist.active, p)
    PROVE  /\ hist'.active \in Seq(Policies) /\ Len(hist'.active) = Len(hist.active) + 1
           /\ hist'.active[Len(hist.active) + 1] = p
           /\ \A q, e : Activation(q, e) => Activation(q, e)'
           /\ \A v : Coherent(v) /\ v.epoch \in Nat => Coherent(v)'
           /\ Past' = Past \cup {p}
  <1> DEFINE h == hist.active
             g == Append(h, p)
  <1>1. g \in Seq(Policies) /\ Len(g) = Len(h) + 1 /\ g[Len(h) + 1] = p /\ Len(h) \in Nat
    OBVIOUS
  <1>2. \A i \in 1..Len(h) : g[i] = h[i]
    OBVIOUS
  <1>3. DOMAIN h = 1..Len(h) /\ DOMAIN g = 1..(Len(h) + 1)
    BY <1>1
  <1>4. Past' = Past \cup {p}
    <2>1. Past = {h[i] : i \in 1..Len(h)} /\ Past' = {g[i] : i \in 1..(Len(h) + 1)}
      BY <1>3 DEF Past
    <2>2. \A i \in 1..(Len(h) + 1) : i \in 1..Len(h) \/ i = Len(h) + 1
      BY <1>1
    <2>3. \A i \in 1..Len(h) : i \in 1..(Len(h) + 1)
      BY <1>1
    <2>4. Len(h) + 1 \in 1..(Len(h) + 1)
      BY <1>1
    <2> HIDE DEF h, g
    <2>5. ASSUME NEW v \in Past' PROVE v \in Past \cup {p}
      BY <1>1, <1>2, <2>1, <2>2
    <2>6. ASSUME NEW v \in Past \cup {p} PROVE v \in Past'
      BY <1>1, <1>2, <2>1, <2>3, <2>4
    <2> QED
      BY <2>5, <2>6
  <1>5. ASSUME NEW q, NEW e, Activation(q, e) PROVE Activation(q, e)'
    BY <1>1, <1>2, <1>5 DEF Activation
  <1>6. ASSUME NEW v, Coherent(v), v.epoch \in Nat PROVE Coherent(v)'
    BY <1>1, <1>2, <1>6 DEF Coherent
  <1> QED
    BY <1>1, <1>4, <1>5, <1>6

(* A step of one node that leaves the manifest, the claims and the history *)
(* alone: x is its manager afterwards, y its operation, a what it has      *)
(* acknowledged.                                                           *)
LEMMA OneNode ==
    ASSUME IInv, NEW n \in Nodes, NEW x \in Manager, NEW y \in Job,
           NEW a \in [boots : Nat, state : Manifest],
           mgr' = [mgr EXCEPT ![n] = x],
           job' = [job EXCEPT ![n] = y],
           acks' = [acks EXCEPT ![n] = a],
           artifacts' \subseteq Policies, member' \in [Nodes -> BOOLEAN],
           UNCHANGED <<deployment, manifest, claims, hist>>,
           y.pc \in {"ack", "act"} => Activation(x.current, x.epoch),
           y.pc = "act" => y.kind \in Mutations,
           y.pc = "ack" => y.kind # "none",
           x.up /\ y.kind # "boot" => manifest.epoch # 0,
           ~x.echo => Coherent(x.published),
           RevisionsDistinct /\ RInv =>
              /\ x.known \subseteq Past /\ x.current \in Past \cup {NoPolicy}
              /\ a.boots <= x.boots
              /\ x.up /\ a.boots = x.boots => a.state.candidate \in x.loaded \cup {NoPolicy}
              /\ y.pc = "ack" => y.seen.candidate \in x.loaded \cup {NoPolicy}
              /\ y.kind = "boot" /\ y.pc # "ack" => x.loaded = {}
    PROVE  Kept
  <1>1. TypeOK'
    BY DEF IInv, TypeOK
  <1>2. HistoryInv' /\ ClaimsInv'
    BY DEF IInv, HistoryInv, ClaimsInv
  <1>3. \A k \in Nodes : /\ mgr'[k] = IF k = n THEN x ELSE mgr[k]
                         /\ job'[k] = IF k = n THEN y ELSE job[k]
                         /\ acks'[k] = IF k = n THEN a ELSE acks[k]
    BY DEF IInv, TypeOK
  <1>4. ManagersInv'
    BY <1>3 DEF IInv, ManagersInv, Activation, Coherent
  <1>5. ASSUME RevisionsDistinct, RInv PROVE RInv'
    <2>1. Past' = Past
      BY DEF Past
    <2>2. PastInv'
      BY <1>3, <1>5, <2>1 DEF RInv, PastInv
    <2>3. LoadedInv'
      BY <1>3, <1>5 DEF RInv, LoadedInv
    <2> QED
      BY <2>2, <2>3 DEF RInv
  <1> QED
    BY <1>1, <1>2, <1>4, <1>5 DEF IInv, Kept

LEMMA Typed ==
    ASSUME IInv, NEW n \in Nodes
    PROVE  /\ mgr[n] \in Manager /\ job[n] \in Job /\ manifest \in Manifest
           /\ acks[n] \in [boots : Nat, state : Manifest]
           /\ mgr = [mgr EXCEPT ![n] = mgr[n]] /\ job = [job EXCEPT ![n] = job[n]]
           /\ acks = [acks EXCEPT ![n] = acks[n]]
           /\ artifacts \subseteq Policies /\ member \in [Nodes -> BOOLEAN]
  BY DEF IInv, TypeOK

(* The same when the node acknowledges nothing.                            *)
LEMMA QuietNode ==
    ASSUME IInv, NEW n \in Nodes, NEW x \in Manager, NEW y \in Job,
           mgr' = [mgr EXCEPT ![n] = x],
           job' = [job EXCEPT ![n] = y],
           artifacts' \subseteq Policies, member' \in [Nodes -> BOOLEAN],
           UNCHANGED <<deployment, manifest, acks, claims, hist>>,
           y.pc \in {"ack", "act"} => Activation(x.current, x.epoch),
           y.pc = "act" => y.kind \in Mutations,
           y.pc = "ack" => y.kind # "none",
           x.up /\ y.kind # "boot" => manifest.epoch # 0,
           ~x.echo => Coherent(x.published),
           RevisionsDistinct /\ RInv =>
              /\ x.known \subseteq Past /\ x.current \in Past \cup {NoPolicy}
              /\ acks[n].boots <= x.boots
              /\ x.up /\ acks[n].boots = x.boots => acks[n].state.candidate \in x.loaded \cup {NoPolicy}
              /\ y.pc = "ack" => y.seen.candidate \in x.loaded \cup {NoPolicy}
              /\ y.kind = "boot" /\ y.pc # "ack" => x.loaded = {}
    PROVE  Kept
  <1> DEFINE a == acks[n]
  <1>1. a \in [boots : Nat, state : Manifest] /\ acks' = [acks EXCEPT ![n] = a]
    BY Typed
  <1>2. RevisionsDistinct /\ RInv =>
              /\ x.known \subseteq Past /\ x.current \in Past \cup {NoPolicy}
              /\ a.boots <= x.boots
              /\ x.up /\ a.boots = x.boots => a.state.candidate \in x.loaded \cup {NoPolicy}
              /\ y.pc = "ack" => y.seen.candidate \in x.loaded \cup {NoPolicy}
              /\ y.kind = "boot" /\ y.pc # "ack" => x.loaded = {}
    OBVIOUS
  <1> HIDE DEF a
  <1> QED
    BY <1>1, <1>2, OneNode

(* What the acknowledgement of f by node n writes.                         *)
LEMMA ObservedFacts ==
    ASSUME IInv, NEW n \in Nodes, NEW f \in Manifest
    PROVE  \E a \in [boots : Nat, state : Manifest] :
              /\ Observed(n, f) = [acks EXCEPT ![n] = a]
              /\ a = acks[n] \/ a = [boots |-> mgr[n].boots, state |-> f]
  <1> DEFINE a == [boots |-> mgr[n].boots, state |-> f]
  <1>1. a \in [boots : Nat, state : Manifest]
    BY Typed DEF Manager
  <1>2. CASE Cluster
    <2>1. Observed(n, f) = [acks EXCEPT ![n] = a]
      BY <1>2 DEF Observed
    <2> HIDE DEF a
    <2> QED
      BY <1>1, <2>1 DEF a
  <1>3. CASE ~Cluster
    <2>1. Observed(n, f) = [acks EXCEPT ![n] = acks[n]]
      BY <1>3, Typed DEF Observed
    <2> QED
      BY <2>1, Typed
  <1> QED
    BY <1>2, <1>3

(* What R says of a node.                                                  *)
LEMMA NodeR ==
    ASSUME RInv, NEW n \in Nodes
    PROVE  /\ mgr[n].known \subseteq Past /\ mgr[n].current \in Past \cup {NoPolicy}
           /\ acks[n].boots <= mgr[n].boots
           /\ mgr[n].up /\ acks[n].boots = mgr[n].boots
                 => acks[n].state.candidate \in mgr[n].loaded \cup {NoPolicy}
           /\ job[n].pc = "ack" => job[n].seen.candidate \in mgr[n].loaded \cup {NoPolicy}
           /\ job[n].kind = "boot" /\ job[n].pc # "ack" => mgr[n].loaded = {}
           /\ manifest.previous \in Past \cup {NoPolicy}
  BY DEF RInv, PastInv, LoadedInv

(* An operation that ends in an error, with the manager as m.              *)
LEMMA FailedStep ==
    ASSUME IInv, NEW n \in Nodes, NEW m \in Manager, NEW kind, Failed(n, kind, m),
           NEW a \in [boots : Nat, state : Manifest], acks' = [acks EXCEPT ![n] = a],
           UNCHANGED <<deployment, manifest, artifacts, claims, member, hist>>,
           m.up => manifest.epoch # 0,
           ~m.echo => Coherent(m.published),
           RevisionsDistinct /\ RInv =>
              /\ m.known \subseteq Past /\ m.current \in Past \cup {NoPolicy}
              /\ a.boots <= m.boots
              /\ m.up /\ a.boots = m.boots => a.state.candidate \in m.loaded \cup {NoPolicy}
    PROVE  Kept
  <1> DEFINE x == IF kind = "reconcile" THEN [m EXCEPT !.published = Unpublished] ELSE m
  <1>1. /\ x \in Manager /\ x.up = m.up /\ x.boots = m.boots /\ x.known = m.known
        /\ x.current = m.current /\ x.loaded = m.loaded /\ x.echo = m.echo
        /\ x.published \in {m.published, Unpublished}
    BY DEF Manager, Unpublished, PolicyOrNone
  <1>2. mgr' = [mgr EXCEPT ![n] = x] /\ job' = [job EXCEPT ![n] = NoJob]
    BY DEF Failed, Finish
  <1> HIDE DEF x
  <1>3. ~x.echo => Coherent(x.published)
    BY <1>1, UnpublishedCoherent
  <1>4. NoJob \in Job /\ NoJob.pc = "load" /\ NoJob.kind # "boot"
    BY NoJobFacts
  <1>5. x.up /\ NoJob.kind # "boot" => manifest.epoch # 0
    BY <1>1
  <1>6. RevisionsDistinct /\ RInv =>
              /\ x.known \subseteq Past /\ x.current \in Past \cup {NoPolicy}
              /\ a.boots <= x.boots
              /\ x.up /\ a.boots = x.boots => a.state.candidate \in x.loaded \cup {NoPolicy}
    BY <1>1
  <1>7. artifacts' \subseteq Policies /\ member' \in [Nodes -> BOOLEAN]
    BY Typed
  <1> QED
    BY <1>1, <1>2, <1>3, <1>4, <1>5, <1>6, <1>7, OneNode

LEMMA StartStep ==
    ASSUME IInv, NEW n \in Nodes, Start(n)
    PROVE  Kept
  <1> DEFINE x == [Down EXCEPT !.up = TRUE, !.boots = mgr[n].boots + 1]
             y == [NoJob EXCEPT !.kind = "boot"]
  <1>1. mgr[n].boots \in Nat /\ mgr[n].boots + 1 \in Nat
    BY Typed DEF Manager
  <1>2. /\ x \in Manager /\ x.up = TRUE /\ x.boots = mgr[n].boots + 1 /\ x.known = {}
        /\ x.current = NoPolicy /\ x.published = Unpublished /\ x.loaded = {}
    BY <1>1, DownFacts
  <1>3. y \in Job /\ y.pc = "load" /\ y.kind = "boot"
    BY DEF NoJob, Job, Manifest, NoManifest, PolicyOrNone
  <1>4. /\ mgr' = [mgr EXCEPT ![n] = x] /\ job' = [job EXCEPT ![n] = y]
        /\ acks' = [acks EXCEPT ![n] = acks[n]] /\ acks[n] \in [boots : Nat, state : Manifest]
        /\ UNCHANGED <<deployment, manifest, claims, hist>>
        /\ artifacts' \subseteq Policies
    BY Typed DEF Start
  <1>5. member' \in [Nodes -> BOOLEAN]
    BY Typed DEF Start
  <1>6. Coherent(x.published)
    BY <1>2, UnpublishedCoherent
  <1> HIDE DEF x, y
  <1>7. ASSUME RInv PROVE acks[n].boots <= x.boots /\ acks[n].boots # x.boots
    BY <1>1, <1>2, <1>4, <1>7, NodeR
  <1>8. y.pc # "ack" /\ y.pc # "act"
    BY <1>3
  <1>9. RevisionsDistinct /\ RInv =>
              /\ x.known \subseteq Past /\ x.current \in Past \cup {NoPolicy}
              /\ acks[n].boots <= x.boots
              /\ x.up /\ acks[n].boots = x.boots => acks[n].state.candidate \in x.loaded \cup {NoPolicy}
    BY <1>2, <1>7
  <1> QED
    BY <1>2, <1>3, <1>4, <1>5, <1>6, <1>8, <1>9, OneNode

(* The manager of a starting process is built from the manifest.           *)
LEMMA ConstructStep ==
    ASSUME IInv, NEW n \in Nodes, manifest.epoch # 0, job[n].kind = "boot", job[n].pc # "ack",
           NEW x, x = NewManager(mgr[n], manifest), mgr' = [mgr EXCEPT ![n] = x],
           NEW y \in Job, y.pc = "ack", y.kind = "boot", y.seen = manifest, job' = [job EXCEPT ![n] = y],
           UNCHANGED <<deployment, manifest, artifacts, acks, claims, member, hist>>
    PROVE  Kept
  <1>1. /\ mgr[n] \in Manager /\ job[n] \in Job /\ manifest \in Manifest
        /\ artifacts' \subseteq Policies /\ member' \in [Nodes -> BOOLEAN]
    BY Typed
  <1>2. /\ manifest.active \in Policies /\ manifest.active \in Past
        /\ Activation(manifest.active, manifest.epoch)
    BY ActiveFacts
  <1>3. /\ x \in Manager
        /\ x.up = mgr[n].up /\ x.boots = mgr[n].boots /\ x.published = mgr[n].published
        /\ x.echo = mgr[n].echo /\ x.epoch = manifest.epoch /\ x.current = manifest.active
        /\ x.known \subseteq {manifest.active, manifest.previous} /\ NoPolicy \notin x.known
        /\ manifest.candidate \in x.loaded \cup {NoPolicy}
    BY <1>1, <1>2, NewManagerFacts
  <1>6. Activation(x.current, x.epoch)
    BY <1>2, <1>3
  <1>7. ~x.echo => Coherent(x.published)
    BY <1>3 DEF IInv, ManagersInv
  <1>8. ASSUME RInv
        PROVE  /\ x.known \subseteq Past /\ x.current \in Past \cup {NoPolicy}
               /\ acks[n].boots <= x.boots
               /\ x.up /\ acks[n].boots = x.boots => acks[n].state.candidate \in x.loaded \cup {NoPolicy}
               /\ y.pc = "ack" => y.seen.candidate \in x.loaded \cup {NoPolicy}
    <2>1. x.known \subseteq Past /\ x.current \in Past /\ acks[n].boots <= x.boots
      BY <1>2, <1>3, <1>8, NodeR
    <2>2. mgr[n].loaded = {}
      BY <1>8, NodeR
    <2> QED
      BY <1>3, <1>8, <2>1, <2>2, NodeR
  <1>9. /\ y.pc \in {"ack", "act"} => Activation(x.current, x.epoch)
        /\ y.pc = "act" => y.kind \in Mutations
        /\ x.up /\ y.kind # "boot" => manifest.epoch # 0
        /\ y.kind = "boot" /\ y.pc # "ack" => x.loaded = {}
    BY <1>6
  <1>10. RevisionsDistinct /\ RInv =>
              /\ x.known \subseteq Past /\ x.current \in Past \cup {NoPolicy}
              /\ acks[n].boots <= x.boots
              /\ x.up /\ acks[n].boots = x.boots => acks[n].state.candidate \in x.loaded \cup {NoPolicy}
              /\ y.pc = "ack" => y.seen.candidate \in x.loaded \cup {NoPolicy}
              /\ y.kind = "boot" /\ y.pc # "ack" => x.loaded = {}
    BY <1>8, <1>9
  <1> QED
    BY <1>1, <1>3, <1>7, <1>9, <1>10, QuietNode

LEMMA BootStep ==
    ASSUME IInv, NEW n \in Nodes, Boot(n)
    PROVE  Kept
  <1>1. mgr[n] \in Manager /\ job[n] \in Job /\ manifest \in Manifest /\ artifacts \subseteq Policies
        /\ member \in [Nodes -> BOOLEAN] /\ mgr = [mgr EXCEPT ![n] = mgr[n]]
    BY Typed
  <1>2. /\ job[n].kind = "boot" /\ job[n].pc = "load"
        /\ UNCHANGED <<deployment, manifest, acks, claims, member, hist>>
    BY DEF Boot
  <1>3. CASE manifest.epoch = 0
    <2> DEFINE y == [job[n] EXCEPT !.pc = "initialize"]
               x == mgr[n]
    <2>1. y \in Job /\ y.pc = "initialize" /\ y.kind = "boot"
      BY <1>1, <1>2 DEF Job
    <2>2. job' = [job EXCEPT ![n] = y] /\ artifacts' = artifacts \cup {Configured[n]} /\ mgr' = [mgr EXCEPT ![n] = x]
      BY <1>1, <1>3 DEF Boot, Advance
    <2>3. artifacts' \subseteq Policies /\ member' \in [Nodes -> BOOLEAN] /\ x \in Manager
      BY <1>1, <1>2, <2>2, PolicyAssumption
    <2>4. ~x.echo => Coherent(x.published)
      BY DEF IInv, ManagersInv
    <2>5. ASSUME RInv
          PROVE  /\ x.known \subseteq Past /\ x.current \in Past \cup {NoPolicy}
                 /\ acks[n].boots <= x.boots
                 /\ x.up /\ acks[n].boots = x.boots => acks[n].state.candidate \in x.loaded \cup {NoPolicy}
                 /\ x.loaded = {}
      BY <1>2, <2>5, NodeR
    <2> HIDE DEF x, y
    <2>6. /\ y.pc \notin {"ack", "act"} /\ y.pc # "act" /\ y.pc # "ack" /\ ~(y.kind # "boot")
      BY <2>1
    <2> QED
      BY <1>2, <2>1, <2>2, <2>3, <2>4, <2>5, <2>6, QuietNode
  <1>4. CASE manifest.epoch # 0
    <2> DEFINE y == [job[n] EXCEPT !.pc = "ack", !.seen = manifest]
               x == NewManager(mgr[n], manifest)
    <2>1. y \in Job /\ y.pc = "ack" /\ y.kind = "boot" /\ y.seen = manifest
      BY <1>1, <1>2 DEF Job
    <2>2. job' = [job EXCEPT ![n] = y] /\ UNCHANGED artifacts /\ mgr' = [mgr EXCEPT ![n] = x]
      BY <1>4 DEF Boot
    <2>3. x = NewManager(mgr[n], manifest)
      OBVIOUS
    <2> HIDE DEF x, y
    <2> QED
      BY <1>2, <1>4, <2>1, <2>2, <2>3, ConstructStep
  <1> QED
    BY <1>3, <1>4

LEMMA RereadStep ==
    ASSUME IInv, NEW n \in Nodes, Reread(n)
    PROVE  Kept
  <1> DEFINE y == [job[n] EXCEPT !.pc = "ack", !.seen = manifest]
             x == NewManager(mgr[n], manifest)
  <1>1. mgr[n] \in Manager /\ job[n] \in Job /\ manifest \in Manifest
    BY Typed
  <1>2. /\ job[n].kind = "boot" /\ job[n].pc = "reread" /\ manifest.active = Configured[n]
        /\ job' = [job EXCEPT ![n] = y] /\ mgr' = [mgr EXCEPT ![n] = x]
        /\ UNCHANGED <<deployment, manifest, artifacts, acks, claims, member, hist>>
    BY DEF Reread
  <1>3. y \in Job /\ y.pc = "ack" /\ y.kind = "boot" /\ y.seen = manifest
    BY <1>1, <1>2 DEF Job
  <1>4. manifest.epoch # 0
    BY <1>2, PolicyAssumption DEF IInv, HistoryInv
  <1>5. x = NewManager(mgr[n], manifest)
    OBVIOUS
  <1> HIDE DEF x, y
  <1> QED
    BY <1>2, <1>3, <1>4, <1>5, ConstructStep

LEMMA CrashStep ==
    ASSUME IInv, NEW n \in Nodes, Crash(n)
    PROVE  Kept
  <1> DEFINE x == [Down EXCEPT !.boots = mgr[n].boots]
  <1>1. mgr[n].boots \in Nat /\ artifacts \subseteq Policies /\ member \in [Nodes -> BOOLEAN]
    BY Typed DEF Manager
  <1>2. /\ x \in Manager /\ x.up = FALSE /\ x.boots = mgr[n].boots /\ x.known = {}
        /\ x.current = NoPolicy /\ x.published = Unpublished /\ x.loaded = {}
    BY <1>1, DownFacts
  <1>3. /\ mgr' = [mgr EXCEPT ![n] = x] /\ job' = [job EXCEPT ![n] = NoJob]
        /\ UNCHANGED <<deployment, manifest, artifacts, acks, claims, member, hist>>
    BY DEF Crash, Finish
  <1> HIDE DEF x
  <1>4. NoJob \in Job /\ NoJob.pc \notin {"ack", "act"} /\ NoJob.pc # "act" /\ NoJob.pc # "ack"
        /\ NoJob.kind # "boot"
    BY NoJobFacts
  <1>5. Coherent(x.published) /\ ~x.up
    BY <1>2, UnpublishedCoherent
  <1>6. ASSUME RInv
        PROVE  x.known \subseteq Past /\ x.current \in Past \cup {NoPolicy} /\ acks[n].boots <= x.boots
    BY <1>2, <1>6, NodeR
  <1> QED
    BY <1>1, <1>2, <1>3, <1>4, <1>5, <1>6, QuietNode

LEMMA LapseStep ==
    ASSUME IInv, NEW n \in Nodes, Lapse(n)
    PROVE  Kept
  <1>1. /\ member' = [member EXCEPT ![n] = FALSE]
        /\ UNCHANGED <<deployment, manifest, artifacts, acks, claims, mgr, job, hist>>
    BY DEF Lapse
  <1>2. TypeOK'
    BY <1>1 DEF IInv, TypeOK
  <1>3. HistoryInv' /\ ClaimsInv' /\ ManagersInv'
    BY <1>1 DEF IInv, HistoryInv, ClaimsInv, ManagersInv, Activation, Coherent
  <1>4. RInv => RInv'
    BY <1>1 DEF RInv, PastInv, LoadedInv, Past
  <1> QED
    BY <1>2, <1>3, <1>4 DEF IInv, Kept

(* The first half of an operation: the manifest is read and taken over, or *)
(* the operation fails on the way.                                         *)
LEMMA RefreshStep ==
    ASSUME IInv, NEW n \in Nodes, NEW kind \in Mutations \cup {"reconcile"},
           NEW op \in Ops \cup {NoOp}, NEW arg \in PolicyOrNone, Refresh(n, kind, op, arg)
    PROVE  Kept
  <1>1. /\ mgr[n] \in Manager /\ manifest \in Manifest
        /\ artifacts \subseteq Policies /\ member \in [Nodes -> BOOLEAN]
    BY Typed
  <1>2. UNCHANGED <<deployment, manifest, artifacts, acks, claims, member, hist>>
    BY DEF Refresh
  <1>3. manifest.epoch # 0
    BY DEF Refresh, Ready, IInv, ManagersInv
  <1>4. /\ manifest.active \in Policies /\ manifest.active \in Past
        /\ Activation(manifest.active, manifest.epoch)
    BY <1>3, ActiveFacts
  <1>5. ~mgr[n].echo => Coherent(mgr[n].published)
    BY DEF IInv, ManagersInv
  <1>6. CASE /\ mgr' = [mgr EXCEPT ![n] = Refreshed(@, manifest)]
             /\ job' = [job EXCEPT ![n] = [kind |-> kind, op |-> op, arg |-> arg, pc |-> "ack", seen |-> manifest]]
    <2> DEFINE x == Refreshed(mgr[n], manifest)
               y == [kind |-> kind, op |-> op, arg |-> arg, pc |-> "ack", seen |-> manifest]
    <2>1. /\ x \in Manager
          /\ x.up = mgr[n].up /\ x.boots = mgr[n].boots /\ x.published = mgr[n].published /\ x.echo = mgr[n].echo
          /\ x.epoch = manifest.epoch /\ x.current = manifest.active
          /\ x.known \subseteq mgr[n].known \cup {manifest.active, manifest.previous}
          /\ mgr[n].loaded \subseteq x.loaded
          /\ RevisionsDistinct => manifest.candidate \in x.loaded \cup {NoPolicy}
      BY <1>1, RefreshedFacts
    <2>2. y \in Job /\ y.pc = "ack" /\ y.kind = kind /\ y.seen = manifest
      BY <1>1 DEF Job
    <2>3. mgr' = [mgr EXCEPT ![n] = x] /\ job' = [job EXCEPT ![n] = y]
      BY <1>6
    <2>4. NoPolicy \notin x.known
      BY <2>1, PolicyAssumption DEF Manager
    <2> HIDE DEF x, y
    <2>5. ASSUME RevisionsDistinct, RInv
          PROVE  /\ x.known \subseteq Past /\ x.current \in Past \cup {NoPolicy}
                 /\ acks[n].boots <= x.boots
                 /\ x.up /\ acks[n].boots = x.boots => acks[n].state.candidate \in x.loaded \cup {NoPolicy}
                 /\ y.seen.candidate \in x.loaded \cup {NoPolicy}
      <3>1. x.known \subseteq Past /\ x.current \in Past
        BY <1>4, <2>1, <2>4, <2>5, NodeR
      <3> QED
        BY <2>1, <2>2, <2>5, <3>1, NodeR
    <2>6. /\ Activation(x.current, x.epoch)
          /\ y.pc # "act" /\ y.kind \notin {"none", "boot"}
          /\ ~x.echo => Coherent(x.published)
      BY <1>4, <1>5, <2>1, <2>2 DEF Mutations
    <2>7. y.kind # "none" /\ y.kind # "boot"
      BY <2>6
    <2> QED
      BY <1>1, <1>2, <1>3, <2>1, <2>2, <2>3, <2>5, <2>6, <2>7, QuietNode
  <1>7. ASSUME NEW m \in {mgr[n]} \cup HalfRefreshed(mgr[n], manifest), Failed(n, kind, m)
        PROVE  Kept
    <2> DEFINE a == acks[n]
    <2>1. /\ m \in Manager
          /\ m.up = mgr[n].up /\ m.boots = mgr[n].boots /\ m.published = mgr[n].published /\ m.echo = mgr[n].echo
          /\ m.known \subseteq mgr[n].known \cup {manifest.active}
          /\ m.current \in {mgr[n].current, manifest.active}
          /\ mgr[n].loaded \subseteq m.loaded
      BY <1>1, <1>4, HalfRefreshedFacts
    <2>2. ~m.echo => Coherent(m.published)
      BY <1>5, <2>1
    <2>3. a \in [boots : Nat, state : Manifest] /\ acks' = [acks EXCEPT ![n] = a]
      BY <1>2, Typed
    <2>4. RevisionsDistinct /\ RInv =>
              /\ m.known \subseteq Past /\ m.current \in Past \cup {NoPolicy}
              /\ a.boots <= m.boots
              /\ m.up /\ a.boots = m.boots => a.state.candidate \in m.loaded \cup {NoPolicy}
      <3> SUFFICES ASSUME RInv
                   PROVE  /\ m.known \subseteq Past /\ m.current \in Past \cup {NoPolicy}
                          /\ a.boots <= m.boots
                          /\ m.up /\ a.boots = m.boots => a.state.candidate \in m.loaded \cup {NoPolicy}
        OBVIOUS
      <3> QED
        BY <1>4, <2>1, NodeR
    <2> HIDE DEF a
    <2> QED
      BY <1>2, <1>3, <1>7, <2>1, <2>2, <2>3, <2>4, FailedStep
  <1> QED
    BY <1>6, <1>7 DEF Refresh

LEMMA AcknowledgeStep ==
    ASSUME IInv, NEW n \in Nodes, Acknowledge(n)
    PROVE  Kept
  <1> DEFINE f == job[n].seen
             m == [mgr[n] EXCEPT !.acked = f]
  <1>1. /\ mgr[n] \in Manager /\ job[n] \in Job /\ f \in Manifest
        /\ artifacts \subseteq Policies /\ member \in [Nodes -> BOOLEAN]
    BY Typed DEF Job
  <1>2. /\ mgr[n].up /\ job[n].pc = "ack"
        /\ UNCHANGED <<deployment, manifest, artifacts, claims, member, hist>>
    BY DEF Acknowledge
  <1>3. /\ Activation(mgr[n].current, mgr[n].epoch) /\ job[n].kind # "none"
        /\ ~mgr[n].echo => Coherent(mgr[n].published)
    BY <1>2 DEF IInv, ManagersInv
  <1>4. manifest.epoch # 0
    <2>1. Len(hist.active) \in Nat /\ Len(hist.active) >= 1
      BY <1>3 DEF Activation, IInv, TypeOK
    <2> QED
      BY <2>1 DEF IInv, HistoryInv
  <1>5. PICK a \in [boots : Nat, state : Manifest] :
              /\ acks' = [acks EXCEPT ![n] = a]
              /\ a = acks[n] \/ a = [boots |-> mgr[n].boots, state |-> f]
    <2>1. acks' = acks \/ acks' = Observed(n, f)
      BY DEF Acknowledge
    <2> HIDE DEF f
    <2> QED
      BY <1>1, <2>1, ObservedFacts, Typed
  <1>6. ASSUME RInv
        PROVE  /\ a.boots <= mgr[n].boots
               /\ a.boots = mgr[n].boots => a.state.candidate \in mgr[n].loaded \cup {NoPolicy}
               /\ mgr[n].known \subseteq Past /\ mgr[n].current \in Past \cup {NoPolicy}
    <2>1. f.candidate \in mgr[n].loaded \cup {NoPolicy} /\ mgr[n].boots \in Nat
      BY <1>1, <1>2, <1>6, NodeR DEF Manager
    <2> HIDE DEF f
    <2> QED
      BY <1>2, <1>5, <1>6, <2>1, NodeR
  <1>7. /\ m \in Manager /\ m.up = mgr[n].up /\ m.boots = mgr[n].boots /\ m.current = mgr[n].current
        /\ m.epoch = mgr[n].epoch /\ m.known = mgr[n].known /\ m.loaded = mgr[n].loaded
        /\ m.published = mgr[n].published /\ m.echo = mgr[n].echo
    BY <1>1 DEF Manager
  <1>8. CASE /\ job[n].kind \in {"reconcile", "boot"}
             /\ mgr' = [mgr EXCEPT ![n] = publishLocked([@ EXCEPT !.acked = f])] /\ Finish(n)
    <2> DEFINE x == publishLocked(m)
    <2>1. mgr' = [mgr EXCEPT ![n] = x] /\ job' = [job EXCEPT ![n] = NoJob]
      BY <1>8 DEF Finish
    <2> HIDE DEF m
    <2>2. /\ x \in Manager
          /\ x.published = [policy |-> m.current, epoch |-> m.epoch] /\ x.echo = FALSE
          /\ x.up = m.up /\ x.boots = m.boots /\ x.current = m.current /\ x.epoch = m.epoch
          /\ x.known = m.known /\ x.loaded = m.loaded
      BY <1>7, PublishFacts
    <2>3. Coherent(x.published)
      BY <1>3, <1>7, <2>2 DEF Activation, Coherent
    <2>4. NoJob \in Job /\ NoJob.pc \notin {"ack", "act"} /\ NoJob.pc # "act" /\ NoJob.pc # "ack"
          /\ NoJob.kind # "boot"
      BY NoJobFacts
    <2> HIDE DEF x
    <2>5. RevisionsDistinct /\ RInv =>
              /\ x.known \subseteq Past /\ x.current \in Past \cup {NoPolicy}
              /\ a.boots <= x.boots
              /\ x.up /\ a.boots = x.boots => a.state.candidate \in x.loaded \cup {NoPolicy}
      BY <1>6, <1>7, <2>2
    <2> QED
      BY <1>1, <1>2, <1>4, <1>5, <2>1, <2>2, <2>3, <2>4, <2>5, OneNode
  <1>9. CASE /\ job[n].kind \notin {"reconcile", "boot"}
             /\ mgr' = [mgr EXCEPT ![n].acked = f] /\ Advance(n, "act")
    <2> DEFINE y == [job[n] EXCEPT !.pc = "act"]
    <2>1. mgr' = [mgr EXCEPT ![n] = m] /\ job' = [job EXCEPT ![n] = y]
      BY <1>9 DEF Advance
    <2>2. y \in Job /\ y.pc = "act" /\ y.kind = job[n].kind
      BY <1>1 DEF Job
    <2>3. y.kind \in Mutations
      BY <1>1, <1>3, <1>9, <2>2 DEF Job
    <2> HIDE DEF m, y
    <2>4. Activation(m.current, m.epoch) /\ (~m.echo => Coherent(m.published))
      BY <1>3, <1>7
    <2>5. RevisionsDistinct /\ RInv =>
              /\ m.known \subseteq Past /\ m.current \in Past \cup {NoPolicy}
              /\ a.boots <= m.boots
              /\ m.up /\ a.boots = m.boots => a.state.candidate \in m.loaded \cup {NoPolicy}
      BY <1>6, <1>7
    <2>6. y.pc # "ack" /\ y.kind # "boot"
      BY <2>2, <2>3 DEF Mutations
    <2> QED
      BY <1>1, <1>2, <1>4, <1>5, <1>7, <2>1, <2>2, <2>3, <2>4, <2>5, <2>6, OneNode
  <1>10. CASE mgr' = [mgr EXCEPT ![n] = [Down EXCEPT !.boots = mgr[n].boots]] /\ Finish(n)
    <2> DEFINE x == [Down EXCEPT !.boots = mgr[n].boots]
    <2>1. mgr[n].boots \in Nat
      BY <1>1 DEF Manager
    <2>2. /\ x \in Manager /\ x.up = FALSE /\ x.boots = mgr[n].boots /\ x.known = {}
          /\ x.current = NoPolicy /\ x.published = Unpublished /\ x.loaded = {}
      BY <2>1, DownFacts
    <2>3. mgr' = [mgr EXCEPT ![n] = x] /\ job' = [job EXCEPT ![n] = NoJob]
      BY <1>10 DEF Finish
    <2> HIDE DEF x
    <2>4. NoJob \in Job /\ NoJob.pc \notin {"ack", "act"} /\ NoJob.pc # "act" /\ NoJob.pc # "ack"
          /\ NoJob.kind # "boot"
      BY NoJobFacts
    <2>5. Coherent(x.published) /\ ~x.up
      BY <2>2, UnpublishedCoherent
    <2>6. ASSUME RInv
          PROVE  x.known \subseteq Past /\ x.current \in Past \cup {NoPolicy} /\ a.boots <= x.boots
      BY <1>6, <2>2, <2>6
    <2> QED
      BY <1>1, <1>2, <1>5, <2>2, <2>3, <2>4, <2>5, <2>6, OneNode
  <1>11. CASE Failed(n, job[n].kind, mgr[n])
    <2> DEFINE w == mgr[n]
               kind == job[n].kind
    <2>1. w \in Manager /\ Failed(n, kind, w) /\ (~w.echo => Coherent(w.published))
      BY <1>1, <1>3, <1>11
    <2>2. RevisionsDistinct /\ RInv =>
              /\ w.known \subseteq Past /\ w.current \in Past \cup {NoPolicy}
              /\ a.boots <= w.boots
              /\ w.up /\ a.boots = w.boots => a.state.candidate \in w.loaded \cup {NoPolicy}
      BY <1>6
    <2> HIDE DEF w, kind
    <2> QED
      BY <1>2, <1>4, <1>5, <2>1, <2>2, FailedStep
  <1> QED
    BY <1>8, <1>9, <1>10, <1>11 DEF Acknowledge

-----------------------------------------------------------------------------
(***************************************************************************)
(* The second half of an operation.                                        *)
(***************************************************************************)
(* What a mutation would commit.                                           *)
LEMMA TargetFacts ==
    ASSUME IInv, NEW n \in Nodes, job[n].pc = "act", Target(n).do = "commit"
    PROVE  /\ Target(n).target \in Policies /\ job[n].kind \in Mutations
           /\ job[n].kind = "prepare" => Target(n).target = job[n].arg
           /\ job[n].kind = "activate" => Target(n).target = mgr[n].candidate
           /\ job[n].kind = "rollback" => Target(n).target \in mgr[n].known
  <1>1. /\ mgr[n] \in Manager /\ job[n] \in Job
        /\ mgr[n].candidate \in PolicyOrNone /\ job[n].arg \in PolicyOrNone
        /\ mgr[n].known \in SUBSET Policies /\ mgr[n].last \in Nat
    BY Typed DEF Manager, Job
  <1>2. job[n].kind \in Mutations
    BY DEF IInv, ManagersInv
  <1>3. CASE job[n].kind = "prepare"
    <2>1. Target(n) = PrepareTarget(mgr[n], job[n].arg)
      BY <1>3 DEF Target
    <2>2. Target(n).target = job[n].arg /\ ~(Rev(job[n].arg) <= mgr[n].last)
      BY <2>1 DEF PrepareTarget, Outcome
    <2>3. Rev(job[n].arg) # 0 /\ Rev(job[n].arg) \in Nat
      BY <1>1, <2>2, RevType
    <2> QED
      BY <1>1, <1>2, <1>3, <2>2, <2>3, RevType DEF PolicyOrNone
  <1>4. CASE job[n].kind = "activate"
    <2>1. Target(n) = ActivateTarget(mgr[n])
      BY <1>4 DEF Target
    <2> QED
      BY <1>1, <1>2, <1>4, <2>1 DEF ActivateTarget, Outcome, PolicyOrNone
  <1>5. CASE job[n].kind = "rollback"
    <2> DEFINE good == {q \in mgr[n].known : q.rev = Rev(job[n].arg)}
    <2>1. Target(n) = RollbackTarget(mgr[n], job[n].arg)
      BY <1>5 DEF Target
    <2>2. good # {} /\ Target(n).target = CHOOSE q \in good : TRUE
      BY <2>1 DEF RollbackTarget, Outcome
    <2>3. Target(n).target \in good
      BY <2>2
    <2> QED
      BY <1>1, <1>2, <1>5, <2>3
  <1> QED
    BY <1>2, <1>3, <1>4, <1>5 DEF Mutations

LEMMA AdoptFacts ==
    ASSUME NEW m \in Manager, NEW t \in Policies, NEW action \in Mutations
    PROVE  LET x == Adopt(m, action, t) IN
           /\ x \in Manager /\ x.up = m.up /\ x.boots = m.boots
           /\ x.published = [policy |-> x.current, epoch |-> x.epoch]
           /\ action = "prepare" => x.current = m.current /\ x.epoch = m.epoch /\ t \in x.loaded
           /\ action # "prepare" => x.current = t /\ x.epoch = m.epoch + 1
           /\ x.known \subseteq m.known \cup {t} /\ (action = "prepare" => x.known = m.known)
           /\ m.loaded \subseteq x.loaded
  <1>1. t.rev \in Nat /\ m.epoch + 1 \in Nat /\ NoPolicy \in PolicyOrNone /\ t \in PolicyOrNone
    BY PolicyAssumption DEF Manager, PolicyOrNone
  <1>2. Knowing(m.known, t) \in SUBSET Policies /\ Knowing(m.known, t) \subseteq m.known \cup {t}
    BY KnowingFacts DEF Manager, PolicyOrNone
  <1>3. m.loaded \cup {t} \in SUBSET Policies
    BY DEF Manager
  <1>4. CASE action = "prepare"
    <2> DEFINE y == [m EXCEPT !.candidate = t, !.last = t.rev, !.loaded = m.loaded \cup {t}]
    <2>1. /\ y \in Manager /\ y.up = m.up /\ y.boots = m.boots /\ y.current = m.current
          /\ y.epoch = m.epoch /\ y.known = m.known /\ y.loaded = m.loaded \cup {t}
      BY <1>1, <1>3 DEF Manager
    <2>2. Adopt(m, action, t) = publishLocked(y)
      BY <1>4 DEF Adopt
    <2> DEFINE z == publishLocked(y)
    <2> HIDE DEF y
    <2>3. /\ z \in Manager /\ z.published = [policy |-> y.current, epoch |-> y.epoch]
          /\ z.up = y.up /\ z.boots = y.boots /\ z.current = y.current /\ z.epoch = y.epoch
          /\ z.known = y.known /\ z.loaded = y.loaded
      BY <2>1, PublishFacts
    <2>4. Adopt(m, action, t) = z
      BY <2>2
    <2> HIDE DEF z
    <2> QED
      BY <1>4, <2>1, <2>3, <2>4
  <1>5. CASE action = "activate"
    <2> DEFINE y == [m EXCEPT !.current = t, !.candidate = NoPolicy, !.known = Knowing(m.known, t),
                              !.epoch = m.epoch + 1]
    <2>1. /\ y \in Manager /\ y.up = m.up /\ y.boots = m.boots /\ y.current = t
          /\ y.epoch = m.epoch + 1 /\ y.known \subseteq m.known \cup {t} /\ y.loaded = m.loaded
      BY <1>1, <1>2 DEF Manager
    <2>2. Adopt(m, action, t) = publishLocked(y)
      BY <1>5 DEF Adopt
    <2> DEFINE z == publishLocked(y)
    <2> HIDE DEF y
    <2>3. /\ z \in Manager /\ z.published = [policy |-> y.current, epoch |-> y.epoch]
          /\ z.up = y.up /\ z.boots = y.boots /\ z.current = y.current /\ z.epoch = y.epoch
          /\ z.known = y.known /\ z.loaded = y.loaded
      BY <2>1, PublishFacts
    <2>4. Adopt(m, action, t) = z
      BY <2>2
    <2> HIDE DEF z
    <2> QED
      BY <1>5, <2>1, <2>3, <2>4
  <1>6. CASE action = "rollback"
    <2> DEFINE y == [m EXCEPT !.current = t, !.candidate = NoPolicy, !.epoch = m.epoch + 1]
    <2>1. /\ y \in Manager /\ y.up = m.up /\ y.boots = m.boots /\ y.current = t
          /\ y.epoch = m.epoch + 1 /\ y.known = m.known /\ y.loaded = m.loaded
      BY <1>1 DEF Manager
    <2>2. Adopt(m, action, t) = publishLocked(y)
      BY <1>6 DEF Adopt
    <2> DEFINE z == publishLocked(y)
    <2> HIDE DEF y
    <2>3. /\ z \in Manager /\ z.published = [policy |-> y.current, epoch |-> y.epoch]
          /\ z.up = y.up /\ z.boots = y.boots /\ z.current = y.current /\ z.epoch = y.epoch
          /\ z.known = y.known /\ z.loaded = y.loaded
      BY <2>1, PublishFacts
    <2>4. Adopt(m, action, t) = z
      BY <2>2
    <2> HIDE DEF z
    <2> QED
      BY <1>6, <2>1, <2>3, <2>4
  <1> QED
    BY <1>4, <1>5, <1>6 DEF Mutations

(* A mutation that has come this far runs under an existing manifest.      *)
LEMMA Acting ==
    ASSUME IInv, NEW n \in Nodes, job[n].pc = "act"
    PROVE  /\ manifest.epoch # 0 /\ Activation(mgr[n].current, mgr[n].epoch)
           /\ ~mgr[n].echo => Coherent(mgr[n].published)
  <1>1. /\ Activation(mgr[n].current, mgr[n].epoch)
        /\ ~mgr[n].echo => Coherent(mgr[n].published)
    BY DEF IInv, ManagersInv
  <1>2. Len(hist.active) \in Nat /\ Len(hist.active) >= 1
    BY <1>1 DEF Activation, IInv, TypeOK
  <1> QED
    BY <1>1, <1>2 DEF IInv, HistoryInv

LEMMA RefuseStep ==
    ASSUME IInv, NEW n \in Nodes, Refuse(n)
    PROVE  Kept
  <1> DEFINE w == mgr[n]
             kind == job[n].kind
             a == acks[n]
  <1>1. /\ w \in Manager /\ Failed(n, kind, w) /\ (~w.echo => Coherent(w.published))
        /\ manifest.epoch # 0
    BY Typed, Acting DEF Refuse
  <1>2. /\ a \in [boots : Nat, state : Manifest] /\ acks' = [acks EXCEPT ![n] = a]
        /\ UNCHANGED <<deployment, manifest, artifacts, claims, member, hist>>
    BY Typed DEF Refuse
  <1>3. RevisionsDistinct /\ RInv =>
            /\ w.known \subseteq Past /\ w.current \in Past \cup {NoPolicy}
            /\ a.boots <= w.boots
            /\ w.up /\ a.boots = w.boots => a.state.candidate \in w.loaded \cup {NoPolicy}
    BY NodeR
  <1> HIDE DEF w, kind, a
  <1> QED
    BY <1>1, <1>2, <1>3, FailedStep

LEMMA PersistArtifactStep ==
    ASSUME IInv, NEW n \in Nodes, PersistArtifact(n)
    PROVE  Kept
  <1>1. job[n].arg \in Policies
    BY TargetFacts DEF PersistArtifact
  <1>2. /\ artifacts' = artifacts \cup {job[n].arg}
        /\ UNCHANGED <<deployment, manifest, acks, claims, member, mgr, job, hist>>
    BY DEF PersistArtifact
  <1>3. TypeOK'
    BY <1>1, <1>2 DEF IInv, TypeOK
  <1>4. HistoryInv' /\ ClaimsInv' /\ ManagersInv'
    BY <1>2 DEF IInv, HistoryInv, ClaimsInv, ManagersInv, Activation, Coherent
  <1>5. RInv => RInv'
    BY <1>2 DEF RInv, PastInv, LoadedInv, Past
  <1> QED
    BY <1>3, <1>4, <1>5 DEF IInv, Kept

LEMMA CommitReplayedStep ==
    ASSUME IInv, NEW n \in Nodes, CommitReplayed(n)
    PROVE  Kept
  <1> DEFINE t == Target(n)
             k == job[n].kind
             w == mgr[n]
             x == IF t.do = "commit" THEN [Adopt(w, k, t.target) EXCEPT !.echo = TRUE]
                  ELSE IF k = "prepare" THEN w ELSE publishLocked(w)
  <1>1. /\ w \in Manager /\ artifacts \subseteq Policies /\ member \in [Nodes -> BOOLEAN]
    BY Typed
  <1>2. /\ job[n].pc = "act" /\ job[n].op \in Ops /\ claims[job[n].op] = [action |-> k, target |-> t.target]
        /\ UNCHANGED <<deployment, manifest, artifacts, acks, claims, member, hist>>
    BY DEF CommitReplayed, Replayed
  <1>3. mgr' = [mgr EXCEPT ![n] = x] /\ job' = [job EXCEPT ![n] = NoJob]
    BY DEF CommitReplayed, Finish
  <1>4. /\ manifest.epoch # 0 /\ Activation(w.current, w.epoch)
        /\ ~w.echo => Coherent(w.published)
    BY <1>2, Acting
  <1>5. ASSUME RInv
        PROVE  /\ w.known \subseteq Past /\ w.current \in Past \cup {NoPolicy}
               /\ acks[n].boots <= w.boots
               /\ w.up /\ acks[n].boots = w.boots => acks[n].state.candidate \in w.loaded \cup {NoPolicy}
    BY <1>5, NodeR
  <1>6. /\ x \in Manager /\ x.up = w.up /\ x.boots = w.boots /\ w.loaded \subseteq x.loaded
        /\ ~x.echo => Coherent(x.published)
        /\ RInv => x.known \subseteq Past /\ x.current \in Past \cup {NoPolicy}
    <2>1. CASE t.do = "commit"
      <3> DEFINE z == Adopt(w, k, t.target)
      <3>1. t.target \in Policies /\ k \in Mutations /\ (k = "rollback" => t.target \in w.known)
        BY <1>2, <2>1, TargetFacts
      <3>2. /\ z \in Manager /\ z.up = w.up /\ z.boots = w.boots /\ w.loaded \subseteq z.loaded
            /\ z.known \subseteq w.known \cup {t.target} /\ (k = "prepare" => z.known = w.known)
            /\ z.current = IF k = "prepare" THEN w.current ELSE t.target
        <4> HIDE DEF t, k, w
        <4> QED
          BY ZenonT(60), <1>1, <3>1, AdoptFacts
      <3>3. x = [z EXCEPT !.echo = TRUE]
        BY <2>1
      <3>4. RInv /\ k # "prepare" => t.target \in Past
        <4>1. claims[job[n].op].action = k /\ claims[job[n].op].target = t.target
          BY <1>2
        <4> QED
          BY <1>2, <3>1, <4>1 DEF RInv, PastInv, Mutations
      <3> HIDE DEF z, t, k, w, x
      <3>5. /\ x \in Manager /\ x.echo = TRUE /\ x.known = z.known /\ x.current = z.current
            /\ x.up = z.up /\ x.boots = z.boots /\ x.loaded = z.loaded
        BY <3>2, <3>3 DEF Manager
      <3>6. RInv => x.known \subseteq Past /\ x.current \in Past \cup {NoPolicy}
        BY <1>5, <3>2, <3>4, <3>5
      <3> QED
        BY <3>2, <3>5, <3>6
    <2>2. CASE t.do # "commit" /\ k = "prepare"
      <3>1. x = w
        BY <2>2
      <3> HIDE DEF x, w
      <3> QED
        BY <1>1, <1>4, <1>5, <3>1
    <2>3. CASE t.do # "commit" /\ k # "prepare"
      <3>1. x = publishLocked(w)
        BY <2>3
      <3> HIDE DEF x, w
      <3>2. /\ x \in Manager
            /\ x.published = [policy |-> w.current, epoch |-> w.epoch] /\ x.echo = FALSE
            /\ x.up = w.up /\ x.boots = w.boots /\ x.current = w.current
            /\ x.known = w.known /\ x.loaded = w.loaded
        BY <1>1, <3>1, PublishFacts
      <3>3. Coherent(x.published)
        BY <1>4, <3>2 DEF Activation, Coherent
      <3> QED
        BY <1>5, <3>2, <3>3
    <2> QED
      BY <2>1, <2>2, <2>3
  <1>7. NoJob \in Job /\ NoJob.pc \notin {"ack", "act"} /\ NoJob.pc # "act" /\ NoJob.pc # "ack"
        /\ NoJob.kind # "boot"
    BY NoJobFacts
  <1> HIDE DEF x, w, t, k
  <1>8. RevisionsDistinct /\ RInv =>
            /\ x.known \subseteq Past /\ x.current \in Past \cup {NoPolicy}
            /\ acks[n].boots <= x.boots
            /\ x.up /\ acks[n].boots = x.boots => acks[n].state.candidate \in x.loaded \cup {NoPolicy}
    BY <1>5, <1>6
  <1> QED
    BY <1>1, <1>2, <1>3, <1>4, <1>6, <1>7, <1>8, QuietNode

(* The manager after its commit, with or without the answer.               *)
LEMMA CommitManager ==
    ASSUME IInv, NEW n \in Nodes, Commit(n)
    PROVE  LET p == Target(n).target
               k == job[n].kind
               m == mgr[n]
           IN  \E x \in Manager :
                 /\ mgr' = [mgr EXCEPT ![n] = x]
                 /\ x.up = m.up /\ x.boots = m.boots /\ m.loaded \subseteq x.loaded
                 /\ k = "prepare" => p \in x.loaded /\ x.known = m.known /\ x.current = m.current
                 /\ x.known \subseteq m.known \cup {p} /\ x.current \in {m.current, p}
                 /\ \/ x.published = m.published /\ x.echo = m.echo
                    \/ k = "prepare" /\ x.published = [policy |-> m.current, epoch |-> m.epoch]
                    \/ k # "prepare" /\ x.published = [policy |-> p, epoch |-> m.epoch + 1]
  <1> DEFINE p == Target(n).target
             k == job[n].kind
             m == mgr[n]
  <1>1. m \in Manager /\ p \in Policies /\ k \in Mutations
    BY Typed, TargetFacts DEF Commit
  <1>2. CASE mgr' = [mgr EXCEPT ![n] = Adopt(@, k, p)]
    <2> DEFINE x == Adopt(m, k, p)
    <2>1. mgr' = [mgr EXCEPT ![n] = x]
      BY <1>2
    <2> HIDE DEF p, k, m
    <2>2. /\ x \in Manager /\ x.up = m.up /\ x.boots = m.boots
          /\ x.published = [policy |-> x.current, epoch |-> x.epoch]
          /\ k = "prepare" => x.current = m.current /\ x.epoch = m.epoch /\ p \in x.loaded
          /\ k # "prepare" => x.current = p /\ x.epoch = m.epoch + 1
          /\ x.known \subseteq m.known \cup {p} /\ (k = "prepare" => x.known = m.known)
          /\ m.loaded \subseteq x.loaded
      BY <1>1, AdoptFacts
    <2> HIDE DEF x
    <2> QED
      BY <2>1, <2>2 DEF p, k, m
  <1>3. CASE mgr' = [mgr EXCEPT ![n].loaded = @ \cup {p}]
    <2> DEFINE x == [m EXCEPT !.loaded = m.loaded \cup {p}]
    <2>1. mgr' = [mgr EXCEPT ![n] = x]
      BY <1>3
    <2>2. /\ x \in Manager /\ x.up = m.up /\ x.boots = m.boots /\ x.known = m.known
          /\ x.current = m.current /\ x.loaded = m.loaded \cup {p}
          /\ x.published = m.published /\ x.echo = m.echo
      BY <1>1 DEF Manager
    <2> HIDE DEF x, p, k, m
    <2> QED
      BY <2>1, <2>2 DEF p, k, m
  <1> QED
    BY <1>2, <1>3 DEF Commit

(* What the transaction writes: a candidate beside the same active policy, *)
(* or the next epoch.                                                      *)
LEMMA TransitionFacts ==
    ASSUME IInv, NEW n \in Nodes, Commit(n)
    PROVE  LET p == Target(n).target
               k == job[n].kind
               o == job[n].op
           IN  /\ manifest' = ManifestFor(n, k, p) /\ manifest' \in Manifest
               /\ mgr[n].epoch = manifest.epoch
               /\ k = "prepare" =>
                     /\ manifest'.epoch = manifest.epoch /\ manifest'.active = manifest.active
                     /\ manifest.candidate = NoPolicy /\ manifest'.candidate = p
                     /\ manifest'.previous = NoPolicy
                     /\ hist'.active = hist.active
               /\ k # "prepare" =>
                     /\ manifest'.epoch = manifest.epoch + 1 /\ manifest'.active = p
                     /\ manifest'.candidate = NoPolicy /\ manifest'.previous = mgr[n].current
                     /\ hist'.active = Append(hist.active, p)
               /\ acks' = Observed(n, manifest')
               /\ hist' = [active |-> hist'.active, done |-> hist'.done]
               /\ o = NoOp => claims' = claims /\ hist'.done = hist.done
               /\ o # NoOp => /\ o \in Ops /\ claims[o] = NoClaim
                              /\ claims' = [claims EXCEPT ![o] = [action |-> k, target |-> p]]
                              /\ hist'.done = [hist.done EXCEPT ![o] = @ + 1]
  <1> DEFINE p == Target(n).target
             k == job[n].kind
             o == job[n].op
             f == ManifestFor(n, k, p)
  <1>1. /\ mgr[n] \in Manager /\ job[n] \in Job /\ manifest \in Manifest
        /\ p \in Policies /\ k \in Mutations /\ o \in Ops \cup {NoOp}
    BY Typed, TargetFacts DEF Commit, Job
  <1>2. Transition(n, o, k, p)
    BY DEF Commit
  <1>3. /\ manifest' = f /\ acks' = Observed(n, f) /\ Claimable(o) /\ Applicable(n, k, f, p)
        /\ claims' = IF o = NoOp THEN claims ELSE [claims EXCEPT ![o] = [action |-> k, target |-> p]]
        /\ hist' = [active |-> IF k = "prepare" THEN hist.active ELSE Append(hist.active, p),
                    done |-> IF o = NoOp THEN hist.done ELSE [hist.done EXCEPT ![o] = @ + 1]]
    BY <1>2 DEF Transition
  <1>4. /\ k = "prepare" => f = [epoch |-> mgr[n].epoch, active |-> mgr[n].current, candidate |-> p,
                                 previous |-> NoPolicy]
        /\ k # "prepare" => f = [epoch |-> mgr[n].epoch + 1, active |-> p, candidate |-> NoPolicy,
                                 previous |-> mgr[n].current]
    BY DEF ManifestFor
  <1> HIDE DEF p, k, o, f
  <1>5. f \in Manifest
    BY <1>1, <1>4 DEF Manager, Manifest, PolicyOrNone
  <1>6. /\ mgr[n].epoch = manifest.epoch /\ Rev(mgr[n].current) = Rev(manifest.active)
        /\ Rev(manifest.active) = Rev(f.active) => manifest.active = f.active
        /\ k = "prepare" => manifest.candidate = NoPolicy
    BY <1>3 DEF Applicable
  <1>7. o \in Ops => claims[o] = NoClaim
    BY <1>3 DEF Claimable
  <1>8. /\ hist'.active = IF k = "prepare" THEN hist.active ELSE Append(hist.active, p)
        /\ hist'.done = IF o = NoOp THEN hist.done ELSE [hist.done EXCEPT ![o] = @ + 1]
    BY <1>3
  <1>9. k = "prepare" => /\ f.epoch = manifest.epoch /\ f.active = manifest.active
                         /\ f.candidate = p /\ f.previous = NoPolicy
    BY <1>4, <1>6
  <1>10. k # "prepare" => /\ f.epoch = manifest.epoch + 1 /\ f.active = p
                          /\ f.candidate = NoPolicy /\ f.previous = mgr[n].current
    BY <1>4, <1>6
  <1>11. hist' = [active |-> hist'.active, done |-> hist'.done]
    BY <1>3
  <1> QED
    BY <1>1, <1>3, <1>5, <1>6, <1>7, <1>8, <1>9, <1>10, <1>11 DEF p, k, o, f

(* A step of one node that writes the manifest: the history stays or grows *)
(* by one activation.  x is the node's manager afterwards, y its operation *)
(* and a what it has acknowledged.                                         *)
LEMMA ManifestStep ==
    ASSUME IInv, NEW n \in Nodes, NEW x \in Manager, NEW y \in Job,
           NEW a \in [boots : Nat, state : Manifest],
           mgr' = [mgr EXCEPT ![n] = x],
           job' = [job EXCEPT ![n] = y],
           acks' = [acks EXCEPT ![n] = a],
           UNCHANGED <<deployment, artifacts, member>>,
           manifest' \in Manifest, manifest'.epoch # 0,
           claims' \in [Ops -> [action : Mutations \cup {"none"}, target : PolicyOrNone]],
           hist' \in [active : Seq(Policies), done : [Ops -> Nat]],
           HistoryInv', ClaimsInv',
           \/ hist'.active = hist.active
           \/ \E p \in Policies : hist'.active = Append(hist.active, p),
           y.pc \notin {"ack", "act"},
           ~x.echo => (x.published.epoch # 0 => /\ x.published.epoch <= Len(hist'.active)
                                                /\ hist'.active[x.published.epoch] = x.published.policy),
           RevisionsDistinct /\ RInv =>
              /\ manifest'.previous \in Past' \cup {NoPolicy}
              /\ \A o \in Ops : claims'[o].action \in {"activate", "rollback"} => claims'[o].target \in Past'
              /\ x.known \subseteq Past' /\ x.current \in Past' \cup {NoPolicy}
              /\ a.boots <= x.boots
              /\ x.up /\ a.boots = x.boots => a.state.candidate \in x.loaded \cup {NoPolicy}
              /\ y.kind = "boot" => x.loaded = {}
    PROVE  Kept
  <1>1. TypeOK'
    BY DEF IInv, TypeOK
  <1>2. \A k \in Nodes : /\ mgr'[k] = IF k = n THEN x ELSE mgr[k]
                         /\ job'[k] = IF k = n THEN y ELSE job[k]
                         /\ acks'[k] = IF k = n THEN a ELSE acks[k]
    BY DEF IInv, TypeOK
  <1>3. /\ \A q, e : Activation(q, e) => Activation(q, e)'
        /\ \A v : Coherent(v) /\ v.epoch \in Nat => Coherent(v)'
        /\ Past \subseteq Past'
    <2>1. hist.active \in Seq(Policies)
      BY DEF IInv, TypeOK
    <2>2. CASE hist'.active = hist.active
      BY <2>2 DEF Activation, Coherent, Past
    <2>3. CASE \E p \in Policies : hist'.active = Append(hist.active, p)
      <3>1. PICK p \in Policies : hist'.active = Append(hist.active, p)
        BY <2>3
      <3> QED
        BY <2>1, <3>1, HistoryGrows
    <2> QED
      BY <2>2, <2>3
  <1>4. ManagersInv'
    <2> SUFFICES ASSUME NEW k \in Nodes
                 PROVE  (/\ job[k].pc \in {"ack", "act"} => Activation(mgr[k].current, mgr[k].epoch)
                         /\ job[k].pc = "act" => job[k].kind \in Mutations
                         /\ job[k].pc = "ack" => job[k].kind # "none"
                         /\ ~mgr[k].echo => Coherent(mgr[k].published))'
      BY DEF ManagersInv
    <2>1. CASE k = n
      <3>1. mgr'[k] = x /\ job'[k] = y
        BY <1>2, <2>1
      <3> QED
        BY <3>1 DEF Coherent
    <2>2. CASE k # n
      <3>1. mgr'[k] = mgr[k] /\ job'[k] = job[k] /\ mgr[k] \in Manager
        BY <1>2, <2>2, Typed
      <3>2. mgr[k].published.epoch \in Nat
        BY <3>1 DEF Manager
      <3>3. /\ job[k].pc \in {"ack", "act"} => Activation(mgr[k].current, mgr[k].epoch)
            /\ job[k].pc = "act" => job[k].kind \in Mutations
            /\ job[k].pc = "ack" => job[k].kind # "none"
            /\ ~mgr[k].echo => Coherent(mgr[k].published)
        BY DEF IInv, ManagersInv
      <3>4. \A q, e : q = mgr[k].current /\ e = mgr[k].epoch =>
                (Activation(q, e)' => Activation(mgr[k].current, mgr[k].epoch)')
        BY <3>1 DEF Activation
      <3>5. \A v : v = mgr[k].published => (Coherent(v)' => Coherent(mgr[k].published)')
        BY <3>1 DEF Coherent
      <3>6. job[k].pc \in {"ack", "act"} => Activation(mgr[k].current, mgr[k].epoch)'
        BY <1>3, <3>3, <3>4
      <3>7. ~mgr[k].echo => Coherent(mgr[k].published)'
        BY <1>3, <3>2, <3>3, <3>5
      <3> QED
        BY <3>1, <3>3, <3>6, <3>7
    <2> QED
      BY <2>1, <2>2
  <1>5. ASSUME RevisionsDistinct, RInv PROVE RInv'
    <2>1. PastInv'
      BY <1>2, <1>3, <1>5 DEF RInv, PastInv
    <2>2. LoadedInv'
      BY <1>2, <1>5 DEF RInv, LoadedInv
    <2> QED
      BY <2>1, <2>2 DEF RInv
  <1> QED
    BY <1>1, <1>4, <1>5 DEF IInv, Kept

LEMMA CommitStep ==
    ASSUME IInv, NEW n \in Nodes, Commit(n)
    PROVE  Kept
  <1> DEFINE p == Target(n).target
             k == job[n].kind
             o == job[n].op
             m == mgr[n]
  <1>1. /\ m \in Manager /\ p \in Policies /\ k \in Mutations /\ job[n].pc = "act"
        /\ k = "rollback" => p \in m.known
    BY Typed, TargetFacts DEF Commit
  <1>2. PICK x \in Manager :
              /\ mgr' = [mgr EXCEPT ![n] = x]
              /\ x.up = m.up /\ x.boots = m.boots /\ m.loaded \subseteq x.loaded
              /\ k = "prepare" => p \in x.loaded /\ x.known = m.known /\ x.current = m.current
              /\ x.known \subseteq m.known \cup {p} /\ x.current \in {m.current, p}
              /\ \/ x.published = m.published /\ x.echo = m.echo
                 \/ k = "prepare" /\ x.published = [policy |-> m.current, epoch |-> m.epoch]
                 \/ k # "prepare" /\ x.published = [policy |-> p, epoch |-> m.epoch + 1]
    BY CommitManager
  <1>3. /\ manifest' \in Manifest /\ m.epoch = manifest.epoch
        /\ k = "prepare" => /\ manifest'.epoch = manifest.epoch /\ manifest'.active = manifest.active
                            /\ manifest'.candidate = p /\ manifest'.previous = NoPolicy
                            /\ hist'.active = hist.active
        /\ k # "prepare" => /\ manifest'.epoch = manifest.epoch + 1 /\ manifest'.active = p
                            /\ manifest'.candidate = NoPolicy /\ manifest'.previous = m.current
                            /\ hist'.active = Append(hist.active, p)
        /\ acks' = Observed(n, manifest')
        /\ hist' = [active |-> hist'.active, done |-> hist'.done]
        /\ o = NoOp => claims' = claims /\ hist'.done = hist.done
        /\ o # NoOp => /\ o \in Ops /\ claims[o] = NoClaim
                       /\ claims' = [claims EXCEPT ![o] = [action |-> k, target |-> p]]
                       /\ hist'.done = [hist.done EXCEPT ![o] = @ + 1]
    BY TransitionFacts
  <1>4. /\ job' = [job EXCEPT ![n] = NoJob]
        /\ UNCHANGED <<deployment, artifacts, member>>
    BY DEF Commit, Finish, Transition
  <1>5. NoJob \in Job /\ NoJob.pc \notin {"ack", "act"} /\ NoJob.kind # "boot"
    BY NoJobFacts
  <1>6. /\ manifest.epoch # 0 /\ Activation(m.current, m.epoch)
        /\ ~m.echo => Coherent(m.published)
    BY <1>1, Acting
  <1>7. PICK a \in [boots : Nat, state : Manifest] :
              /\ acks' = [acks EXCEPT ![n] = a]
              /\ a = acks[n] \/ a = [boots |-> m.boots, state |-> manifest']
    <2> DEFINE f == manifest'
    <2>1. f \in Manifest /\ acks' = Observed(n, f)
      BY <1>3
    <2> HIDE DEF f
    <2>2. \E a \in [boots : Nat, state : Manifest] :
              /\ Observed(n, f) = [acks EXCEPT ![n] = a]
              /\ a = acks[n] \/ a = [boots |-> mgr[n].boots, state |-> f]
      BY <2>1, ObservedFacts
    <2> QED
      BY <2>1, <2>2 DEF f
  <1> HIDE DEF p, k, o
  <1>8. /\ manifest \in Manifest /\ hist.active \in Seq(Policies) /\ hist.done \in [Ops -> Nat]
        /\ claims \in [Ops -> [action : Mutations \cup {"none"}, target : PolicyOrNone]]
        /\ Len(hist.active) = manifest.epoch /\ Len(hist.active) \in Nat
        /\ hist.active[manifest.epoch] = manifest.active
    BY <1>6 DEF IInv, TypeOK, HistoryInv
  <1>9. k # "prepare" =>
           /\ hist'.active \in Seq(Policies) /\ Len(hist'.active) = Len(hist.active) + 1
           /\ hist'.active[Len(hist.active) + 1] = p
           /\ \A v : Coherent(v) /\ v.epoch \in Nat => Coherent(v)'
           /\ Past' = Past \cup {p}
    BY <1>1, <1>3, <1>8, HistoryGrows
  <1>10. Past \subseteq Past' /\ hist'.active \in Seq(Policies) /\ (k # "prepare" => p \in Past')
    <2>1. k = "prepare" => Past' = Past
      BY <1>3 DEF Past
    <2> QED
      BY <1>3, <1>8, <1>9, <2>1
  <1>11. manifest'.epoch # 0 /\ HistoryInv'
    <2>1. manifest'.epoch # 0 /\ Len(hist'.active) = manifest'.epoch
      BY <1>3, <1>6, <1>8, <1>9 DEF Manifest
    <2>2. hist'.active[manifest'.epoch] = manifest'.active
      BY <1>3, <1>8, <1>9
    <2> QED
      BY <2>1, <2>2 DEF HistoryInv
  <1>12. /\ claims' \in [Ops -> [action : Mutations \cup {"none"}, target : PolicyOrNone]]
         /\ hist'.done \in [Ops -> Nat] /\ ClaimsInv'
    <2>1. CASE o = NoOp
      BY <1>3, <1>8, <2>1 DEF IInv, ClaimsInv
    <2>2. CASE o # NoOp
      <3> DEFINE c == [action |-> k, target |-> p]
      <3>1. c \in [action : Mutations \cup {"none"}, target : PolicyOrNone] /\ c # NoClaim
        BY <1>1 DEF Mutations, PolicyOrNone, NoClaim
      <3>2. o \in Ops /\ claims' = [claims EXCEPT ![o] = c] /\ claims[o] = NoClaim
            /\ hist'.done = [hist.done EXCEPT ![o] = @ + 1]
        BY <1>3, <2>2
      <3>3. hist.done[o] = 0
        BY <3>2 DEF IInv, ClaimsInv
      <3> HIDE DEF c
      <3>4. /\ claims' \in [Ops -> [action : Mutations \cup {"none"}, target : PolicyOrNone]]
            /\ hist'.done \in [Ops -> Nat]
        BY <1>8, <3>1, <3>2
      <3>5. \A q \in Ops : /\ claims'[q] = IF q = o THEN c ELSE claims[q]
                           /\ hist'.done[q] = IF q = o THEN 1 ELSE hist.done[q]
        BY <1>8, <3>2, <3>3
      <3>6. ClaimsInv'
        BY <3>1, <3>5 DEF IInv, ClaimsInv
      <3> QED
        BY <3>4, <3>6
    <2> QED
      BY <2>1, <2>2
  <1>13. hist' \in [active : Seq(Policies), done : [Ops -> Nat]]
    BY <1>3, <1>10, <1>12
  <1>14. ~x.echo => (x.published.epoch # 0 => /\ x.published.epoch <= Len(hist'.active)
                                              /\ hist'.active[x.published.epoch] = x.published.policy)
    <2>1. CASE x.published = m.published /\ x.echo = m.echo
      <3> DEFINE v == x.published
      <3>1. v.epoch \in Nat /\ (~x.echo => Coherent(v))
        BY <1>2, <1>6, <2>1 DEF Manager
      <3>2. Coherent(v) => (v.epoch # 0 => v.epoch <= Len(hist'.active) /\ hist'.active[v.epoch] = v.policy)
        BY <1>3, <1>9, <3>1 DEF Coherent
      <3> QED
        BY <3>1, <3>2
    <2>2. CASE k = "prepare" /\ x.published = [policy |-> m.current, epoch |-> m.epoch]
      BY <1>3, <1>6, <2>2 DEF Activation
    <2>3. CASE k # "prepare" /\ x.published = [policy |-> p, epoch |-> m.epoch + 1]
      BY <1>3, <1>8, <1>9, <2>3
    <2> QED
      BY <1>2, <2>1, <2>2, <2>3
  <1>15. ASSUME RevisionsDistinct, RInv
         PROVE  /\ manifest'.previous \in Past' \cup {NoPolicy}
                /\ \A q \in Ops : claims'[q].action \in {"activate", "rollback"} => claims'[q].target \in Past'
                /\ x.known \subseteq Past' /\ x.current \in Past' \cup {NoPolicy}
                /\ a.boots <= x.boots
                /\ x.up /\ a.boots = x.boots => a.state.candidate \in x.loaded \cup {NoPolicy}
    <2>1. /\ m.known \subseteq Past /\ m.current \in Past \cup {NoPolicy}
          /\ acks[n].boots <= m.boots
          /\ m.up /\ acks[n].boots = m.boots => acks[n].state.candidate \in m.loaded \cup {NoPolicy}
      BY <1>15, NodeR
    <2>2. manifest'.previous \in Past' \cup {NoPolicy}
      BY <1>3, <1>10, <2>1
    <2>3. \A q \in Ops : claims'[q].action \in {"activate", "rollback"} => claims'[q].target \in Past'
      <3>1. \A q \in Ops : claims[q].action \in {"activate", "rollback"} => claims[q].target \in Past
        BY <1>15 DEF RInv, PastInv
      <3>2. CASE o = NoOp
        BY <1>3, <1>10, <3>1, <3>2
      <3>3. CASE o # NoOp
        <4>1. \A q \in Ops : claims'[q] = IF q = o THEN [action |-> k, target |-> p] ELSE claims[q]
          BY <1>3, <1>8, <3>3
        <4> QED
          BY <1>10, <3>1, <4>1
      <3> QED
        BY <3>2, <3>3
    <2>4. x.known \subseteq Past' /\ x.current \in Past' \cup {NoPolicy}
      BY <1>2, <1>10, <2>1
    <2>5. manifest'.candidate \in x.loaded \cup {NoPolicy}
      BY <1>2, <1>3
    <2>6. a.boots <= x.boots
      BY <1>1, <1>2, <1>7, <2>1 DEF Manager
    <2>7. x.up /\ a.boots = x.boots => a.state.candidate \in x.loaded \cup {NoPolicy}
      BY <1>2, <1>7, <2>1, <2>5
    <2> QED
      BY <2>2, <2>3, <2>4, <2>6, <2>7
  <1>16. \/ hist'.active = hist.active
         \/ \E q \in Policies : hist'.active = Append(hist.active, q)
    BY <1>1, <1>3
  <1> HIDE DEF m
  <1> QED
    BY ZenonT(60), <1>2, <1>3, <1>4, <1>5, <1>7, <1>11, <1>12, <1>13, <1>14, <1>15, <1>16, ManifestStep

LEMMA InitializeStep ==
    ASSUME IInv, NEW n \in Nodes, InitializePolicyManifest(n)
    PROVE  Kept
  <1> DEFINE p == Configured[n]
             f == [epoch |-> 1, active |-> p, candidate |-> NoPolicy, previous |-> NoPolicy]
             x == mgr[n]
             y == [job[n] EXCEPT !.pc = "reread"]
  <1>1. /\ x \in Manager /\ job[n] \in Job /\ mgr = [mgr EXCEPT ![n] = x] /\ p \in Policies
        /\ artifacts \subseteq Policies /\ member \in [Nodes -> BOOLEAN]
    BY Typed, PolicyAssumption
  <1>2. /\ job[n].kind = "boot" /\ job[n].pc = "initialize"
        /\ job' = [job EXCEPT ![n] = y] /\ mgr' = [mgr EXCEPT ![n] = x]
        /\ UNCHANGED <<deployment, artifacts, claims, member>>
    BY <1>1 DEF InitializePolicyManifest, Advance
  <1>3. y \in Job /\ y.pc = "reread" /\ y.kind = "boot"
    BY <1>1, <1>2 DEF Job
  <1>4. ~x.echo => Coherent(x.published)
    BY DEF IInv, ManagersInv
  <1>5. ASSUME RInv
        PROVE  /\ x.known \subseteq Past /\ x.current \in Past \cup {NoPolicy}
               /\ acks[n].boots <= x.boots
               /\ x.up /\ acks[n].boots = x.boots => acks[n].state.candidate \in x.loaded \cup {NoPolicy}
               /\ x.loaded = {}
    BY <1>2, <1>5, NodeR
  <1>6. CASE manifest.epoch # 0
    <2>1. UNCHANGED <<manifest, acks, hist>>
      BY <1>6 DEF InitializePolicyManifest
    <2>2. /\ y.pc \notin {"ack", "act"} /\ y.pc # "act" /\ y.pc # "ack" /\ ~(y.kind # "boot")
      BY <1>3
    <2> HIDE DEF x, y
    <2> QED
      BY <1>1, <1>2, <1>3, <1>4, <1>5, <2>1, <2>2, QuietNode
  <1>7. CASE manifest.epoch = 0
    <2>1. /\ manifest' = f /\ acks' = Observed(n, f) /\ f \in Manifest
          /\ hist' = [hist EXCEPT !.active = <<p>>]
      BY <1>1, <1>7 DEF InitializePolicyManifest, Manifest, PolicyOrNone
    <2>2. hist.active \in Seq(Policies) /\ Len(hist.active) = 0 /\ hist.done \in [Ops -> Nat]
          /\ hist \in [active : Seq(Policies), done : [Ops -> Nat]]
      BY <1>7 DEF IInv, TypeOK, HistoryInv
    <2>3. hist'.active = <<p>> /\ hist'.done = hist.done
      BY <2>1, <2>2
    <2>4. hist'.active = Append(hist.active, p)
      BY <1>1, <2>2, <2>3
    <2>5. /\ hist'.active \in Seq(Policies) /\ Len(hist'.active) = 1 /\ hist'.active[1] = p
          /\ \A v : Coherent(v) /\ v.epoch \in Nat => Coherent(v)'
          /\ Past' = Past \cup {p}
      BY <1>1, <2>2, <2>4, HistoryGrows
    <2>6. hist' \in [active : Seq(Policies), done : [Ops -> Nat]]
      <3> DEFINE s == <<p>>
      <3>1. s \in Seq(Policies) /\ hist' = [hist EXCEPT !.active = s]
        BY <2>1, <2>3, <2>5
      <3> HIDE DEF s
      <3> QED
        BY <2>2, <3>1
    <2>7. manifest' \in Manifest /\ manifest'.epoch = 1 /\ manifest'.active = p
          /\ manifest'.candidate = NoPolicy /\ manifest'.previous = NoPolicy
      BY <2>1
    <2>8. PICK a \in [boots : Nat, state : Manifest] :
              /\ acks' = [acks EXCEPT ![n] = a]
              /\ a = acks[n] \/ a = [boots |-> x.boots, state |-> f]
      <3> HIDE DEF f
      <3> QED
        BY <2>1, ObservedFacts
    <2>9. HistoryInv' /\ ClaimsInv'
      BY <1>2, <2>3, <2>5, <2>7 DEF IInv, HistoryInv, ClaimsInv
    <2>10. /\ claims' \in [Ops -> [action : Mutations \cup {"none"}, target : PolicyOrNone]]
           /\ manifest'.epoch # 0 /\ y.pc \notin {"ack", "act"}
      BY <1>2, <1>3, <2>7 DEF IInv, TypeOK
    <2>11. PICK v : v = x /\ v \in Manager
      BY <1>1
    <2>12. ~v.echo => (v.published.epoch # 0 => /\ v.published.epoch <= Len(hist'.active)
                                                /\ hist'.active[v.published.epoch] = v.published.policy)
      <3> DEFINE w == v.published
      <3>1. w.epoch \in Nat /\ (~v.echo => Coherent(w))
        BY <1>4, <2>11 DEF Manager
      <3>2. Coherent(w) => (w.epoch # 0 => w.epoch <= Len(hist'.active) /\ hist'.active[w.epoch] = w.policy)
        BY <2>5, <3>1 DEF Coherent
      <3> QED
        BY <3>1, <3>2
    <2>13. ASSUME RevisionsDistinct, RInv
           PROVE  /\ manifest'.previous \in Past' \cup {NoPolicy}
                  /\ \A q \in Ops : claims'[q].action \in {"activate", "rollback"} => claims'[q].target \in Past'
                  /\ v.known \subseteq Past' /\ v.current \in Past' \cup {NoPolicy}
                  /\ a.boots <= v.boots
                  /\ v.up /\ a.boots = v.boots => a.state.candidate \in v.loaded \cup {NoPolicy}
                  /\ v.loaded = {}
      <3>1. \A q \in Ops : claims[q].action \in {"activate", "rollback"} => claims[q].target \in Past
        BY <2>13 DEF RInv, PastInv
      <3>2. v.boots \in Nat
        BY <2>11 DEF Manager
      <3> QED
        BY <1>2, <1>5, <2>5, <2>7, <2>8, <2>11, <2>13, <3>1, <3>2
    <2>14. mgr' = [mgr EXCEPT ![n] = v]
      BY <1>2, <2>11
    <2>15. \/ hist'.active = hist.active
           \/ \E q \in Policies : hist'.active = Append(hist.active, q)
      BY <1>1, <2>4
    <2> HIDE DEF x, y, f, p
    <2> QED
      BY <1>2, <1>3, <2>6, <2>7, <2>8, <2>9, <2>10, <2>11, <2>12, <2>13, <2>14, <2>15, ManifestStep
  <1> QED
    BY <1>6, <1>7

-----------------------------------------------------------------------------
(***************************************************************************)
(* The theorems.                                                           *)
(***************************************************************************)
LEMMA InitKept == Init => IInv /\ RInv
  <1> SUFFICES ASSUME Init PROVE IInv /\ RInv
    OBVIOUS
  <1>1. /\ NoManifest \in Manifest /\ NoManifest.epoch = 0 /\ NoManifest.active = NoPolicy
        /\ NoManifest.candidate = NoPolicy /\ NoManifest.previous = NoPolicy
    BY DEF NoManifest, Manifest, PolicyOrNone
  <1>2. /\ Down \in Manager /\ Down.up = FALSE /\ Down.boots = 0 /\ Down.known = {}
        /\ Down.current = NoPolicy /\ Down.published = Unpublished /\ Down.loaded = {}
    BY <1>1 DEF Down, Manager, Unpublished, PolicyOrNone
  <1>3. NoJob \in Job /\ NoJob.pc = "load" /\ NoJob.kind = "none"
    BY NoJobFacts
  <1>4. NoClaim \in [action : Mutations \cup {"none"}, target : PolicyOrNone] /\ NoClaim.action = "none"
    BY DEF NoClaim, PolicyOrNone
  <1>5. /\ hist \in [active : Seq(Policies), done : [Ops -> Nat]] /\ hist.active = <<>>
        /\ hist.done = [o \in Ops |-> 0]
    BY DEF Init
  <1>6. \A n \in Nodes : /\ mgr[n] = Down /\ job[n] = NoJob
                         /\ acks[n] = [boots |-> 0, state |-> NoManifest]
    BY DEF Init
  <1>7. TypeOK
    BY <1>1, <1>2, <1>3, <1>4, <1>5 DEF Init, TypeOK
  <1>8. HistoryInv
    BY <1>1, <1>5 DEF Init, HistoryInv
  <1>9. ClaimsInv
    BY <1>5 DEF Init, ClaimsInv
  <1>10. ManagersInv
    BY <1>2, <1>3, <1>6, UnpublishedCoherent DEF ManagersInv
  <1>11. PastInv
    BY <1>1, <1>2, <1>4, <1>6 DEF Init, PastInv
  <1>12. LoadedInv
    BY <1>1, <1>2, <1>3, <1>6 DEF LoadedInv
  <1> QED
    BY <1>7, <1>8, <1>9, <1>10, <1>11, <1>12 DEF IInv, RInv

LEMMA MutateStep ==
    ASSUME IInv, NEW n \in Nodes, Mutate(n)
    PROVE  Kept
  <1>1. PICK op \in Ops : Refresh(n, Request[op].kind, IF Cluster THEN op ELSE NoOp, Request[op].arg)
    BY DEF Mutate
  <1> DEFINE kind == Request[op].kind
             id == IF Cluster THEN op ELSE NoOp
             arg == Request[op].arg
  <1>2. kind \in Mutations \cup {"reconcile"} /\ arg \in PolicyOrNone
    BY PolicyAssumption DEF Mutations, PolicyOrNone
  <1>3. id \in Ops \cup {NoOp} /\ Refresh(n, kind, id, arg)
    BY <1>1
  <1> HIDE DEF kind, id, arg
  <1> QED
    BY <1>2, <1>3, RefreshStep

LEMMA ReconcileStep ==
    ASSUME IInv, NEW n \in Nodes, Reconcile(n)
    PROVE  Kept
  BY RefreshStep DEF Reconcile, PolicyOrNone

LEMMA NextKept == IInv /\ [Next]_vars => Kept
  <1> SUFFICES ASSUME IInv, [Next]_vars PROVE Kept
    OBVIOUS
  <1>1. CASE UNCHANGED vars
    BY <1>1 DEF vars, Kept, IInv, TypeOK, HistoryInv, ClaimsInv, ManagersInv, Activation, Coherent,
                RInv, PastInv, LoadedInv, Past
  <1>2. ASSUME NEW n \in Nodes, Start(n) PROVE Kept
    BY <1>2, StartStep
  <1>3. ASSUME NEW n \in Nodes, Boot(n) PROVE Kept
    BY <1>3, BootStep
  <1>4. ASSUME NEW n \in Nodes, InitializePolicyManifest(n) PROVE Kept
    BY <1>4, InitializeStep
  <1>5. ASSUME NEW n \in Nodes, Reread(n) PROVE Kept
    BY <1>5, RereadStep
  <1>6. ASSUME NEW n \in Nodes, Crash(n) PROVE Kept
    BY <1>6, CrashStep
  <1>7. ASSUME NEW n \in Nodes, Lapse(n) PROVE Kept
    BY <1>7, LapseStep
  <1>8. ASSUME NEW n \in Nodes, Reconcile(n) PROVE Kept
    BY <1>8, ReconcileStep
  <1>9. ASSUME NEW n \in Nodes, Mutate(n) PROVE Kept
    BY <1>9, MutateStep
  <1>10. ASSUME NEW n \in Nodes, Acknowledge(n) PROVE Kept
    BY <1>10, AcknowledgeStep
  <1>11. ASSUME NEW n \in Nodes, PersistArtifact(n) PROVE Kept
    BY <1>11, PersistArtifactStep
  <1>12. ASSUME NEW n \in Nodes, Commit(n) PROVE Kept
    BY <1>12, CommitStep
  <1>13. ASSUME NEW n \in Nodes, CommitReplayed(n) PROVE Kept
    BY <1>13, CommitReplayedStep
  <1>14. ASSUME NEW n \in Nodes, Refuse(n) PROVE Kept
    BY <1>14, RefuseStep
  <1> QED
    BY <1>1, <1>2, <1>3, <1>4, <1>5, <1>6, <1>7, <1>8, <1>9, <1>10, <1>11, <1>12, <1>13, <1>14 DEF Next

(* The inductive invariant holds: the manifest's epoch counts the          *)
(* activations in its history, a claimed operation id is one that took     *)
(* effect, and a manager that has refreshed (refreshDurableLocked) holds a *)
(* policy with the epoch it was activated under.                           *)
THEOREM Invariance == Spec => []IInv
  <1>1. IInv /\ [Next]_vars => IInv'
    BY NextKept DEF Kept
  <1> QED
    BY InitKept, <1>1, PTL DEF Spec

(* Every variable keeps its type: the manifest, the acknowledgements and   *)
(* the memory of each manager.                                             *)
THEOREM TypeCorrect == Spec => []TypeOK
  <1>1. IInv => TypeOK
    BY DEF IInv
  <1> QED
    BY Invariance, <1>1, PTL

(* What publishLocked shows the data plane under an epoch is the policy    *)
(* activated with that epoch, unless the publication repeats a replayed    *)
(* transition.                                                             *)
THEOREM Publication == Spec => []PublishedCoherent
  <1>1. IInv => PublishedCoherent
    BY DEF IInv, ManagersInv, PublishedCoherent
  <1> QED
    BY Invariance, <1>1, PTL

(* An operation id takes effect at most once, on whatever node and however *)
(* often it is retried (claimControlOperation).                            *)
THEOREM Operations == Spec => []OperationOnce
  <1>1. IInv => OperationOnce
    BY DEF IInv, ClaimsInv, OperationOnce
  <1> QED
    BY Invariance, <1>1, PTL

(* When no revision stands for two policies: what a manager may roll back  *)
(* to (knownGood) has been active, and a process has loaded the candidate  *)
(* it acknowledged.                                                        *)
THEOREM RevisionInvariance ==
    ASSUME RevisionsDistinct
    PROVE  Spec => [](IInv /\ RInv)
  <1>1. IInv /\ RInv /\ [Next]_vars => (IInv /\ RInv)'
    BY NextKept DEF Kept
  <1> QED
    BY InitKept, <1>1, PTL DEF Spec

(* What persistPolicyTransitionOnce checks before an activation or a       *)
(* rollback.                                                               *)
LEMMA CommitChecks ==
    ASSUME IInv, NEW n \in Nodes, Commit(n)
    PROVE  LET p == Target(n).target
               k == job[n].kind
           IN  /\ k = "activate" => /\ manifest.candidate # NoPolicy /\ manifest.candidate.rev = p.rev
                                    /\ Cluster => requirePolicyActivationBarrier(manifest.candidate)
               /\ k = "rollback" => manifest.active # p
  <1> DEFINE p == Target(n).target
             k == job[n].kind
             f == ManifestFor(n, k, p)
  <1>1. Applicable(n, k, f, p)
    BY DEF Commit, Transition
  <1>2. k = "rollback" => f.active = p
    BY DEF ManifestFor
  <1> HIDE DEF p, k, f
  <1>3. /\ k = "activate" => /\ manifest.candidate # NoPolicy /\ manifest.candidate.rev = p.rev
                             /\ Cluster => requirePolicyActivationBarrier(manifest.candidate)
        /\ k = "rollback" => manifest.active # f.active
    BY <1>1 DEF Applicable
  <1> QED
    BY <1>2, <1>3 DEF p, k

(* The candidate an activation commits is the shared one.                  *)
LEMMA ActivatesCandidate ==
    ASSUME IInv, RevisionsDistinct, NEW n \in Nodes, Commit(n), job[n].kind = "activate"
    PROVE  Target(n).target = manifest.candidate /\ manifest.candidate # NoPolicy
  <1>1. manifest.candidate # NoPolicy /\ manifest.candidate.rev = Target(n).target.rev
    BY CommitChecks
  <1>2. Target(n).target \in Policies /\ manifest.candidate \in Policies
    BY <1>1, TargetFacts, Typed DEF Commit, Manifest, PolicyOrNone
  <1> QED
    BY <1>1, <1>2 DEF RevisionsDistinct

LEMMA CommitRefines ==
    ASSUME IInv, RevisionsDistinct, RInv, NEW n \in Nodes, Commit(n)
    PROVE  Register!Next
  <1> DEFINE p == Target(n).target
             k == job[n].kind
  <1>1. /\ p \in Policies /\ k \in Mutations /\ (k = "rollback" => p \in mgr[n].known)
        /\ manifest.epoch # 0
    BY TargetFacts, Acting DEF Commit
  <1>2. /\ k = "prepare" => /\ manifest'.epoch = manifest.epoch /\ manifest'.active = manifest.active
                            /\ manifest.candidate = NoPolicy /\ manifest'.candidate = p
                            /\ hist'.active = hist.active
        /\ k # "prepare" => /\ manifest'.epoch = manifest.epoch + 1 /\ manifest'.active = p
                            /\ manifest'.candidate = NoPolicy
                            /\ hist'.active = Append(hist.active, p)
    BY TransitionFacts
  <1>3. k # "prepare" => Past' = Past \cup {p}
    BY <1>1, <1>2, HistoryGrows DEF IInv, TypeOK
  <1>4. k = "activate" => p = manifest.candidate /\ manifest.candidate # NoPolicy
    BY ActivatesCandidate
  <1>5. k = "rollback" => p # manifest.active /\ p \in Past
    BY <1>1, CommitChecks, NodeR
  <1>6. manifest.epoch > 0
    BY <1>1, Typed DEF Manifest
  <1> HIDE DEF p, k
  <1>7. CASE k = "prepare"
    <2>1. Register!Prepare(p)
      BY <1>2, <1>6, <1>7 DEF Register!Prepare
    <2> QED
      BY <1>1, <2>1 DEF Register!Next
  <1>8. CASE k = "activate"
    <2>1. Register!Activate
      BY <1>2, <1>3, <1>4, <1>8 DEF Register!Activate, Register!Becomes, Past
    <2> QED
      BY <2>1 DEF Register!Next
  <1>9. CASE k = "rollback"
    <2>1. PICK q \in Policies : q = p
      BY <1>1
    <2>2. Register!Rollback(q)
      BY <1>2, <1>3, <1>5, <1>9, <2>1 DEF Register!Rollback, Register!Becomes, Past
    <2> QED
      BY <2>2 DEF Register!Next
  <1> QED
    BY <1>1, <1>7, <1>8, <1>9 DEF Mutations

LEMMA InitializeRefines ==
    ASSUME IInv, NEW n \in Nodes, InitializePolicyManifest(n)
    PROVE  [Register!Next]_(Register!vars)
  <1> DEFINE p == Configured[n]
  <1>1. CASE manifest.epoch # 0
    BY <1>1 DEF InitializePolicyManifest, Register!vars
  <1>2. CASE manifest.epoch = 0
    <2>1. /\ manifest' = [epoch |-> 1, active |-> p, candidate |-> NoPolicy, previous |-> NoPolicy]
          /\ hist' = [hist EXCEPT !.active = <<p>>] /\ p \in Policies
      BY <1>2, PolicyAssumption DEF InitializePolicyManifest
    <2>2. /\ hist.active \in Seq(Policies) /\ Len(hist.active) = 0
          /\ hist \in [active : Seq(Policies), done : [Ops -> Nat]]
      BY <1>2 DEF IInv, TypeOK, HistoryInv
    <2>3. hist'.active = Append(hist.active, p)
      BY <2>1, <2>2
    <2>4. Past' = Past \cup {p}
      BY <2>1, <2>2, <2>3, HistoryGrows
    <2>5. /\ manifest'.epoch = manifest.epoch + 1 /\ manifest'.active = p
          /\ manifest'.candidate = NoPolicy
      BY <1>2, <2>1
    <2>6. Register!Install(p)
      BY <1>2, <2>4, <2>5 DEF Register!Install, Register!Becomes, Past
    <2> QED
      BY <2>1, <2>6 DEF Register!Next
  <1> QED
    BY <1>1, <1>2

(* Every step of the lifecycle is a step of the register, or none.         *)
LEMMA StepRefines ==
    ASSUME IInv, RevisionsDistinct, RInv, [Next]_vars
    PROVE  [Register!Next]_(Register!vars)
  <1>1. CASE UNCHANGED <<manifest, hist>>
    BY <1>1 DEF Register!vars
  <1>2. ASSUME NEW n \in Nodes, Commit(n) PROVE [Register!Next]_(Register!vars)
    BY <1>2, CommitRefines
  <1>3. ASSUME NEW n \in Nodes, InitializePolicyManifest(n) PROVE [Register!Next]_(Register!vars)
    BY <1>3, InitializeRefines
  <1> QED
    BY <1>1, <1>2, <1>3
       DEF Next, vars, Start, Boot, Reread, Crash, Lapse, Reconcile, Mutate, Refresh, Acknowledge,
           PersistArtifact, CommitReplayed, Refuse

(* The manifest that several nodes write through lost answers, retries,    *)
(* restarts and concurrent first boots is one policy register              *)
(* (PolicyRegister): only the prepared policy, or one that was active,     *)
(* becomes active, each with the next epoch.  The stored candidate is      *)
(* matched by id and revision only (persistPolicyTransitionOnce), so a     *)
(* revision must stand for one policy.                                     *)
THEOREM Refinement ==
    ASSUME RevisionsDistinct
    PROVE  Spec => RefinesRegister
  <1>1. Init => Register!Init
    BY DEF Init, NoManifest, Register!Init
  <1>2. IInv /\ RInv /\ [Next]_vars => [Register!Next]_(Register!vars)
    BY StepRefines
  <1> QED
    BY RevisionInvariance, <1>1, <1>2, PTL DEF Spec, RefinesRegister, Register!Spec

(* A committed activation finds its policy loaded in the process of every  *)
(* live node.                                                              *)
LEMMA StepLoaded ==
    ASSUME IInv, RevisionsDistinct, RInv, [Next]_vars, Cluster,
           NEW o \in Ops, claims'[o] # claims[o], claims'[o].action = "activate",
           NEW k \in Nodes, member[k], mgr[k].up
    PROVE  claims'[o].target \in mgr[k].loaded
  <1>1. claims' # claims
    OBVIOUS
  <1>2. PICK n \in Nodes : Commit(n)
    BY <1>1 DEF Next, vars, Start, Boot, InitializePolicyManifest, Reread, Crash, Lapse, Reconcile,
                Mutate, Refresh, Acknowledge, PersistArtifact, CommitReplayed, Refuse
  <1>3. /\ job[n].op = NoOp => claims' = claims
        /\ job[n].op # NoOp =>
              claims' = [claims EXCEPT ![job[n].op] = [action |-> job[n].kind, target |-> Target(n).target]]
    BY <1>2, TransitionFacts
  <1>4. claims'[o].action = job[n].kind /\ claims'[o].target = Target(n).target
    BY <1>1, <1>3 DEF IInv, TypeOK
  <1>5. Target(n).target = manifest.candidate /\ manifest.candidate # NoPolicy
    BY <1>2, <1>4, ActivatesCandidate
  <1>6. requirePolicyActivationBarrier(manifest.candidate)
    BY <1>2, <1>4, CommitChecks
  <1>7. acks[k].boots = mgr[k].boots /\ acks[k].state.candidate = manifest.candidate
    BY <1>6 DEF requirePolicyActivationBarrier
  <1> QED
    BY <1>4, <1>5, <1>7, NodeR

(* A policy is activated in a cluster only when the running process of     *)
(* every live node has loaded and validated it, whatever that node         *)
(* acknowledged before it restarted (requirePolicyActivationBarrier).      *)
THEOREM LoadedBeforeActivation ==
    ASSUME RevisionsDistinct
    PROVE  Spec => ActivatedIsLoaded
  <1>1. IInv /\ RInv /\ [Next]_vars =>
           [Cluster => \A o \in Ops : claims'[o] # claims[o] /\ claims'[o].action = "activate" =>
               \A n \in Nodes : member[n] /\ mgr[n].up => claims'[o].target \in mgr[n].loaded]_vars
    BY StepLoaded
  <1> QED
    BY RevisionInvariance, <1>1, PTL DEF Spec, ActivatedIsLoaded

------------------------------------------------------------------------------
(***************************************************************************)
(* Admission: lanes.                                                       *)
(***************************************************************************)

LaneFields ==
    {"state", "status", "streak", "clearSince", "cleanSince", "firstSeen", "lastSeen",
     "features", "clean", "days", "lastCleanDay", "risk"}

Anchor(rec) == IF rec.cleanSince = Zero THEN rec.firstSeen ELSE rec.cleanSince

(* A lane whose times are at most now.                                     *)
LaneBy(rec, now) ==
    /\ rec = [f \in LaneFields |-> rec[f]]
    /\ rec.state \in {"NEW", "PROBATION", "ESTABLISHED"}
    /\ rec.status \in {"NORMAL", "SUSPICIOUS", "BLOCKED"}
    /\ rec.clearSince \in 0..now
    /\ rec.cleanSince \in 0..now
    /\ rec.firstSeen \in 0..now

(* The reducer of the security status: a block stays; a lane is suspicious *)
(* and clearing only after a low score, since then or since before; and it *)
(* recovers only after the dwell.                                          *)
LEMMA ReduceIs ==
    ASSUME NEW now \in Nat, NEW t \in 0..now, NEW rec, LaneBy(rec, now), NEW score
    PROVE  LET new == ReduceLaneSecurity(rec, score, t)
           IN  /\ LaneBy(new, now)
               /\ new.state = rec.state
               /\ new.firstSeen = rec.firstSeen
               /\ new.cleanSince = rec.cleanSince
               /\ rec.status = "BLOCKED" => new = rec
               /\ new.status = "SUSPICIOUS" /\ new.clearSince # Zero =>
                     /\ rec.status = "SUSPICIOUS"
                     /\ ~(score >= Hysteresis.clear)
                     /\ new.clearSince = IF rec.clearSince = Zero THEN t ELSE rec.clearSince
               /\ rec.status = "SUSPICIOUS" /\ new.status = "NORMAL" =>
                     /\ rec.clearSince # Zero
                     /\ t - rec.clearSince >= Hysteresis.dwell
<1> DEFINE new == ReduceLaneSecurity(rec, score, t)
           blocks == score >= Hysteresis.block /\ Hysteresis.autoBlock
<1>0. Zero \in 0..now
  BY DEF Zero
<1>1. CASE rec.status = "BLOCKED"
<2>1. new = rec
  BY <1>1 DEF ReduceLaneSecurity
<2> QED
  BY <1>1, <2>1
<1>2. CASE rec.status # "BLOCKED" /\ blocks
<2>1. new = [rec EXCEPT !.status = "BLOCKED", !.clearSince = Zero]
  BY <1>2 DEF ReduceLaneSecurity
<2>2. /\ LaneBy(new, now) /\ new.status = "BLOCKED" /\ new.state = rec.state
      /\ new.firstSeen = rec.firstSeen /\ new.cleanSince = rec.cleanSince
  BY <1>0, <2>1 DEF LaneBy, LaneFields
<2> QED
  BY <1>2, <2>2
<1>3. CASE rec.status = "NORMAL" /\ ~blocks
<2>1. \/ new = [rec EXCEPT !.streak = 0, !.clearSince = Zero]
      \/ new = [rec EXCEPT !.status = "SUSPICIOUS", !.streak = rec.streak + 1, !.clearSince = Zero]
      \/ new = [rec EXCEPT !.streak = rec.streak + 1]
  BY <1>3 DEF ReduceLaneSecurity
<2> DEFINE fact ==
             /\ LaneBy(new, now) /\ new.state = rec.state
             /\ new.firstSeen = rec.firstSeen /\ new.cleanSince = rec.cleanSince
             /\ new.status = "NORMAL" \/ (new.status = "SUSPICIOUS" /\ new.clearSince = Zero)
<2>2. ASSUME new = [rec EXCEPT !.streak = 0, !.clearSince = Zero] PROVE fact
  BY <1>0, <1>3, <2>2 DEF LaneBy, LaneFields
<2>3. ASSUME new = [rec EXCEPT !.status = "SUSPICIOUS", !.streak = rec.streak + 1, !.clearSince = Zero]
      PROVE  fact
<3>1. /\ new = [f \in LaneFields |-> new[f]]
      /\ \A f \in LaneFields \ {"status", "streak", "clearSince"} : new[f] = rec[f]
      /\ new.status = "SUSPICIOUS" /\ new.clearSince = Zero
  BY <2>3 DEF LaneBy, LaneFields
<3> HIDE DEF new
<3>2. LaneBy(new, now) /\ new.state = rec.state /\ new.firstSeen = rec.firstSeen
      /\ new.cleanSince = rec.cleanSince
  BY <1>0, <3>1 DEF LaneBy, LaneFields
<3> QED
  BY <3>1, <3>2
<2>4. ASSUME new = [rec EXCEPT !.streak = rec.streak + 1] PROVE fact
  BY <1>3, <2>4 DEF LaneBy, LaneFields
<2>5. fact
  BY <2>1, <2>2, <2>3, <2>4
<2> QED
  BY <1>3, <2>5
<1>4. CASE rec.status = "SUSPICIOUS" /\ ~blocks
<2>1. new = IF score >= Hysteresis.clear THEN [rec EXCEPT !.clearSince = Zero]
            ELSE IF rec.clearSince = Zero THEN [rec EXCEPT !.clearSince = t]
            ELSE IF t - rec.clearSince >= Hysteresis.dwell
            THEN [rec EXCEPT !.status = "NORMAL", !.streak = 0, !.clearSince = Zero]
            ELSE rec
  BY <1>4 DEF ReduceLaneSecurity
<2>2. CASE score >= Hysteresis.clear
<3>1. new = [rec EXCEPT !.clearSince = Zero]
  BY <2>1, <2>2
<3>2. /\ LaneBy(new, now) /\ new.state = rec.state /\ new.status = rec.status
      /\ new.firstSeen = rec.firstSeen /\ new.cleanSince = rec.cleanSince /\ new.clearSince = Zero
  BY <1>0, <3>1 DEF LaneBy, LaneFields
<3> QED
  BY <1>4, <3>2
<2>3. CASE ~(score >= Hysteresis.clear) /\ rec.clearSince = Zero
<3>1. new = [rec EXCEPT !.clearSince = t]
  BY <2>1, <2>3
<3>2. /\ LaneBy(new, now) /\ new.state = rec.state /\ new.status = rec.status
      /\ new.firstSeen = rec.firstSeen /\ new.cleanSince = rec.cleanSince /\ new.clearSince = t
  BY <3>1 DEF LaneBy, LaneFields
<3> QED
  BY <1>4, <2>3, <3>2
<2>4. CASE ~(score >= Hysteresis.clear) /\ rec.clearSince # Zero /\ t - rec.clearSince >= Hysteresis.dwell
<3>1. new = [rec EXCEPT !.status = "NORMAL", !.streak = 0, !.clearSince = Zero]
  BY <2>1, <2>4
<3>2. /\ LaneBy(new, now) /\ new.state = rec.state /\ new.status = "NORMAL"
      /\ new.firstSeen = rec.firstSeen /\ new.cleanSince = rec.cleanSince
  BY <1>0, <3>1 DEF LaneBy, LaneFields
<3> QED
  BY <1>4, <2>4, <3>2
<2>5. CASE /\ ~(score >= Hysteresis.clear) /\ rec.clearSince # Zero
           /\ ~(t - rec.clearSince >= Hysteresis.dwell)
<3>1. new = rec
  BY <2>1, <2>5
<3> QED
  BY <1>4, <2>5, <3>1
<2> QED
  BY <2>2, <2>3, <2>4, <2>5
<1> QED
  BY <1>1, <1>2, <1>3, <1>4 DEF LaneBy

(* An observation writes the risk too, and coming back to NORMAL starts a  *)
(* clean window.                                                           *)
LEMMA ObservationIs ==
    ASSUME NEW now \in Nat, NEW t \in 0..now, NEW rec, LaneBy(rec, now), NEW score
    PROVE  LET new == ApplyRiskObservation(rec, score, t)
           IN  /\ LaneBy(new, now)
               /\ new.state = rec.state
               /\ new.firstSeen = rec.firstSeen
               /\ rec.status = "BLOCKED" => new.status = "BLOCKED"
               /\ new.status = "NORMAL" =>
                     new.cleanSince = IF rec.status = "NORMAL" THEN rec.cleanSince ELSE t
               /\ new.status = "SUSPICIOUS" /\ new.clearSince # Zero =>
                     /\ rec.status = "SUSPICIOUS"
                     /\ ~(score >= Hysteresis.clear)
                     /\ new.clearSince = IF rec.clearSince = Zero THEN t ELSE rec.clearSince
               /\ rec.status = "SUSPICIOUS" /\ new.status = "NORMAL" =>
                     /\ rec.clearSince # Zero
                     /\ t - rec.clearSince >= Hysteresis.dwell
<1> DEFINE new == ApplyRiskObservation(rec, score, t)
           reduced == ReduceLaneSecurity(rec, score, t)
           next == [reduced EXCEPT !.risk = score]
<1>1. /\ LaneBy(reduced, now)
      /\ reduced.state = rec.state
      /\ reduced.firstSeen = rec.firstSeen
      /\ reduced.cleanSince = rec.cleanSince
      /\ rec.status = "BLOCKED" => reduced.status = "BLOCKED"
      /\ reduced.status = "SUSPICIOUS" /\ reduced.clearSince # Zero =>
            /\ rec.status = "SUSPICIOUS"
            /\ ~(score >= Hysteresis.clear)
            /\ reduced.clearSince = IF rec.clearSince = Zero THEN t ELSE rec.clearSince
      /\ rec.status = "SUSPICIOUS" /\ reduced.status = "NORMAL" =>
            /\ rec.clearSince # Zero
            /\ t - rec.clearSince >= Hysteresis.dwell
  BY ReduceIs
<1>2. new = CASE rec.status = "NORMAL" /\ next.status # "NORMAL" -> [next EXCEPT !.cleanSince = Zero]
              [] rec.status # "NORMAL" /\ next.status = "NORMAL" ->
                    [next EXCEPT !.cleanSince = t, !.clean = 0, !.days = 0, !.lastCleanDay = -1]
              [] OTHER -> next
  BY DEF ApplyRiskObservation
<1> HIDE DEF new, reduced
<1>3. /\ LaneBy(next, now)
      /\ \A f \in LaneFields \ {"risk"} : next[f] = reduced[f]
  BY <1>1 DEF LaneBy, LaneFields
<1>4. /\ next.status = reduced.status /\ next.state = reduced.state
      /\ next.clearSince = reduced.clearSince
      /\ next.cleanSince = reduced.cleanSince /\ next.firstSeen = reduced.firstSeen
  BY <1>3 DEF LaneFields
<1> HIDE DEF next
<1>5. CASE rec.status = "NORMAL" /\ next.status # "NORMAL"
<2>1. new = [next EXCEPT !.cleanSince = Zero]
  BY <1>2, <1>5
<2>2. LaneBy(new, now) /\ \A f \in LaneFields \ {"cleanSince"} : new[f] = next[f]
  BY <1>3, <2>1 DEF LaneBy, LaneFields, Zero
<2>3. new.status = next.status /\ new.state = next.state /\ new.clearSince = next.clearSince
      /\ new.firstSeen = next.firstSeen
  BY <2>2 DEF LaneFields
<2> QED
  BY <1>1, <1>4, <1>5, <2>2, <2>3 DEF new
<1>6. CASE rec.status # "NORMAL" /\ next.status = "NORMAL"
<2>1. new = [next EXCEPT !.cleanSince = t, !.clean = 0, !.days = 0, !.lastCleanDay = -1]
  BY <1>2, <1>6
<2>2. /\ LaneBy(new, now) /\ new.cleanSince = t
      /\ new.status = next.status /\ new.state = next.state /\ new.clearSince = next.clearSince
      /\ new.firstSeen = next.firstSeen
  BY <1>3, <2>1 DEF LaneBy, LaneFields
<2> QED
  BY <1>1, <1>4, <1>6, <2>2 DEF new
<1>7. CASE ~(rec.status = "NORMAL" /\ next.status # "NORMAL") /\ ~(rec.status # "NORMAL" /\ next.status = "NORMAL")
<2>1. new = next
  BY <1>2, <1>7
<2> QED
  BY <1>1, <1>3, <1>4, <1>7, <2>1 DEF new
<1> QED
  BY <1>5, <1>6, <1>7

(* The ladder: a lane is established while NORMAL and a clean window after *)
(* its anchor.                                                             *)
LEMMA PromoteIs ==
    ASSUME NEW rec, NEW now \in Nat, LaneBy(rec, now), NEW disqualified, NEW t
    PROVE  LET state == PromoteIfEligible(rec, disqualified, t)
           IN  /\ state \in {"NEW", "PROBATION", "ESTABLISHED"}
               /\ state = "ESTABLISHED" /\ rec.state # "ESTABLISHED" =>
                     rec.status = "NORMAL" /\ t - Anchor(rec) >= Learning.age
<1> DEFINE state == PromoteIfEligible(rec, disqualified, t)
<1>1. CASE rec.status # "NORMAL" \/ disqualified
<2>1. state = rec.state
  BY <1>1 DEF PromoteIfEligible
<2> QED
  BY <2>1 DEF LaneBy
<1>2. CASE rec.status = "NORMAL" /\ ~disqualified /\ rec.state = "NEW"
<2>1. state \in {"NEW", "PROBATION"}
  BY <1>2 DEF PromoteIfEligible
<2> QED
  BY <2>1
<1>3. CASE rec.status = "NORMAL" /\ ~disqualified /\ rec.state = "PROBATION"
  BY <1>3 DEF PromoteIfEligible, Anchor
<1>4. CASE rec.status = "NORMAL" /\ ~disqualified /\ rec.state = "ESTABLISHED"
<2>1. state = rec.state
  BY <1>4 DEF PromoteIfEligible
<2> QED
  BY <1>4, <2>1
<1> QED
  BY <1>1, <1>2, <1>3, <1>4 DEF LaneBy

LEMMA CleanIs ==
    ASSUME NEW rec, NEW now \in Nat, LaneBy(rec, now), NEW score, NEW disqualified, NEW t
    PROVE  LET new == ApplyCleanAuthorizedAndPromote(rec, score, disqualified, t)
           IN  /\ LaneBy(new, now)
               /\ new.status = rec.status
               /\ new.clearSince = rec.clearSince
               /\ new.cleanSince = rec.cleanSince
               /\ new.firstSeen = rec.firstSeen
               /\ new.state = "ESTABLISHED" /\ rec.state # "ESTABLISHED" =>
                     rec.status = "NORMAL" /\ t - Anchor(rec) >= Learning.age
<1> DEFINE newDay == Day(t) # rec.lastCleanDay
           counted == [rec EXCEPT !.risk = score, !.clean = @ + 1,
                                  !.days = IF newDay THEN @ + 1 ELSE @, !.lastCleanDay = Day(t)]
           state == PromoteIfEligible(counted, disqualified, t)
           new == ApplyCleanAuthorizedAndPromote(rec, score, disqualified, t)
<1>1. new = [counted EXCEPT !.state = state]
  BY DEF ApplyCleanAuthorizedAndPromote
<1>2. /\ LaneBy(counted, now)
      /\ counted.status = rec.status /\ counted.state = rec.state
      /\ counted.clearSince = rec.clearSince
      /\ counted.cleanSince = rec.cleanSince /\ counted.firstSeen = rec.firstSeen
  BY DEF LaneBy, LaneFields
<1> HIDE DEF counted, new
<1>3. /\ state \in {"NEW", "PROBATION", "ESTABLISHED"}
      /\ state = "ESTABLISHED" /\ counted.state # "ESTABLISHED" =>
            counted.status = "NORMAL" /\ t - Anchor(counted) >= Learning.age
  BY <1>2, PromoteIs
<1>4. Anchor(counted) = Anchor(rec)
  BY <1>2 DEF Anchor
<1> HIDE DEF state
<1>5. /\ LaneBy(new, now) /\ new.state = state
      /\ new.status = counted.status /\ new.clearSince = counted.clearSince
      /\ new.cleanSince = counted.cleanSince /\ new.firstSeen = counted.firstSeen
  BY <1>1, <1>2, <1>3 DEF LaneBy, LaneFields
<1> QED
  BY <1>2, <1>3, <1>4, <1>5 DEF new

LEMMA UnblockIs ==
    ASSUME NEW rec, NEW now \in Nat, LaneBy(rec, now)
    PROVE  LET new == ApplyUnblock(rec, now)
           IN  /\ LaneBy(new, now)
               /\ new.state = rec.state
               /\ new.status = "NORMAL"
               /\ new.cleanSince = now
               /\ new.firstSeen = rec.firstSeen
<1> DEFINE new == ApplyUnblock(rec, now)
<1>1. Zero \in 0..now
  BY DEF Zero
<1>2. new = [rec EXCEPT !.status = "NORMAL", !.cleanSince = now, !.streak = 0, !.clearSince = Zero]
  BY DEF ApplyUnblock
<1> HIDE DEF new
<1>3. /\ new = [f \in LaneFields |-> new[f]]
      /\ \A f \in LaneFields \ {"status", "cleanSince", "streak", "clearSince"} : new[f] = rec[f]
      /\ new.status = "NORMAL" /\ new.cleanSince = now /\ new.clearSince = Zero
  BY <1>2 DEF LaneBy, LaneFields
<1>4. LaneBy(new, now) /\ new.state = rec.state /\ new.firstSeen = rec.firstSeen
  BY <1>1, <1>3 DEF LaneBy, LaneFields
<1> QED
  BY <1>3, <1>4 DEF new

LEMMA NewLaneIs ==
    ASSUME NEW v, NEW now \in Nat
    PROVE  LET new == NewLane(v, now)
           IN  /\ LaneBy(new, now)
               /\ new.state = "NEW"
               /\ new.status = "NORMAL"
               /\ new.cleanSince = now
               /\ new.firstSeen = now
  BY DEF NewLane, LaneBy, LaneFields, Zero

------------------------------------------------------------------------------
(* BorrowOrCreate.                                                         *)

(* A touched lane differs in when it was last seen.                        *)
SameLane(old, new) ==
    /\ new.state = old.state /\ new.status = old.status
    /\ new.clearSince = old.clearSince
    /\ new.cleanSince = old.cleanSince /\ new.firstSeen = old.firstSeen

IsTable(table, now) ==
    /\ table = [l \in DOMAIN table |-> table[l]]
    /\ \A l \in DOMAIN table : LaneBy(table[l], now)

LEMMA TouchIs ==
    ASSUME NEW now \in Nat, NEW rec, LaneBy(rec, now)
    PROVE  LET new == [rec EXCEPT !.lastSeen = now] IN LaneBy(new, now) /\ SameLane(rec, new)
  BY DEF LaneBy, LaneFields, SameLane

(* Every lane of the result is the created one or an old one; a lane that  *)
(* is retained is among the old ones.                                      *)
LEMMA BorrowIs ==
    ASSUME NEW now \in Nat, NEW table, IsTable(table, now), NEW v
    PROVE  LET out == ApplyBorrowOrCreate(table, v, now)
           IN  /\ IsTable(out.lanes, now)
               /\ out.created \in BOOLEAN
               /\ out.created => out.lane \in DOMAIN out.lanes
               /\ \A l \in DOMAIN out.lanes :
                     IF out.created /\ l = out.lane THEN out.lanes[l] = NewLane(v, now)
                     ELSE l \in DOMAIN table /\ SameLane(table[l], out.lanes[l])
               /\ \A l \in DOMAIN table : RetentionDecision(table[l], now) =>
                     l \in DOMAIN out.lanes /\ ~(out.created /\ l = out.lane)
<1> DEFINE out == ApplyBorrowOrCreate(table, v, now)
           kept == Restrict(table, {l \in DOMAIN table : RetentionDecision(table[l], now)})
           own == LaneTag(v)
           Reuse(l) == [lanes |-> [kept EXCEPT ![l].lastSeen = now], lane |-> l,
                        created |-> FALSE, err |-> "none"]
           Fail(e) == [lanes |-> kept, lane |-> own, created |-> FALSE, err |-> e]
           Made == [lanes |-> [l \in DOMAIN kept \cup {own} |->
                                  IF l = own THEN NewLane(v, now) ELSE kept[l]],
                    lane |-> own, created |-> TRUE, err |-> "none"]
<1>1. \/ \E l \in DOMAIN kept : out = Reuse(l)
      \/ \E e : out = Fail(e)
      \/ own \notin DOMAIN kept /\ out = Made
<2> DEFINE Feat(l) == kept[l].features
           Better(l, m) == \/ MoreSimilar(v, Feat(l), Feat(m))
                           \/ ~MoreSimilar(v, Feat(m), Feat(l)) /\ l < m
           best == {l \in DOMAIN kept : \A m \in DOMAIN kept \ {l} : Better(l, m)}
           matches == {l \in best : IsMatch(v, Feat(l))}
           provisional == {l \in DOMAIN kept : kept[l].state \in {"NEW", "PROBATION"}}
<2>1. out = IF own \in DOMAIN kept
            THEN IF Feat(own) = v THEN Reuse(own) ELSE Fail("conflict")
            ELSE IF matches # {} THEN Reuse(CHOOSE l \in matches : TRUE)
            ELSE IF \/ Cardinality(DOMAIN kept) >= Limits.maxActive
                    \/ Limits.maxProvisional > 0 /\ Cardinality(provisional) >= Limits.maxProvisional
            THEN Fail("limit")
            ELSE Made
  BY DEF ApplyBorrowOrCreate
<2>2. matches # {} => (CHOOSE l \in matches : TRUE) \in DOMAIN kept
<3>1. matches \subseteq DOMAIN kept
  OBVIOUS
<3> HIDE DEF matches
<3> QED
  BY <3>1
<2> HIDE DEF out, kept, own, Reuse, Fail, Made, matches, Feat, provisional
<2>3. CASE own \in DOMAIN kept
  BY <2>1, <2>3
<2>4. CASE own \notin DOMAIN kept /\ matches # {}
<3>1. out = Reuse(CHOOSE l \in matches : TRUE)
  BY <2>1, <2>4
<3> QED
  BY <2>2, <2>4, <3>1
<2>5. CASE own \notin DOMAIN kept /\ matches = {}
  BY <2>1, <2>5
<2> QED
  BY <2>3, <2>4, <2>5
<1>2. /\ kept = [l \in DOMAIN kept |-> kept[l]]
      /\ \A l \in DOMAIN kept : l \in DOMAIN table /\ kept[l] = table[l]
      /\ \A l \in DOMAIN table : RetentionDecision(table[l], now) => l \in DOMAIN kept
  BY DEF Restrict
<1> HIDE DEF kept
<1>3. IsTable(kept, now) /\ \A l \in DOMAIN kept : SameLane(table[l], kept[l])
  BY <1>2 DEF IsTable, SameLane
<1>4. ASSUME NEW k \in DOMAIN kept, out = Reuse(k)
      PROVE  /\ ~out.created /\ out.created \in BOOLEAN
             /\ DOMAIN out.lanes = DOMAIN kept
             /\ IsTable(out.lanes, now)
             /\ \A l \in DOMAIN kept : SameLane(table[l], out.lanes[l])
<2>1. out.lanes = [kept EXCEPT ![k] = [kept[k] EXCEPT !.lastSeen = now]] /\ out.created = FALSE
  BY <1>4
<2>2. LaneBy([kept[k] EXCEPT !.lastSeen = now], now)
      /\ SameLane(kept[k], [kept[k] EXCEPT !.lastSeen = now])
  BY <1>3, TouchIs DEF IsTable
<2> DEFINE touched == [kept[k] EXCEPT !.lastSeen = now]
<2> HIDE DEF out, touched
<2>3. /\ DOMAIN out.lanes = DOMAIN kept
      /\ \A l \in DOMAIN kept : out.lanes[l] = IF l = k THEN touched ELSE kept[l]
      /\ out.lanes = [l \in DOMAIN out.lanes |-> out.lanes[l]]
  BY <1>2, <2>1 DEF touched
<2>4. LaneBy(touched, now) /\ SameLane(table[k], touched)
  BY <1>2, <2>2 DEF touched
<2>5. \A l \in DOMAIN kept : LaneBy(out.lanes[l], now) /\ SameLane(table[l], out.lanes[l])
  BY <1>3, <2>3, <2>4 DEF IsTable
<2>6. IsTable(out.lanes, now)
  BY <2>3, <2>5 DEF IsTable
<2> QED
  BY <2>1, <2>3, <2>5, <2>6
<1>5. ASSUME NEW e, out = Fail(e)
      PROVE  out.created = FALSE /\ out.lanes = kept
  BY <1>5
<1>6. ASSUME own \notin DOMAIN kept, out = Made
      PROVE  /\ out.created = TRUE /\ out.lane = own
             /\ DOMAIN out.lanes = DOMAIN kept \cup {own}
             /\ IsTable(out.lanes, now)
             /\ \A l \in DOMAIN kept : SameLane(table[l], out.lanes[l])
             /\ out.lanes[own] = NewLane(v, now)
<2>1. /\ out.lanes = [l \in DOMAIN kept \cup {own} |-> IF l = own THEN NewLane(v, now) ELSE kept[l]]
      /\ out.lane = own /\ out.created = TRUE
  BY <1>6
<2>2. LaneBy(NewLane(v, now), now)
  BY NewLaneIs
<2> HIDE DEF out, own
<2>3. /\ DOMAIN out.lanes = DOMAIN kept \cup {own}
      /\ out.lanes[own] = NewLane(v, now)
      /\ \A l \in DOMAIN kept : out.lanes[l] = kept[l]
      /\ out.lanes = [l \in DOMAIN out.lanes |-> out.lanes[l]]
  BY <1>6, <2>1
<2>4. IsTable(out.lanes, now)
  BY <1>3, <2>2, <2>3 DEF IsTable
<2> QED
  BY <1>3, <2>1, <2>3, <2>4
<1> HIDE DEF out, own, Reuse, Fail, Made
<1>7. CASE \E l \in DOMAIN kept : out = Reuse(l)
  BY <1>2, <1>4, <1>7 DEF out
<1>8. CASE \E e : out = Fail(e)
  BY <1>2, <1>3, <1>5, <1>8 DEF out
<1>9. CASE own \notin DOMAIN kept /\ out = Made
  BY <1>2, <1>6, <1>9 DEF out
<1> QED
  BY <1>1, <1>7, <1>8, <1>9

------------------------------------------------------------------------------
(* The inductive invariant.                                                *)

AdmittedFields == {"pc", "now", "id", "lane", "lockdown", "risk", "adaptive"}

(* A request knows a time of the past until its lane is observed, and again *)
(* when it records; only one that was never degraded gets to its baseline. *)
RequestBy(q, now) ==
    /\ q.pc \in {"posture", "classify", "evidence", "snapshot", "observe", "record"} => q.now \in 1..now
    /\ q.pc \in {"observe", "provision", "authorized", "baseline"} => q = [f \in AdmittedFields |-> q[f]]
    /\ q.pc \in {"baseline", "record"} => q.adaptive

RequestInv ==
    /\ req = [r \in Requests |-> req[r]]
    /\ \A r \in Requests : RequestBy(req[r], clock)

(* On one clock, a suspicious lane clears since a time after the last high *)
(* score, and a normal one was never anything else since its anchor.       *)
Timely(rec, high, up) ==
    /\ rec.status = "SUSPICIOUS" /\ rec.clearSince # Zero => high <= rec.clearSince
    /\ rec.status = "NORMAL" => up <= Anchor(rec) /\ rec.firstSeen <= Anchor(rec)

LaneInv ==
    /\ clock \in Nat \ {0}
    /\ IsTable(lanes, clock)
    /\ lastHigh \in [DOMAIN lanes -> 0..clock]
    /\ elevated \in [DOMAIN lanes -> 0..clock]
    /\ ~Standalone => \A l \in DOMAIN lanes : Timely(lanes[l], lastHigh[l], elevated[l])

Items(set) == IsFiniteSet(set) /\ \A ev \in set : ev.made \in Nat /\ ev.exp \in Nat

AdmissionInv == LaneInv /\ RequestInv /\ Items(evidence)

(* What a step does to the lanes.                                          *)
LaneMoves ==
    /\ \A l \in DOMAIN lanes : lanes[l].status = "BLOCKED" =>
          Unblock(l) \/ (l \in DOMAIN lanes' /\ lanes'[l].status = "BLOCKED")
    /\ ~Standalone =>
          \A l \in DOMAIN lanes \cap DOMAIN lanes' :
             lanes[l].status = "SUSPICIOUS" /\ lanes'[l].status = "NORMAL"
                 => clock - lastHigh[l] >= Hysteresis.dwell \/ Forgotten(l)
    /\ ~Standalone =>
          \A l \in DOMAIN lanes' :
             lanes'[l].state = "ESTABLISHED" /\ (l \in DOMAIN lanes => lanes[l].state # "ESTABLISHED")
                 => /\ \E r \in Requests : At(r, "record") /\ req[r].lane = l /\ req[r].adaptive
                    /\ lanes'[l].status = "NORMAL"
                    /\ clock - Max({elevated[l], lanes'[l].firstSeen}) >= Learning.age

LEMMA MaxOfTwo ==
    ASSUME NEW a \in Int, NEW b \in Int
    PROVE  Max({a, b}) = IF a >= b THEN a ELSE b
  BY DEF Max

LEMMA MinOfTwo ==
    ASSUME NEW a \in Int, NEW b \in Int
    PROVE  Min({a, b}) = IF a <= b THEN a ELSE b
  BY DEF Min

LEMMA LaneInit == AdmissionInit => LaneInv
<1> SUFFICES ASSUME AdmissionInit PROVE LaneInv
  OBVIOUS
<1>1. /\ clock = 1 /\ lanes \in InitialLanes
      /\ lastHigh = [l \in DOMAIN lanes |-> IF lanes[l].status = "NORMAL" THEN Zero ELSE clock]
      /\ elevated = lastHigh
  BY DEF AdmissionInit
<1>2. lanes = [l \in DOMAIN lanes |-> lanes[l]] /\ \A l \in DOMAIN lanes : StoredLane(lanes[l], 1)
  BY <1>1, AdmissionAssumption
<1>3. ASSUME NEW rec, StoredLane(rec, 1)
      PROVE  /\ LaneBy(rec, 1)
             /\ rec.cleanSince = Zero \/ rec.cleanSince >= rec.firstSeen
  BY <1>3 DEF StoredLane, LaneBy, LaneFields
<1>4. IsTable(lanes, clock)
  BY <1>1, <1>2, <1>3 DEF IsTable
<1>5. lastHigh \in [DOMAIN lanes -> 0..clock]
  BY <1>1 DEF Zero
<1>6. ASSUME NEW l \in DOMAIN lanes
      PROVE  Timely(lanes[l], lastHigh[l], elevated[l])
<2>1. LaneBy(lanes[l], 1) /\ (lanes[l].cleanSince = Zero \/ lanes[l].cleanSince >= lanes[l].firstSeen)
  BY <1>2, <1>3
<2>2. lanes[l].clearSince \in 0..1 /\ lanes[l].firstSeen \in 0..1 /\ lanes[l].cleanSince \in 0..1
  BY <2>1 DEF LaneBy
<2>3. elevated[l] = lastHigh[l] /\ lastHigh[l] = IF lanes[l].status = "NORMAL" THEN 0 ELSE 1
  BY <1>1 DEF Zero
<2> QED
  BY <2>1, <2>2, <2>3 DEF Timely, Anchor, Zero
<1> QED
  BY <1>1, <1>4, <1>5, <1>6 DEF LaneInv

(* Steps that leave the lanes alone.                                       *)
LEMMA QuietStep ==
    ASSUME LaneInv, UNCHANGED <<clock, lanes, history>>
    PROVE  LaneInv' /\ LaneMoves
<1>1. UNCHANGED <<clock, lanes, lastHigh, elevated>>
  BY DEF history
<1>2. LaneInv'
  BY <1>1 DEF LaneInv
<1>3. LaneMoves
  BY <1>1 DEF LaneMoves
<1> QED
  BY <1>2, <1>3

LEMMA LaterLane ==
    ASSUME NEW rec, NEW now \in Nat, LaneBy(rec, now)
    PROVE  LaneBy(rec, now + 1)
  BY DEF LaneBy

LEMMA TickStep ==
    ASSUME LaneInv, Tick
    PROVE  LaneInv' /\ LaneMoves
<1>1. clock' = clock + 1 /\ UNCHANGED <<lanes, lastHigh, elevated>> /\ clock \in Nat
  BY DEF Tick, history, LaneInv
<1>2. IsTable(lanes', clock')
  BY <1>1, LaterLane DEF LaneInv, IsTable
<1>3. lastHigh' \in [DOMAIN lanes' -> 0..clock'] /\ elevated' \in [DOMAIN lanes' -> 0..clock']
<2>1. 0..clock \subseteq 0..clock'
  BY <1>1
<2> QED
  BY <1>1, <2>1 DEF LaneInv
<1>4. LaneInv'
  BY <1>1, <1>2, <1>3 DEF LaneInv
<1>5. LaneMoves
  BY <1>1 DEF LaneMoves
<1> QED
  BY <1>4, <1>5

LEMMA UnblockStep ==
    ASSUME LaneInv, NEW l \in DOMAIN lanes, Unblock(l)
    PROVE  LaneInv' /\ LaneMoves
<1>1. /\ lanes[l].status = "BLOCKED"
      /\ lanes' = [lanes EXCEPT ![l] = ApplyUnblock(lanes[l], clock)]
      /\ elevated' = [elevated EXCEPT ![l] = clock]
      /\ UNCHANGED <<clock, lastHigh>>
      /\ clock \in Nat /\ clock # 0
  BY DEF Unblock, UnblockLane, LaneInv
<1> DEFINE new == ApplyUnblock(lanes[l], clock)
<1>2. /\ LaneBy(new, clock)
      /\ new.state = lanes[l].state /\ new.status = "NORMAL"
      /\ new.cleanSince = clock /\ new.firstSeen = lanes[l].firstSeen
  BY <1>1, UnblockIs DEF LaneInv, IsTable
<1> HIDE DEF new
<1>3. /\ DOMAIN lanes' = DOMAIN lanes
      /\ lanes' = [k \in DOMAIN lanes' |-> lanes'[k]]
      /\ lanes'[l] = new
      /\ \A k \in DOMAIN lanes \ {l} : lanes'[k] = lanes[k]
  BY <1>1 DEF LaneInv, IsTable, new
<1>4. IsTable(lanes', clock')
  BY <1>1, <1>2, <1>3 DEF LaneInv, IsTable
<1>5. /\ lastHigh' \in [DOMAIN lanes' -> 0..clock'] /\ elevated' \in [DOMAIN lanes' -> 0..clock']
      /\ elevated'[l] = clock
      /\ \A k \in DOMAIN lanes \ {l} : elevated'[k] = elevated[k]
  BY <1>1, <1>3 DEF LaneInv
<1>6. Timely(new, lastHigh[l], clock)
  BY <1>1, <1>2 DEF Timely, Anchor, LaneBy, Zero
<1>7. ~Standalone => \A k \in DOMAIN lanes' : Timely(lanes'[k], lastHigh'[k], elevated'[k])
  BY <1>1, <1>3, <1>5, <1>6 DEF LaneInv
<1>8. LaneInv'
  BY <1>1, <1>4, <1>5, <1>7 DEF LaneInv
<1>9. LaneMoves
  BY <1>1, <1>2, <1>3 DEF LaneMoves
<1> QED
  BY <1>8, <1>9

LEMMA SameTimely ==
    ASSUME NEW old, NEW new, SameLane(old, new), NEW high, NEW up, Timely(old, high, up)
    PROVE  Timely(new, high, up)
  BY DEF SameLane, Timely, Anchor

LEMMA ClassifyStep ==
    ASSUME LaneInv, NEW r \in Requests, Classify(r)
    PROVE  LaneInv' /\ LaneMoves
<1> DEFINE v == req[r].vector
           out == BorrowOrCreate(v)
           made == NewLane(v, clock)
           Track(f) == [m \in DOMAIN out.lanes |-> IF out.created /\ m = out.lane THEN Zero ELSE f[m]]
<1>1. /\ lanes' = out.lanes /\ UNCHANGED clock
      /\ lastHigh' = Track(lastHigh) /\ elevated' = Track(elevated)
  BY DEF Classify
<1>2. clock \in Nat /\ clock # 0 /\ IsTable(lanes, clock)
  BY DEF LaneInv
<1>3. out = ApplyBorrowOrCreate(lanes, v, clock)
  BY DEF BorrowOrCreate
<1> HIDE DEF out, v
<1>4. /\ IsTable(out.lanes, clock)
      /\ out.created \in BOOLEAN
      /\ \A l \in DOMAIN out.lanes :
            IF out.created /\ l = out.lane THEN out.lanes[l] = made
            ELSE l \in DOMAIN lanes /\ SameLane(lanes[l], out.lanes[l])
      /\ \A l \in DOMAIN lanes : RetentionDecision(lanes[l], clock) =>
            l \in DOMAIN out.lanes /\ ~(out.created /\ l = out.lane)
  BY <1>2, <1>3, BorrowIs
<1>5. /\ LaneBy(made, clock) /\ made.state = "NEW" /\ made.status = "NORMAL"
      /\ made.cleanSince = clock /\ made.firstSeen = clock
      /\ made = NewLane(made.features, clock)
<2>1. made.features = v
  BY DEF NewLane
<2> QED
  BY <1>2, <2>1, NewLaneIs
<1> HIDE DEF made
<1>6. /\ lastHigh' \in [DOMAIN lanes' -> 0..clock'] /\ elevated' \in [DOMAIN lanes' -> 0..clock']
  BY <1>1, <1>2, <1>4 DEF LaneInv, Zero
<1>7. ASSUME ~Standalone, NEW l \in DOMAIN lanes'
      PROVE  Timely(lanes'[l], lastHigh'[l], elevated'[l])
<2>1. CASE out.created /\ l = out.lane
<3>1. lanes'[l] = made /\ elevated'[l] = Zero /\ lastHigh'[l] = Zero
  BY <1>1, <1>4, <1>7, <2>1
<3>2. Timely(made, Zero, Zero)
  BY <1>2, <1>5 DEF Timely, Anchor, Zero
<3> QED
  BY <3>1, <3>2
<2>2. CASE ~(out.created /\ l = out.lane)
<3>1. /\ l \in DOMAIN lanes /\ SameLane(lanes[l], lanes'[l])
      /\ lastHigh'[l] = lastHigh[l] /\ elevated'[l] = elevated[l]
  BY <1>1, <1>4, <1>7, <2>2
<3>2. Timely(lanes[l], lastHigh[l], elevated[l])
  BY <1>7, <3>1 DEF LaneInv
<3> QED
  BY <3>1, <3>2, SameTimely
<2> QED
  BY <2>1, <2>2
<1>8. LaneInv'
  BY <1>1, <1>2, <1>4, <1>6, <1>7 DEF LaneInv
<1>9. LaneMoves
<2>1. ASSUME NEW l \in DOMAIN lanes, lanes[l].status = "BLOCKED"
      PROVE  l \in DOMAIN lanes' /\ lanes'[l].status = "BLOCKED"
<3>1. RetentionDecision(lanes[l], clock)
  BY <2>1 DEF RetentionDecision
<3> QED
  BY <1>1, <1>4, <2>1, <3>1 DEF SameLane
<2>2. ASSUME NEW l \in DOMAIN lanes \cap DOMAIN lanes',
             lanes[l].status = "SUSPICIOUS", lanes'[l].status = "NORMAL"
      PROVE  Forgotten(l)
<3>1. out.created /\ l = out.lane
  BY <1>1, <1>4, <2>2 DEF SameLane
<3>2. ~RetentionDecision(lanes[l], clock) /\ lanes'[l] = made
  BY <1>1, <1>4, <2>2, <3>1
<3> QED
  BY <1>5, <3>2 DEF Forgotten
<2>3. ASSUME NEW l \in DOMAIN lanes', lanes'[l].state = "ESTABLISHED"
      PROVE  l \in DOMAIN lanes /\ lanes[l].state = "ESTABLISHED"
  BY <1>1, <1>4, <1>5, <2>3 DEF SameLane
<2> QED
  BY <2>1, <2>2, <2>3 DEF LaneMoves
<1> QED
  BY <1>8, <1>9

(* One lane is rewritten by an observation.                                *)
LEMMA ObserveLaneStep ==
    ASSUME LaneInv, RequestInv, NEW r \in Requests, ObserveLane(r)
    PROVE  LaneInv' /\ LaneMoves
<1> DEFINE l == req[r].lane
           risk == req[r].risk
           t == TxnNow(r)
           after == ApplyRiskObservation(lanes[l], risk, t)
<1>1. clock \in Nat /\ clock # 0 /\ IsTable(lanes, clock) /\ clock' = clock /\ At(r, "observe")
  BY DEF LaneInv, ObserveLane
<1>2. t \in 0..clock /\ t # 0 /\ (~Standalone => t = clock)
<2>1. req[r].now \in 1..clock
  BY <1>1 DEF RequestInv, RequestBy, At
<2> QED
  BY <1>1, <2>1 DEF TxnNow
<1>3. CASE UNCHANGED <<lanes, lastHigh, elevated>>
<2>1. LaneInv'
  BY <1>1, <1>3 DEF LaneInv
<2>2. LaneMoves
  BY <1>3 DEF LaneMoves
<2> QED
  BY <2>1, <2>2
<1>4. CASE /\ l \in DOMAIN lanes
           /\ lanes' = [lanes EXCEPT ![l] = after]
           /\ lastHigh' = [lastHigh EXCEPT ![l] = IF risk >= Hysteresis.clear THEN clock ELSE @]
           /\ elevated' = [elevated EXCEPT ![l] =
                              IF {lanes[l].status, after.status} = {"NORMAL"} THEN @ ELSE clock]
<2> DEFINE rec == lanes[l]
<2>1. LaneBy(rec, clock)
  BY <1>1, <1>4 DEF IsTable
<2>2. /\ LaneBy(after, clock)
      /\ after.state = rec.state
      /\ after.firstSeen = rec.firstSeen
      /\ rec.status = "BLOCKED" => after.status = "BLOCKED"
      /\ after.status = "NORMAL" =>
            after.cleanSince = IF rec.status = "NORMAL" THEN rec.cleanSince ELSE t
      /\ after.status = "SUSPICIOUS" /\ after.clearSince # Zero =>
            /\ rec.status = "SUSPICIOUS"
            /\ ~(risk >= Hysteresis.clear)
            /\ after.clearSince = IF rec.clearSince = Zero THEN t ELSE rec.clearSince
      /\ rec.status = "SUSPICIOUS" /\ after.status = "NORMAL" =>
            /\ rec.clearSince # Zero
            /\ t - rec.clearSince >= Hysteresis.dwell
  BY <1>1, <1>2, <2>1, ObservationIs
<2>3. /\ lastHigh[l] \in 0..clock /\ elevated[l] \in 0..clock
      /\ ~Standalone => Timely(rec, lastHigh[l], elevated[l])
  BY <1>4 DEF LaneInv
<2>4. /\ rec.firstSeen \in 0..clock /\ rec.cleanSince \in 0..clock /\ rec.clearSince \in 0..clock
      /\ after.status \in {"NORMAL", "SUSPICIOUS", "BLOCKED"}
  BY <2>1, <2>2 DEF LaneBy
<2> HIDE DEF l, t, after, risk
<2>5. /\ DOMAIN lanes' = DOMAIN lanes
      /\ lanes' = [k \in DOMAIN lanes' |-> lanes'[k]]
      /\ lanes'[l] = after
      /\ \A k \in DOMAIN lanes \ {l} : lanes'[k] = lanes[k]
  BY <1>1, <1>4 DEF IsTable
<2>6. IsTable(lanes', clock')
  BY <1>1, <2>2, <2>5 DEF IsTable
<2>7. /\ lastHigh' \in [DOMAIN lanes' -> 0..clock'] /\ elevated' \in [DOMAIN lanes' -> 0..clock']
      /\ lastHigh'[l] = IF risk >= Hysteresis.clear THEN clock ELSE lastHigh[l]
      /\ elevated'[l] = IF rec.status = "NORMAL" /\ after.status = "NORMAL" THEN elevated[l] ELSE clock
      /\ \A k \in DOMAIN lanes \ {l} : elevated'[k] = elevated[k] /\ lastHigh'[k] = lastHigh[k]
<3> DEFINE high == IF risk >= Hysteresis.clear THEN clock ELSE lastHigh[l]
           up == IF rec.status = "NORMAL" /\ after.status = "NORMAL" THEN elevated[l] ELSE clock
<3>1. ({rec.status, after.status} = {"NORMAL"}) <=> (rec.status = "NORMAL" /\ after.status = "NORMAL")
  OBVIOUS
<3>2. lastHigh' = [lastHigh EXCEPT ![l] = high] /\ elevated' = [elevated EXCEPT ![l] = up]
  BY <1>4, <3>1
<3>3. high \in 0..clock /\ up \in 0..clock
  BY <1>1, <2>3
<3>4. lastHigh \in [DOMAIN lanes -> 0..clock] /\ elevated \in [DOMAIN lanes -> 0..clock]
  BY DEF LaneInv
<3> HIDE DEF high, up, rec
<3>5. /\ lastHigh' \in [DOMAIN lanes -> 0..clock] /\ elevated' \in [DOMAIN lanes -> 0..clock]
      /\ lastHigh'[l] = high /\ elevated'[l] = up
      /\ \A k \in DOMAIN lanes \ {l} : elevated'[k] = elevated[k] /\ lastHigh'[k] = lastHigh[k]
  BY <1>4, <3>2, <3>3, <3>4
<3> QED
  BY <1>1, <2>5, <3>5 DEF high, up
<2> HIDE DEF rec
<2>8. ASSUME ~Standalone
      PROVE  Timely(after, lastHigh'[l], elevated'[l])
<3>1. ASSUME after.status = "SUSPICIOUS", after.clearSince # Zero
      PROVE  lastHigh'[l] <= after.clearSince
  BY <1>1, <1>2, <2>2, <2>3, <2>4, <2>7, <2>8, <3>1 DEF Timely
<3>2. ASSUME after.status = "NORMAL", rec.status = "NORMAL"
      PROVE  elevated'[l] <= Anchor(after) /\ after.firstSeen <= Anchor(after)
  BY <2>2, <2>3, <2>7, <2>8, <3>2 DEF Timely, Anchor
<3>3. ASSUME after.status = "NORMAL", rec.status # "NORMAL"
      PROVE  elevated'[l] <= Anchor(after) /\ after.firstSeen <= Anchor(after)
<4>1. after.cleanSince = clock /\ elevated'[l] = clock
  BY <1>2, <2>2, <2>7, <2>8, <3>3
<4>2. Anchor(after) = clock
  BY <1>1, <4>1 DEF Anchor, Zero
<4> QED
  BY <1>1, <2>2, <2>4, <4>1, <4>2
<3> QED
  BY <3>1, <3>2, <3>3 DEF Timely
<2>9. ~Standalone => \A k \in DOMAIN lanes' : Timely(lanes'[k], lastHigh'[k], elevated'[k])
  BY <2>5, <2>7, <2>8 DEF LaneInv
<2>10. LaneInv'
  BY <1>1, <2>6, <2>7, <2>9 DEF LaneInv
<2>11. ASSUME ~Standalone, rec.status = "SUSPICIOUS", after.status = "NORMAL"
       PROVE  clock - lastHigh[l] >= Hysteresis.dwell
<3>1. clock - rec.clearSince >= Hysteresis.dwell /\ lastHigh[l] <= rec.clearSince
  BY <1>2, <2>2, <2>3, <2>11 DEF Timely
<3> QED
  BY <1>1, <2>3, <2>4, <3>1, AdmissionAssumption
<2>12. LaneMoves
<3>1. ASSUME NEW k \in DOMAIN lanes, lanes[k].status = "BLOCKED"
      PROVE  k \in DOMAIN lanes' /\ lanes'[k].status = "BLOCKED"
  BY <2>2, <2>5, <3>1 DEF rec
<3>2. ASSUME ~Standalone, NEW k \in DOMAIN lanes \cap DOMAIN lanes',
             lanes[k].status = "SUSPICIOUS", lanes'[k].status = "NORMAL"
      PROVE  clock - lastHigh[k] >= Hysteresis.dwell
<4>1. k = l
  BY <2>5, <3>2
<4> QED
  BY <2>5, <2>11, <3>2, <4>1 DEF rec
<3>3. \A k \in DOMAIN lanes' : k \in DOMAIN lanes /\ lanes'[k].state = lanes[k].state
  BY <2>2, <2>5 DEF rec
<3> QED
  BY <3>1, <3>2, <3>3 DEF LaneMoves
<2> QED
  BY <2>10, <2>12
<1> QED
  BY <1>3, <1>4 DEF ObserveLane, ObserveRisk

(* One lane is credited with a clean completion, and perhaps promoted.     *)
LEMMA RecordCleanStep ==
    ASSUME LaneInv, RequestInv, NEW r \in Requests, RecordClean(r)
    PROVE  LaneInv' /\ LaneMoves
<1> DEFINE l == req[r].lane
           t == TxnNow(r)
           new == ApplyCleanAuthorizedAndPromote(lanes[l], req[r].risk, req[r].disqualified, t)
<1>1. /\ clock \in Nat /\ clock # 0 /\ IsTable(lanes, clock) /\ At(r, "record")
      /\ UNCHANGED <<clock, lastHigh, elevated>>
  BY DEF LaneInv, RecordClean, history
<1>2. req[r].adaptive /\ (~Standalone => t = clock)
  BY <1>1 DEF RequestInv, RequestBy, At, TxnNow
<1>3. CASE UNCHANGED lanes
<2>1. LaneInv'
  BY <1>1, <1>3 DEF LaneInv
<2>2. LaneMoves
  BY <1>3 DEF LaneMoves
<2> QED
  BY <2>1, <2>2
<1>4. CASE l \in DOMAIN lanes /\ lanes' = [lanes EXCEPT ![l] = new]
<2> DEFINE rec == lanes[l]
<2>1. LaneBy(rec, clock)
  BY <1>1, <1>4 DEF IsTable
<2>2. /\ LaneBy(new, clock)
      /\ new.status = rec.status
      /\ new.clearSince = rec.clearSince
      /\ new.cleanSince = rec.cleanSince
      /\ new.firstSeen = rec.firstSeen
      /\ new.state = "ESTABLISHED" /\ rec.state # "ESTABLISHED" =>
            rec.status = "NORMAL" /\ t - Anchor(rec) >= Learning.age
  BY <1>1, <2>1, CleanIs
<2>3. /\ elevated[l] \in 0..clock
      /\ ~Standalone => Timely(rec, lastHigh[l], elevated[l])
  BY <1>4 DEF LaneInv
<2>4. rec.firstSeen \in 0..clock /\ Anchor(rec) \in 0..clock
  BY <2>1 DEF LaneBy, Anchor
<2> HIDE DEF l, t, new
<2>5. /\ DOMAIN lanes' = DOMAIN lanes
      /\ lanes' = [k \in DOMAIN lanes' |-> lanes'[k]]
      /\ lanes'[l] = new
      /\ \A k \in DOMAIN lanes \ {l} : lanes'[k] = lanes[k]
  BY <1>1, <1>4 DEF IsTable
<2>6. IsTable(lanes', clock')
  BY <1>1, <2>2, <2>5 DEF IsTable
<2> HIDE DEF rec
<2>7. ~Standalone => Timely(new, lastHigh[l], elevated[l])
  BY <2>2, <2>3 DEF Timely, Anchor
<2>8. ~Standalone => \A k \in DOMAIN lanes' : Timely(lanes'[k], lastHigh'[k], elevated'[k])
  BY <1>1, <2>5, <2>7 DEF LaneInv
<2>9. LaneInv'
  BY <1>1, <2>5, <2>6, <2>8 DEF LaneInv
<2>10. ASSUME ~Standalone, new.state = "ESTABLISHED", rec.state # "ESTABLISHED"
       PROVE  /\ new.status = "NORMAL"
              /\ clock - Max({elevated[l], new.firstSeen}) >= Learning.age
<3>1. /\ rec.status = "NORMAL" /\ clock - Anchor(rec) >= Learning.age
      /\ elevated[l] <= Anchor(rec) /\ rec.firstSeen <= Anchor(rec)
  BY <1>2, <2>2, <2>3, <2>10 DEF Timely
<3>2. Max({elevated[l], rec.firstSeen}) =
         IF elevated[l] >= rec.firstSeen THEN elevated[l] ELSE rec.firstSeen
  BY <2>3, <2>4, MaxOfTwo
<3> QED
  BY <1>1, <2>2, <2>3, <2>4, <3>1, <3>2, AdmissionAssumption
<2>11. LaneMoves
<3>1. \A k \in DOMAIN lanes : k \in DOMAIN lanes' /\ lanes'[k].status = lanes[k].status
  BY <2>2, <2>5 DEF rec
<3>2. ASSUME ~Standalone, NEW k \in DOMAIN lanes', lanes'[k].state = "ESTABLISHED",
             k \in DOMAIN lanes => lanes[k].state # "ESTABLISHED"
      PROVE  /\ \E q \in Requests : At(q, "record") /\ req[q].lane = k /\ req[q].adaptive
             /\ lanes'[k].status = "NORMAL"
             /\ clock - Max({elevated[k], lanes'[k].firstSeen}) >= Learning.age
<4>1. k = l
  BY <2>5, <3>2
<4>2. lanes'[l].status = "NORMAL" /\ clock - Max({elevated[l], lanes'[l].firstSeen}) >= Learning.age
  BY <2>5, <2>10, <3>2, <4>1 DEF rec
<4>3. At(r, "record") /\ req[r].lane = k /\ req[r].adaptive
  BY <1>1, <1>2, <4>1 DEF l
<4> QED
  BY <4>1, <4>2, <4>3
<3> QED
  BY <3>1, <3>2 DEF LaneMoves
<2> QED
  BY <2>9, <2>11
<1> QED
  BY <1>3, <1>4 DEF RecordClean, RecordCleanAuthorizedAndPromote

------------------------------------------------------------------------------
(* The evidence store.                                                     *)

(* A set of naturals has a least element.                                  *)
LEMMA LeastOf ==
    ASSUME NEW S \in SUBSET Nat, S # {}
    PROVE  \E m \in S : \A y \in S : m <= y
<1> DEFINE R == OpToRel(<, Nat)
<1>1. IsWellFoundedOn(R, Nat)
  BY NatLessThanWellFounded, Zenon
<1>2. \A x, y \in Nat : <<y, x>> \notin R => x <= y
  BY DEF OpToRel
<1> HIDE DEF R
<1>3. PICK m \in S : \A y \in S : ~(<<y, m>> \in R)
  BY <1>1, WFMin
<1> QED
  BY <1>2, <1>3

OldestOf(set, n, D) ==
    /\ D \in SUBSET set /\ Cardinality(D) = n
    /\ \A d \in D, ev \in set \ D : d.made <= ev.made

(* The n oldest items exist, whenever there are n items.                   *)
LEMMA OldestItems ==
    ASSUME NEW set, Items(set), NEW n \in Nat, n <= Cardinality(set)
    PROVE  \E D : OldestOf(set, n, D)
<1> DEFINE S == {i \in Nat : i <= Cardinality(set) /\ ~ \E D : OldestOf(set, i, D)}
<1> SUFFICES ASSUME S # {} PROVE FALSE
  OBVIOUS
<1>1. IsFiniteSet(set) /\ Cardinality(set) \in Nat /\ \A ev \in set : ev.made \in Nat
  BY FS_CardinalityType DEF Items
<1>2. PICK m \in S : \A y \in S : m <= y
<2>1. S \in SUBSET Nat
  OBVIOUS
<2> HIDE DEF S
<2> QED
  BY <2>1, LeastOf
<1>3. m # 0
<2>1. OldestOf(set, 0, {})
  BY FS_EmptySet DEF OldestOf
<2> QED
  BY <2>1
<1>4. m - 1 \in Nat /\ m - 1 < Cardinality(set) /\ m - 1 \notin S
  BY <1>1, <1>2, <1>3
<1>5. PICK D : OldestOf(set, m - 1, D)
  BY <1>1, <1>4
<1>6. D \subseteq set /\ Cardinality(D) = m - 1 /\ IsFiniteSet(D) /\ set \ D # {}
<2>1. D \subseteq set /\ Cardinality(D) = m - 1 /\ IsFiniteSet(D)
  BY <1>1, <1>5, FS_Subset DEF OldestOf
<2>2. set # D
  BY <1>4, <2>1
<2> QED
  BY <2>1, <2>2
<1> DEFINE T == {ev.made : ev \in set \ D}
<1>7. T \in SUBSET Nat /\ T # {}
  BY <1>1, <1>6
<1>8. PICK t \in T : \A y \in T : t <= y
  BY <1>7, LeastOf
<1>9. PICK j \in set \ D : j.made = t
  BY <1>8
<1>10. \A ev \in set \ D : j.made <= ev.made
  BY <1>8, <1>9
<1>11. Cardinality(D \cup {j}) = (m - 1) + 1
  BY <1>6, <1>9, FS_AddElement
<1>12. m \in Nat /\ (m - 1) + 1 = m
  BY <1>2
<1> HIDE DEF T, S
<1>13. OldestOf(set, m, D \cup {j})
  BY <1>5, <1>9, <1>10, <1>11, <1>12 DEF OldestOf
<1> QED
  BY <1>2, <1>13 DEF S

(* The bound removes items only as long as enough remain.                  *)
LEMMA CompactIs ==
    ASSUME NEW set, Items(set)
    PROVE  /\ CompactSubject(set) \subseteq set
           /\ CompactSubject(set) # set => Cardinality(CompactSubject(set)) >= MaxEvidencePerSubject
<1> DEFINE evictable == {ev \in set : ~NonEvictable(ev)}
           over == Cardinality(set) - MaxEvidencePerSubject
           n == Min({Max({0, over}), Cardinality(evictable)})
           Oldest(D) == \A d \in D, ev \in evictable \ D : d.made <= ev.made
           gone == CHOOSE D \in kSubset(n, evictable) : Oldest(D)
<1>1. CompactSubject(set) = set \ gone
  BY DEF CompactSubject
<1>2. Items(evictable) /\ IsFiniteSet(set) /\ Cardinality(set) \in Nat
  BY FS_Subset, FS_CardinalityType DEF Items
<1>3. Cardinality(evictable) \in Nat
  BY <1>2, FS_CardinalityType DEF Items
<1>4. over \in Int /\ MaxEvidencePerSubject \in Nat
  BY <1>2, AdmissionAssumption
<1> HIDE DEF evictable
<1>5. n \in Nat /\ n <= Cardinality(evictable) /\ (n # 0 => n <= over)
<2>1. Max({0, over}) = IF 0 >= over THEN 0 ELSE over
  BY <1>4, MaxOfTwo
<2>2. Max({0, over}) \in Nat
  BY <1>4, <2>1
<2>3. n = IF Max({0, over}) <= Cardinality(evictable) THEN Max({0, over}) ELSE Cardinality(evictable)
  BY <1>3, <2>2, MinOfTwo
<2> HIDE DEF n
<2> QED
  BY <1>3, <1>4, <2>1, <2>3
<1> HIDE DEF n
<1>6. gone \in kSubset(n, evictable)
<2>1. PICK D : OldestOf(evictable, n, D)
  BY <1>2, <1>5, OldestItems
<2>2. D \in kSubset(n, evictable) /\ Oldest(D)
  BY <2>1 DEF OldestOf, kSubset
<2> QED
  BY <2>2
<1> HIDE DEF gone
<1>7. gone \subseteq set /\ Cardinality(gone) = n
  BY <1>6 DEF kSubset, evictable
<1>8. IsFiniteSet(gone)
  BY <1>2, <1>7, FS_Subset
<1>9. Cardinality(set \ gone) = Cardinality(set) - n
<2>1. set \cap gone = gone
  BY <1>7
<2> QED
  BY <1>2, <1>7, <2>1, FS_Difference
<1>10. ASSUME set \ gone # set
       PROVE  Cardinality(set \ gone) >= MaxEvidencePerSubject
<2>1. n # 0
  BY <1>7, <1>8, <1>10, FS_EmptySet
<2> QED
  BY <1>2, <1>4, <1>5, <1>9, <2>1
<1> QED
  BY <1>1, <1>10

(* An append keeps what has not expired, unless its subject is full.       *)
LEMMA AppendIs ==
    ASSUME NEW store, Items(store), NEW items, Items(items), NEW now
    PROVE  /\ Items(AppendEvidence(store, items, now))
           /\ \A ev \in store \ AppendEvidence(store, items, now) :
                 \/ IsExpired(ev, now)
                 \/ Cardinality({e \in AppendEvidence(store, items, now) : e.subject = ev.subject})
                        >= MaxEvidencePerSubject
<1> DEFINE Touched == {ev.subject : ev \in items}
           Of(set, s) == {ev \in set : ev.subject = s}
           Live(s) == {ev \in Of(store, s) : ~IsExpired(ev, now)}
           Known(s) == {ev.id : ev \in Live(s)}
           Merged(s) == Live(s) \cup {ev \in Of(items, s) : ev.id \notin Known(s)}
           out == AppendEvidence(store, items, now)
<1>1. out = {ev \in store : ev.subject \notin Touched}
              \cup UNION {CompactSubject(Merged(s)) : s \in Touched}
  BY DEF AppendEvidence, MergeSubject
<1>2. Items(store \cup items)
  BY FS_Union DEF Items
<1>3. ASSUME NEW s
      PROVE  Items(Merged(s)) /\ Merged(s) \subseteq store \cup items
             /\ \A ev \in Merged(s) : ev.subject = s
<2>1. Merged(s) \subseteq store \cup items /\ \A ev \in Merged(s) : ev.subject = s
  OBVIOUS
<2> HIDE DEF Merged
<2> QED
  BY <1>2, <2>1, FS_Subset DEF Items
<1>4. ASSUME NEW ev \in store, ~IsExpired(ev, now)
      PROVE  ev \in Merged(ev.subject)
  BY <1>4
<1> HIDE DEF out, Merged, Touched
<1>5. \A s : CompactSubject(Merged(s)) \subseteq Merged(s)
  BY <1>3, CompactIs
<1>6. out \subseteq store \cup items
  BY <1>1, <1>3, <1>5
<1>7. Items(out)
  BY <1>2, <1>6, FS_Subset DEF Items
<1>8. ASSUME NEW ev \in store, ev \notin out, ~IsExpired(ev, now)
      PROVE  Cardinality({e \in out : e.subject = ev.subject}) >= MaxEvidencePerSubject
<2> DEFINE s == ev.subject
           kept == CompactSubject(Merged(s))
           mine == {e \in out : e.subject = s}
<2>1. s \in Touched
  BY <1>1, <1>8
<2>2. kept \subseteq out
  BY <1>1, <2>1
<2>3. kept # Merged(s)
  BY <1>4, <1>8, <2>2
<2>4. Cardinality(kept) >= MaxEvidencePerSubject
  BY <1>3, <2>3, CompactIs
<2>5. kept \subseteq mine
  BY <1>3, <1>5, <2>2
<2>6. IsFiniteSet(mine)
  BY <1>7, FS_Subset DEF Items
<2> HIDE DEF kept, mine
<2>7. Cardinality(kept) <= Cardinality(mine) /\ Cardinality(kept) \in Nat /\ Cardinality(mine) \in Nat
  BY <2>5, <2>6, FS_Subset, FS_CardinalityType
<2>8. MaxEvidencePerSubject \in Nat
  BY AdmissionAssumption
<2>9. Cardinality(mine) >= MaxEvidencePerSubject
  BY <2>4, <2>7, <2>8
<2> QED
  BY <2>9 DEF mine
<1> QED
  BY <1>7, <1>8 DEF out

LEMMA MintIs ==
    ASSUME NEW code \in Codes, NEW subject, NEW now \in Nat, NEW id
    PROVE  LET ev == Mint(code, subject, now, id) IN ev.made \in Nat /\ ev.exp \in Nat
<1>1. Rules[code].ttl \in Nat
  BY AdmissionAssumption
<1> QED
  BY <1>1 DEF Mint, Never

(* What a step does to the evidence.                                       *)
EvidenceMoves ==
    ~Standalone =>
        \A ev \in evidence \ evidence' :
            Valid(ev, clock) =>
                Cardinality({e \in evidence' : e.subject = ev.subject}) >= MaxEvidencePerSubject

LEMMA EvidenceStays ==
    ASSUME Items(evidence), UNCHANGED evidence
    PROVE  Items(evidence') /\ EvidenceMoves
  BY DEF EvidenceMoves

LEMMA BatchStep ==
    ASSUME Items(evidence), NEW items, Items(items), NEW stored \in BOOLEAN,
           evidence' = IF stored THEN AppendItems(items) ELSE evidence
    PROVE  Items(evidence') /\ EvidenceMoves
<1>1. CASE ~stored
  BY <1>1, EvidenceStays
<1>2. CASE stored
<2>1. evidence' = AppendEvidence(evidence, items, clock)
  BY <1>2 DEF AppendItems
<2>2. /\ Items(evidence')
      /\ \A ev \in evidence \ evidence' :
            \/ IsExpired(ev, clock)
            \/ Cardinality({e \in evidence' : e.subject = ev.subject}) >= MaxEvidencePerSubject
  BY <2>1, AppendIs
<2> QED
  BY <2>2 DEF EvidenceMoves, Valid
<1> QED
  BY <1>1, <1>2

LEMMA FiniteImage ==
    ASSUME NEW S, IsFiniteSet(S), NEW F
    PROVE  IsFiniteSet({F[x] : x \in S})
<1> DEFINE T == {F[x] : x \in S}
           f == [x \in S |-> F[x]]
<1>1. f \in Surjection(S, T)
  BY DEF Surjection
<1> QED
  BY <1>1, FS_Surjection

LEMMA SignalsEvidence ==
    ASSUME LaneInv, RequestInv, Items(evidence), NEW r \in Requests, NEW raised \in SUBSET Signals,
           ObserveSignals(r, raised)
    PROVE  Items(evidence') /\ EvidenceMoves
<1> DEFINE a == req[r]
           sync == SynchronousEvidence(a)
           resolved == ResolveSignals(a, raised)
<1>1. a.now \in Nat /\ clock \in Nat
  BY DEF ObserveSignals, At, RequestInv, RequestBy, LaneInv
<1>2. /\ IsFiniteSet(raised) /\ raised \subseteq Codes /\ "NEW_LANE" \in Codes
  BY AdmissionAssumption, FS_Subset
<1>3. Items(sync)
<2>1. sync = {} \/ sync = {Mint("NEW_LANE", a.lane, clock, <<a.id, "NEW_LANE">>)}
  BY DEF SynchronousEvidence
<2>2. CASE sync = {}
  BY <2>2, FS_EmptySet DEF Items
<2>3. CASE sync = {Mint("NEW_LANE", a.lane, clock, <<a.id, "NEW_LANE">>)}
<3> DEFINE ev == Mint("NEW_LANE", a.lane, clock, <<a.id, "NEW_LANE">>)
<3>1. ev.made \in Nat /\ ev.exp \in Nat
  BY <1>1, <1>2, MintIs
<3> HIDE DEF ev
<3>2. sync = {ev}
  BY <2>3 DEF ev
<3> HIDE DEF sync, a
<3>3. IsFiniteSet({ev})
  BY FS_Singleton
<3>4. \A e \in {ev} : e.made \in Nat /\ e.exp \in Nat
  BY <3>1
<3> QED
  BY <3>2, <3>3, <3>4 DEF Items
<2> QED
  BY <2>1, <2>2, <2>3
<1>4. Items(resolved)
<2>1. resolved = {Mint(code, a.lane, a.now, <<a.id, code>>) : code \in raised}
  BY DEF ResolveSignals
<2>2. IsFiniteSet(resolved)
<3> DEFINE F == [code \in raised |-> Mint(code, a.lane, a.now, <<a.id, code>>)]
<3>1. resolved = {F[code] : code \in raised}
  BY <2>1
<3> HIDE DEF F, resolved
<3>2. IsFiniteSet({F[code] : code \in raised})
  BY <1>2, FiniteImage
<3> QED
  BY <3>1, <3>2
<2>3. ASSUME NEW code \in raised
      PROVE  LET ev == Mint(code, a.lane, a.now, <<a.id, code>>) IN ev.made \in Nat /\ ev.exp \in Nat
  BY <1>1, <1>2, MintIs
<2> QED
  BY <2>1, <2>2, <2>3 DEF Items
<1> HIDE DEF sync, resolved
<1>5. Items(sync \cup resolved)
  BY <1>3, <1>4, FS_Union DEF Items
<1>6. PICK stored \in BOOLEAN : evidence' = IF stored THEN AppendItems(sync \cup resolved) ELSE evidence
  BY DEF ObserveSignals, sync, resolved
<1> QED
  BY <1>5, <1>6, BatchStep

LEMMA CompleteEvidence ==
    ASSUME LaneInv, Items(evidence), NEW r \in Requests, NEW raised \in SUBSET EndSignals,
           NEW success \in BOOLEAN, Complete(r, raised, success)
    PROVE  Items(evidence') /\ EvidenceMoves
<1> DEFINE a == req[r]
           items == ObserveCompletion(a, raised)
<1>1. clock \in Nat /\ IsFiniteSet(raised) /\ raised \subseteq Codes
  BY AdmissionAssumption, FS_Subset DEF LaneInv
<1>2. items = {Mint(code, a.lane, clock, <<a.id, code, "end">>) : code \in raised}
  BY DEF ObserveCompletion
<1>3. IsFiniteSet(items)
<2> DEFINE F == [code \in raised |-> Mint(code, a.lane, clock, <<a.id, code, "end">>)]
<2>1. items = {F[code] : code \in raised}
  BY <1>2
<2> HIDE DEF F, items
<2>2. IsFiniteSet({F[code] : code \in raised})
  BY <1>1, FiniteImage
<2> QED
  BY <2>1, <2>2
<1>4. ASSUME NEW code \in raised
      PROVE  LET ev == Mint(code, a.lane, clock, <<a.id, code, "end">>) IN ev.made \in Nat /\ ev.exp \in Nat
  BY <1>1, MintIs
<1>5. Items(items)
  BY <1>2, <1>3, <1>4 DEF Items
<1> HIDE DEF items
<1>6. PICK stored \in BOOLEAN : evidence' = IF stored THEN AppendItems(items) ELSE evidence
  BY DEF Complete, items
<1> QED
  BY <1>5, <1>6, BatchStep

(* On the clock of the store, a prune removes only what has expired.       *)
LEMMA PruneEvidenceStep ==
    ASSUME LaneInv, Items(evidence), NEW r \in Requests, Provision(r)
    PROVE  Items(evidence') /\ EvidenceMoves
<1>1. CASE evidence' = evidence
  BY <1>1, EvidenceStays
<1>2. CASE evidence' = PruneOf(r)
<2>1. evidence' \subseteq evidence
  BY <1>2 DEF PruneOf, Prune
<2>2. Items(evidence')
  BY <2>1, FS_Subset DEF Items
<2>3. ASSUME ~Standalone, NEW ev \in evidence \ evidence' PROVE ~Valid(ev, clock)
<3>1. TxnNow(r) = clock
  BY <2>3 DEF TxnNow
<3> QED
  BY <1>2, <2>3, <3>1 DEF PruneOf, Prune
<2> QED
  BY <2>2, <2>3 DEF EvidenceMoves
<1> QED
  BY <1>1, <1>2 DEF Provision, PruneEvidence

LEMMA SweepStep ==
    ASSUME LaneInv, Items(evidence), SweepExpiredEvidence
    PROVE  Items(evidence') /\ EvidenceMoves
<1>1. PICK batch \in SUBSET Sweepable : evidence' = evidence \ batch
  BY DEF SweepExpiredEvidence
<1>2. Items(evidence')
  BY <1>1, FS_Subset DEF Items
<1>3. ASSUME ~Standalone, NEW ev \in evidence \ evidence' PROVE ~Valid(ev, clock)
<2>1. ev \in evidence /\ IsExpired(ev, clock - EvidenceGrace)
  BY <1>1, <1>3 DEF Sweepable
<2>2. ev.exp \in Nat /\ clock \in Nat /\ EvidenceGrace \in Nat
  BY <2>1, AdmissionAssumption DEF Items, LaneInv
<2> QED
  BY <2>1, <2>2 DEF IsExpired, Valid
<1> QED
  BY <1>2, <1>3 DEF EvidenceMoves

------------------------------------------------------------------------------
(* The requests.                                                           *)

LEMMA SlotStep ==
    ASSUME RequestInv, NEW r \in Requests, NEW q, RequestBy(q, clock),
           req' = [req EXCEPT ![r] = q], clock' = clock
    PROVE  RequestInv'
<1>1. /\ req' = [x \in Requests |-> req'[x]]
      /\ \A x \in Requests : req'[x] = IF x = r THEN q ELSE req[x]
  BY DEF RequestInv
<1> QED
  BY <1>1 DEF RequestInv

LEMMA DenyStep ==
    ASSUME RequestInv, NEW r \in Requests, Deny(r), clock' = clock
    PROVE  RequestInv'
<1>1. RequestBy(Idle, clock)
  BY DEF RequestBy, Idle
<1> QED
  BY <1>1, SlotStep DEF Deny

(* The time a request knows is the same on its way.                        *)
LEMMA KnownTime ==
    ASSUME RequestInv, NEW r \in Requests,
           req[r].pc \in {"posture", "classify", "evidence", "snapshot", "observe"}
    PROVE  req[r].now \in 1..clock
  BY DEF RequestInv, RequestBy

LEMMA AuthenticateReq ==
    ASSUME LaneInv, RequestInv, NEW r \in Requests, NEW v, Authenticate(r, v)
    PROVE  RequestInv'
<1> DEFINE q == [pc |-> "posture", id |-> started + 1, now |-> clock, vector |-> v]
<1>1. RequestBy(q, clock)
  BY DEF RequestBy, LaneInv
<1> HIDE DEF q
<1>2. req' = [req EXCEPT ![r] = q] /\ clock' = clock
  BY DEF Authenticate, q
<1> QED
  BY <1>1, <1>2, SlotStep

LEMMA ReadPostureReq ==
    ASSUME RequestInv, NEW r \in Requests, ReadPosture(r)
    PROVE  RequestInv'
<1>1. clock' = clock /\ req[r].now \in 1..clock
  BY KnownTime DEF ReadPosture, At
<1>2. CASE Deny(r)
  BY <1>1, <1>2, DenyStep
<1> DEFINE q == [pc |-> "classify", id |-> req[r].id, now |-> req[r].now, vector |-> req[r].vector,
                 seen |-> PostureSnapshot]
<1>3. RequestBy(q, clock)
  BY <1>1 DEF RequestBy
<1>4. Deny(r) \/ req' = [req EXCEPT ![r] = q]
  BY DEF ReadPosture
<1> HIDE DEF q
<1> QED
  BY <1>1, <1>2, <1>3, <1>4, SlotStep

LEMMA ClassifyReq ==
    ASSUME RequestInv, NEW r \in Requests, Classify(r)
    PROVE  RequestInv'
<1>1. clock' = clock /\ req[r].now \in 1..clock
  BY KnownTime DEF Classify, At
<1> DEFINE out == BorrowOrCreate(req[r].vector)
           q == [pc |-> "evidence", id |-> req[r].id, now |-> req[r].now, seen |-> req[r].seen,
                 lane |-> out.lane, new |-> out.created, firstSeen |-> out.lanes[out.lane].firstSeen]
<1>2. RequestBy(q, clock)
  BY <1>1 DEF RequestBy
<1>3. Deny(r) \/ req' = [req EXCEPT ![r] = q]
  BY DEF Classify
<1> HIDE DEF q
<1> QED
  BY <1>1, <1>2, <1>3, SlotStep, DenyStep

LEMMA ObserveSignalsReq ==
    ASSUME RequestInv, NEW r \in Requests, NEW raised, ObserveSignals(r, raised)
    PROVE  RequestInv'
<1>1. clock' = clock /\ req[r].now \in 1..clock
  BY KnownTime DEF ObserveSignals, At
<1> DEFINE a == req[r]
           sync == SynchronousEvidence(a)
           current == sync \cup ResolveSignals(a, raised)
           Q(stored) == [pc |-> "snapshot", id |-> a.id, now |-> a.now, seen |-> a.seen,
                         lane |-> a.lane, new |-> a.new, firstSeen |-> a.firstSeen,
                         sync |-> sync, current |-> current, adaptive |-> stored]
<1>2. PICK stored \in BOOLEAN : req' = [req EXCEPT ![r] = Q(stored)]
  BY DEF ObserveSignals
<1>3. RequestBy(Q(stored), clock)
  BY <1>1 DEF RequestBy
<1> HIDE DEF Q
<1> QED
  BY <1>1, <1>2, <1>3, SlotStep

LEMMA SnapshotReq ==
    ASSUME RequestInv, NEW r \in Requests, SnapshotEvidence(r)
    PROVE  RequestInv'
<1>1. clock' = clock /\ req[r].now \in 1..clock
  BY KnownTime DEF SnapshotEvidence, At
<1> DEFINE a == req[r]
           Q(read, observed) ==
               [pc |-> "observe", now |-> a.now, id |-> a.id, lane |-> a.lane,
                lockdown |-> a.seen.lockdown, risk |-> LaneRisk(a, read), adaptive |-> observed]
<1>2. Deny(r) \/ \E read, observed \in BOOLEAN : req' = [req EXCEPT ![r] = Q(read, observed)]
  BY DEF SnapshotEvidence
<1>3. ASSUME NEW read, NEW observed
      PROVE  RequestBy(Q(read, observed), clock)
<2> DEFINE q == Q(read, observed)
<2>1. q = [f \in AdmittedFields |-> q[f]] /\ q.pc = "observe" /\ q.now = req[r].now
  BY DEF AdmittedFields
<2> HIDE DEF q
<2>2. RequestBy(q, clock)
  BY <1>1, <2>1 DEF RequestBy
<2> QED
  BY <2>2 DEF q
<1> HIDE DEF Q
<1>4. CASE Deny(r)
  BY <1>1, <1>4, DenyStep
<1>5. CASE \E read, observed \in BOOLEAN : req' = [req EXCEPT ![r] = Q(read, observed)]
  BY <1>1, <1>3, <1>5, SlotStep
<1> QED
  BY <1>2, <1>4, <1>5

(* An admitted request changes nothing but its place.                      *)
LEMMA PlaceStep ==
    ASSUME RequestInv, NEW r \in Requests,
           req[r].pc \in {"observe", "provision", "authorized", "baseline"},
           NEW place \in {"provision", "authorized", "baseline"},
           place = "baseline" => req[r].adaptive,
           req' = [req EXCEPT ![r] = [req[r] EXCEPT !.pc = place]], clock' = clock
    PROVE  RequestInv'
<1> DEFINE old == req[r]
           q == [old EXCEPT !.pc = place]
<1>1. old = [f \in AdmittedFields |-> old[f]]
  BY DEF RequestInv, RequestBy
<1>2. q = [f \in AdmittedFields |-> q[f]] /\ q.pc = place /\ q.adaptive = old.adaptive
  BY <1>1 DEF AdmittedFields
<1> HIDE DEF q
<1>3. RequestBy(q, clock)
  BY <1>2 DEF RequestBy
<1> QED
  BY <1>3, SlotStep DEF q

LEMMA ObserveLaneReq ==
    ASSUME RequestInv, NEW r \in Requests, ObserveLane(r)
    PROVE  RequestInv'
<1>1. clock' = clock /\ req[r].pc = "observe"
  BY DEF ObserveLane, At
<1>2. Deny(r) \/ req' = [req EXCEPT ![r].pc = "provision"]
  BY DEF ObserveLane
<1>3. CASE Deny(r)
  BY <1>1, <1>3, DenyStep
<1>4. CASE req' = [req EXCEPT ![r].pc = "provision"]
<2>1. req' = [req EXCEPT ![r] = [req[r] EXCEPT !.pc = "provision"]]
  BY <1>4
<2> QED
  BY <1>1, <2>1, PlaceStep
<1> QED
  BY <1>2, <1>3, <1>4

LEMMA ProvisionReq ==
    ASSUME RequestInv, NEW r \in Requests, Provision(r)
    PROVE  RequestInv'
<1>1. clock' = clock /\ req[r].pc = "provision"
  BY DEF Provision, At
<1>2. Deny(r) \/ req' = [req EXCEPT ![r].pc = "authorized"]
  BY DEF Provision, ResourceAdmission
<1>3. CASE Deny(r)
  BY <1>1, <1>3, DenyStep
<1>4. CASE req' = [req EXCEPT ![r].pc = "authorized"]
<2>1. req' = [req EXCEPT ![r] = [req[r] EXCEPT !.pc = "authorized"]]
  BY <1>4
<2> QED
  BY <1>1, <2>1, PlaceStep
<1> QED
  BY <1>2, <1>3, <1>4

LEMMA CompleteReq ==
    ASSUME RequestInv, NEW r \in Requests, NEW raised, NEW success \in BOOLEAN,
           Complete(r, raised, success)
    PROVE  RequestInv'
<1>1. clock' = clock /\ req[r].pc = "authorized" /\ req' = [req EXCEPT ![r] = Baseline(req[r], success)]
  BY DEF Complete, At
<1>2. CASE success /\ req[r].adaptive
<2>1. req' = [req EXCEPT ![r] = [req[r] EXCEPT !.pc = "baseline"]]
  BY <1>1, <1>2 DEF Baseline
<2> QED
  BY <1>1, <1>2, <2>1, PlaceStep
<1>3. CASE ~(success /\ req[r].adaptive)
<2>1. Deny(r)
  BY <1>1, <1>3 DEF Baseline, Deny
<2> QED
  BY <1>1, <2>1, DenyStep
<1> QED
  BY <1>2, <1>3

LEMMA FinalizeReq ==
    ASSUME LaneInv, RequestInv, NEW r \in Requests, FinalizeBaseline(r)
    PROVE  RequestInv'
<1> DEFINE a == req[r]
           Q(read) == [pc |-> "record", now |-> clock, lane |-> a.lane, lockdown |-> a.lockdown,
                       risk |-> a.risk, adaptive |-> a.adaptive,
                       disqualified |-> HasActiveDisqualifyingEvidence(a.lane, read)]
<1>1. clock' = clock /\ a.adaptive /\ clock \in Nat \ {0}
  BY DEF FinalizeBaseline, At, RequestInv, RequestBy, LaneInv
<1>2. PICK read \in BOOLEAN : req' = [req EXCEPT ![r] = Q(read)]
  BY DEF FinalizeBaseline
<1>3. RequestBy(Q(read), clock)
  BY <1>1 DEF RequestBy
<1> HIDE DEF Q
<1> QED
  BY <1>1, <1>2, <1>3, SlotStep

LEMMA TickReq ==
    ASSUME LaneInv, RequestInv, Tick
    PROVE  RequestInv'
<1>1. clock' = clock + 1 /\ clock \in Nat /\ req' = req
  BY DEF Tick, LaneInv
<1>2. ASSUME NEW q, RequestBy(q, clock) PROVE RequestBy(q, clock')
<2>1. \A t \in 1..clock : t \in 1..clock'
  BY <1>1
<2> QED
  BY <1>2, <2>1 DEF RequestBy
<1> QED
  BY <1>1, <1>2 DEF RequestInv

------------------------------------------------------------------------------
(* The theorems.                                                           *)

LEMMA AdmissionStart == AdmissionInit => AdmissionInv
<1> SUFFICES ASSUME AdmissionInit PROVE AdmissionInv
  OBVIOUS
<1>1. req = [r \in Requests |-> Idle] /\ evidence = {}
  BY DEF AdmissionInit
<1>2. RequestBy(Idle, clock)
  BY DEF RequestBy, Idle
<1>3. RequestInv
  BY <1>1, <1>2 DEF RequestInv
<1>4. Items(evidence)
  BY <1>1, FS_EmptySet DEF Items
<1> QED
  BY <1>3, <1>4, LaneInit DEF AdmissionInv

LEMMA AdmissionStep ==
    ASSUME AdmissionInv, AdmissionNext
    PROVE  AdmissionInv' /\ LaneMoves /\ EvidenceMoves
<1> USE DEF AdmissionInv
<1>1. ASSUME NEW r \in Requests, NEW v \in Vectors, Authenticate(r, v)
      PROVE  AdmissionInv' /\ LaneMoves /\ EvidenceMoves
<2>1. UNCHANGED <<clock, lanes, history>> /\ UNCHANGED evidence
  BY <1>1 DEF Authenticate
<2> QED
  BY <1>1, <2>1, AuthenticateReq, QuietStep, EvidenceStays
<1>2. ASSUME NEW r \in Requests, ReadPosture(r)
      PROVE  AdmissionInv' /\ LaneMoves /\ EvidenceMoves
<2>1. UNCHANGED <<clock, lanes, history>> /\ UNCHANGED evidence
  BY <1>2 DEF ReadPosture
<2> QED
  BY <1>2, <2>1, ReadPostureReq, QuietStep, EvidenceStays
<1>3. ASSUME NEW r \in Requests, Classify(r)
      PROVE  AdmissionInv' /\ LaneMoves /\ EvidenceMoves
<2>1. UNCHANGED evidence
  BY <1>3 DEF Classify
<2> QED
  BY <1>3, <2>1, ClassifyReq, ClassifyStep, EvidenceStays
<1>4. ASSUME NEW r \in Requests, NEW raised \in SUBSET Signals, ObserveSignals(r, raised)
      PROVE  AdmissionInv' /\ LaneMoves /\ EvidenceMoves
<2>1. UNCHANGED <<clock, lanes, history>>
  BY <1>4 DEF ObserveSignals
<2> QED
  BY <1>4, <2>1, ObserveSignalsReq, QuietStep, SignalsEvidence
<1>5. ASSUME NEW r \in Requests, SnapshotEvidence(r)
      PROVE  AdmissionInv' /\ LaneMoves /\ EvidenceMoves
<2>1. UNCHANGED <<clock, lanes, history>> /\ UNCHANGED evidence
  BY <1>5 DEF SnapshotEvidence
<2> QED
  BY <1>5, <2>1, SnapshotReq, QuietStep, EvidenceStays
<1>6. ASSUME NEW r \in Requests, ObserveLane(r)
      PROVE  AdmissionInv' /\ LaneMoves /\ EvidenceMoves
<2>1. UNCHANGED evidence
  BY <1>6 DEF ObserveLane
<2> QED
  BY <1>6, <2>1, ObserveLaneReq, ObserveLaneStep, EvidenceStays
<1>7. ASSUME NEW r \in Requests, Provision(r)
      PROVE  AdmissionInv' /\ LaneMoves /\ EvidenceMoves
<2>1. UNCHANGED <<clock, lanes, history>>
  BY <1>7 DEF Provision
<2> QED
  BY <1>7, <2>1, ProvisionReq, QuietStep, PruneEvidenceStep
<1>8. ASSUME NEW r \in Requests, NEW raised \in SUBSET EndSignals, NEW success \in BOOLEAN,
             Complete(r, raised, success)
      PROVE  AdmissionInv' /\ LaneMoves /\ EvidenceMoves
<2>1. UNCHANGED <<clock, lanes, history>>
  BY <1>8 DEF Complete
<2> QED
  BY <1>8, <2>1, CompleteReq, QuietStep, CompleteEvidence
<1>9. ASSUME NEW r \in Requests, FinalizeBaseline(r)
      PROVE  AdmissionInv' /\ LaneMoves /\ EvidenceMoves
<2>1. UNCHANGED <<clock, lanes, history>> /\ UNCHANGED evidence
  BY <1>9 DEF FinalizeBaseline
<2> QED
  BY <1>9, <2>1, FinalizeReq, QuietStep, EvidenceStays
<1>10. ASSUME NEW r \in Requests, RecordClean(r)
       PROVE  AdmissionInv' /\ LaneMoves /\ EvidenceMoves
<2>1. UNCHANGED evidence /\ clock' = clock /\ Deny(r)
  BY <1>10 DEF RecordClean
<2> QED
  BY <1>10, <2>1, DenyStep, RecordCleanStep, EvidenceStays
<1>11. ASSUME UNCHANGED req, UNCHANGED clock
       PROVE  RequestInv'
  BY <1>11 DEF RequestInv
<1>12. ASSUME NEW lockdown \in BOOLEAN, SetPosture(lockdown)
       PROVE  AdmissionInv' /\ LaneMoves /\ EvidenceMoves
<2>1. UNCHANGED <<clock, lanes, lastHigh, elevated>> /\ UNCHANGED evidence /\ UNCHANGED req
  BY <1>12 DEF SetPosture
<2>2. LaneInv' /\ LaneMoves
  BY <2>1 DEF LaneInv, LaneMoves
<2> QED
  BY <1>11, <2>1, <2>2, EvidenceStays
<1>13. ASSUME NEW l \in DOMAIN lanes, Unblock(l)
       PROVE  AdmissionInv' /\ LaneMoves /\ EvidenceMoves
<2>1. UNCHANGED evidence /\ UNCHANGED req /\ UNCHANGED clock
  BY <1>13 DEF Unblock
<2> QED
  BY <1>11, <1>13, <2>1, UnblockStep, EvidenceStays
<1>14. ASSUME SweepExpiredEvidence
       PROVE  AdmissionInv' /\ LaneMoves /\ EvidenceMoves
<2>1. UNCHANGED <<clock, lanes, history>> /\ UNCHANGED req
  BY <1>14 DEF SweepExpiredEvidence
<2> QED
  BY <1>11, <1>14, <2>1, QuietStep, SweepStep
<1>15. ASSUME Tick
       PROVE  AdmissionInv' /\ LaneMoves /\ EvidenceMoves
<2>1. UNCHANGED evidence
  BY <1>15 DEF Tick
<2> QED
  BY <1>15, <2>1, TickStep, TickReq, EvidenceStays
<1> QED
  BY <1>1, <1>2, <1>3, <1>4, <1>5, <1>6, <1>7, <1>8, <1>9, <1>10, <1>12, <1>13, <1>14, <1>15
     DEF AdmissionNext

(* The invariant of the admission pipeline, on either authority.           *)
THEOREM AdmissionInvariance == AdmissionSpec => []AdmissionInv
<1>1. AdmissionInv /\ [AdmissionNext]_admissionVars => AdmissionInv'
<2> SUFFICES ASSUME AdmissionInv, [AdmissionNext]_admissionVars PROVE AdmissionInv'
  OBVIOUS
<2>1. CASE AdmissionNext
  BY <2>1, AdmissionStep
<2>2. CASE UNCHANGED admissionVars
  BY <2>2 DEF admissionVars, AdmissionInv, LaneInv, RequestInv
<2> QED
  BY <2>1, <2>2
<1> QED
  BY <1>1, AdmissionStart, PTL DEF AdmissionSpec

(* Whatever requests, retention and maintenance do in whatever order, and  *)
(* on either authority, a blocked lane stays until an operator unblocks it *)
(* (RetentionDecision, ReduceLaneSecurity).                                *)
THEOREM BlockedForGood == AdmissionSpec => TombstoneStays
<1>1. AdmissionInv /\ [AdmissionNext]_admissionVars =>
         [\A l \in DOMAIN lanes : lanes[l].status = "BLOCKED" =>
             Unblock(l) \/ (l \in DOMAIN lanes' /\ lanes'[l].status = "BLOCKED")]_admissionVars
  BY AdmissionStep DEF LaneMoves
<1> QED
  BY <1>1, AdmissionInvariance, PTL DEF AdmissionSpec, TombstoneStays

(* Where observations are stored on the database's clock, no suspicious    *)
(* lane recovers within the dwell of a high observation that landed before *)
(* (ApplyRiskObservation), unless retention forgot it.                     *)
THEOREM RecoveryWaits ==
    ASSUME ~Standalone
    PROVE  AdmissionSpec => RecoveryAfterDwell
<1>1. AdmissionInv /\ [AdmissionNext]_admissionVars =>
         [\A l \in DOMAIN lanes \cap DOMAIN lanes' :
             lanes[l].status = "SUSPICIOUS" /\ lanes'[l].status = "NORMAL"
                 => \/ clock - lastHigh[l] >= Hysteresis.dwell
                    \/ Forgotten(l)]_admissionVars
  BY AdmissionStep DEF LaneMoves
<1> QED
  BY <1>1, AdmissionInvariance, PTL DEF AdmissionSpec, RecoveryAfterDwell

(* On that clock, only a completed clean request establishes a lane, and   *)
(* only after a window in which the lane was never out of NORMAL           *)
(* (PromoteIfEligible).                                                    *)
THEOREM EstablishedIsClean ==
    ASSUME ~Standalone
    PROVE  AdmissionSpec => EstablishedAfterCleanWindow
<1>1. AdmissionInv /\ [AdmissionNext]_admissionVars =>
         [\A l \in DOMAIN lanes' :
             lanes'[l].state = "ESTABLISHED" /\ (l \in DOMAIN lanes => lanes[l].state # "ESTABLISHED")
                 => /\ \E r \in Requests : At(r, "record") /\ req[r].lane = l /\ req[r].adaptive
                    /\ lanes'[l].status = "NORMAL"
                    /\ clock - Max({elevated[l], lanes'[l].firstSeen}) >= Learning.age]_admissionVars
  BY AdmissionStep DEF LaneMoves
<1> QED
  BY <1>1, AdmissionInvariance, PTL DEF AdmissionSpec, EstablishedAfterCleanWindow

(* On that clock, evidence that still counts leaves the store only when    *)
(* its subject holds the full number of items (CompactSubject), whatever   *)
(* requests append, prune or sweep.                                        *)
THEOREM EvidenceSurvives ==
    ASSUME ~Standalone
    PROVE  AdmissionSpec => LiveEvidenceKept
<1>1. AdmissionInv /\ [AdmissionNext]_admissionVars =>
         [\A ev \in evidence \ evidence' :
             Valid(ev, clock) =>
                 Cardinality({e \in evidence' : e.subject = ev.subject}) >= MaxEvidencePerSubject]_admissionVars
  BY AdmissionStep DEF EvidenceMoves
<1> QED
  BY <1>1, AdmissionInvariance, PTL DEF AdmissionSpec, LiveEvidenceKept
=============================================================================
