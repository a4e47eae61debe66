------------------------- MODULE VerificationProofs -------------------------
(***************************************************************************)
(* Proofs about the two places where a request is verified: by the gateway *)
(* with its pepper generations (PepperGenerations), and by the backend,    *)
(* which verifies the gateway's assertion (AssertionVerifier).  The two    *)
(* specifications share nothing; each is proved on its own, for every set  *)
(* of nodes, generations and requests and any number of authority changes, *)
(* and for every set of calls, tokens, keys and peers, any clock offsets   *)
(* and both kinds of replay guard.                                         *)
(***************************************************************************)
EXTENDS PepperGenerations, AssertionVerifier, TLAPS, FiniteSetTheorems, WellFoundedInduction

(***************************************************************************)
(* PepperGenerations.  None of the three invariants is inductive as it     *)
(* stands.  They hold because of what the reconciliations in progress      *)
(* know: the retired generations a job read stay retired, the ring only    *)
(* shrinks between a job's look at it and its acknowledgement, and a       *)
(* change of the authority always takes a fresh epoch, which no earlier    *)
(* observation can match.                                                  *)
(***************************************************************************)
Ring == [loaded : SUBSET Versions, active : Versions]

Serving == [ready : BOOLEAN, observed : Observation]

Job == [pc : {"idle", "load", "apply", "identity", "sync", "publish"}, active : Versions,
        retired : SUBSET Versions, loaded : SUBSET Versions, epoch : Nat]

(* Every node acknowledged the active generation, which is not retired.    *)
ActiveAcked ==
    /\ shared.active \notin shared.retired
    /\ \A n \in Nodes : shared.active \in acks[n]

(* A ring has loaded the generation it selects.                            *)
SelectedIsLoaded == \A n \in Nodes : ring[n].active \in ring[n].loaded

(* What a reconciliation in progress read is still true, up to what the    *)
(* authority has retired since.                                            *)
JobsHonest ==
    \A n \in Nodes, w \in Workers :
        LET j == job[n][w] IN
        /\ j.retired \subseteq shared.retired
        /\ j.epoch =< shared.epoch
        /\ j.pc = "sync" => /\ j.loaded \subseteq ring[n].loaded \cup shared.retired
                            /\ ring[n].loaded \subseteq j.loaded
        /\ j.pc = "publish" /\ j.epoch = shared.epoch
              => ring[n].loaded \cap shared.retired = {}

(* No node has acknowledged an epoch that is still to come.                *)
ObservedPast == \A n \in Nodes : serving[n].observed.epoch =< shared.epoch

(* A request that may still migrate the verifier holds a real generation.  *)
AuthsTyped ==
    \A r \in Requests : auth[r].pc \in {"latest", "legacy", "migrate"}
                        => auth[r].latest \in Versions

Auth == [pc : {"idle", "latest", "legacy", "migrate", "ok", "unknown"}, node : Nodes,
         latest : Versions \cup {0}, todo : SUBSET Versions, revision : Nat]

(* The inductive invariant.                                                *)
IInv ==
    /\ TypeOK /\ ActiveAcked /\ SelectedIsLoaded /\ AcksHonoured
    /\ JobsHonest /\ ObservedPast /\ ServingDroppedRetired /\ AuthsTyped

-----------------------------------------------------------------------------
(* Min, with which the retire loop picks a generation, picks a member.     *)
LEMMA MinOfVersions ==
    ASSUME NEW S \in SUBSET Versions, S # {}
    PROVE  Min(S) \in S
<1>0. S \in SUBSET Nat
  BY GenerationAssumption
<1> DEFINE R == OpToRel(<, Nat)
<1>1. IsWellFoundedOn(R, Nat)
  BY NatLessThanWellFounded
<1>2. \A x, y \in Nat : <<y, x>> \notin R => x =< y
  BY DEF OpToRel
<1> HIDE DEF R
<1>3. PICK x \in S : \A y \in S : ~ (<<y, x>> \in R)
  BY <1>0, <1>1, WFMin
<1>4. \A y \in S : x =< y
  BY <1>0, <1>2, <1>3
<1> QED
  BY <1>4 DEF Min

(* TypeOK, with the types of a ring, a job and a readiness flag named.     *)
LEMMA Types ==
    ASSUME TypeOK
    PROVE  /\ shared \in [active : Versions, retired : SUBSET Versions, epoch : Nat]
           /\ acks \in [Nodes -> SUBSET Versions]
           /\ ring \in [Nodes -> Ring]
           /\ serving \in [Nodes -> Serving]
           /\ job \in [Nodes -> [Workers -> Job]]
           /\ cred \in [pepper : Versions, revision : Nat]
  BY DEF TypeOK, Ring, Serving, Job

(* SetJob replaces one job and leaves the others alone.                    *)
LEMMA JobSet ==
    ASSUME job \in [Nodes -> [Workers -> Job]],
           NEW n \in Nodes, NEW w \in Workers, NEW j \in Job, SetJob(n, w, j)
    PROVE  /\ job' \in [Nodes -> [Workers -> Job]]
           /\ job'[n][w] = j
           /\ \A m \in Nodes, x \in Workers : m # n \/ x # w => job'[m][x] = job[m][x]
  BY DEF SetJob

(* The empty job is a job.                                                 *)
LEMMA NoJobTyped ==
    /\ NoJob \in Job
    /\ NoJob.pc = "idle" /\ NoJob.retired = {} /\ NoJob.epoch = 0
  BY GenerationAssumption DEF NoJob, Job

(* A request's step of LookupLatest, LookupLegacy or BeginAuth keeps       *)
(* IInv when the request's record stays well formed.                       *)
LEMMA AuthStep ==
    ASSUME IInv, NEW r \in Requests, NEW a, SetAuth(r, a),
           UNCHANGED <<shared, acks, ring, serving, job, cred>>,
           a \in Auth,
           a.pc \in {"latest", "legacy", "migrate"} => a.latest \in Versions
    PROVE  IInv'
<1>1. TypeOK'
  BY DEF IInv, TypeOK, SetAuth, Auth
<1>2. AuthsTyped'
  BY DEF IInv, TypeOK, SetAuth, AuthsTyped, Auth
<1>3. (ActiveAcked /\ SelectedIsLoaded /\ AcksHonoured /\ JobsHonest /\ ObservedPast)'
  BY DEF IInv, ActiveAcked, SelectedIsLoaded, AcksHonoured, JobsHonest, ObservedPast
<1>4. ServingDroppedRetired'
  BY DEF IInv, ServingDroppedRetired, observationFor
<1> QED
  BY <1>1, <1>2, <1>3, <1>4 DEF IInv

(* The initial state: every node has loaded and acknowledged everything.   *)
LEMMA InitIInv == Init => IInv
<1> SUFFICES ASSUME Init PROVE IInv
  OBVIOUS
<1>1. TypeOK
  <2>1. /\ shared \in [active : Versions, retired : SUBSET Versions, epoch : Nat]
        /\ acks \in [Nodes -> SUBSET Versions]
        /\ ring \in [Nodes -> Ring]
        /\ job \in [Nodes -> [Workers -> Job]]
    BY GenerationAssumption, NoJobTyped DEF Init, Ring
  <2>2. serving \in [Nodes -> Serving]
    BY <2>1 DEF Init, Serving, Observation, observationFor
  <2>3. cred \in [pepper : Versions, revision : Nat]
    <3>1. Stored \subseteq Versions /\ 1 \in Nat
      BY GenerationAssumption
    <3> QED
      BY <3>1 DEF Init
  <2>4. auth \in [Requests ->
          [pc : {"idle", "latest", "legacy", "migrate", "ok", "unknown"}, node : Nodes,
           latest : Versions \cup {0}, todo : SUBSET Versions, revision : Nat]]
    <3>1. \A n \in Nodes : NoAuth(n) \in
             [pc : {"idle", "latest", "legacy", "migrate", "ok", "unknown"}, node : Nodes,
              latest : Versions \cup {0}, todo : SUBSET Versions, revision : Nat]
      BY DEF NoAuth
    <3> QED
      BY <3>1 DEF Init
  <2> QED
    BY <2>1, <2>2, <2>3, <2>4 DEF TypeOK, Ring, Serving, Job
<1>2. ActiveAcked /\ SelectedIsLoaded /\ AcksHonoured /\ ObservedPast
  BY GenerationAssumption
     DEF Init, ActiveAcked, SelectedIsLoaded, AcksHonoured, ObservedPast, observationFor
<1>3. JobsHonest
  BY NoJobTyped DEF Init, JobsHonest
<1>4. ServingDroppedRetired /\ AuthsTyped
  BY DEF Init, ServingDroppedRetired, AuthsTyped, NoAuth
<1> QED
  BY <1>1, <1>2, <1>3, <1>4 DEF IInv

-----------------------------------------------------------------------------
(* The job an admin handler starts, and the node's withdrawal.             *)
LEMMA AdminStarts ==
    ASSUME TypeOK, NEW n \in Nodes, NEW state,
           state \in [active : Versions, retired : SUBSET Versions, epoch : Nat],
           Withdraw(n), StartAdminJob(n, state)
    PROVE  /\ serving' \in [Nodes -> Serving]
           /\ \A m \in Nodes : serving'[m].observed = serving[m].observed
           /\ \A m \in Nodes : serving'[m].ready => serving[m].ready
           /\ job' \in [Nodes -> [Workers -> Job]]
           /\ job'[n]["admin"].pc = "apply" /\ job'[n]["admin"].epoch = 0
           /\ job'[n]["admin"].retired = state.retired
           /\ \A m \in Nodes, x \in Workers :
                 m # n \/ x # "admin" => job'[m][x] = job[m][x]
<1> DEFINE j == [NoJob EXCEPT !.pc = "apply", !.active = state.active,
                              !.retired = state.retired]
<1>1. /\ j \in Job /\ j.pc = "apply" /\ j.epoch = 0 /\ j.retired = state.retired
  BY NoJobTyped DEF Job
<1>2. SetJob(n, "admin", j)
  BY DEF StartAdminJob, SetJob
<1> HIDE DEF j
<1>3. "admin" \in Workers
  BY DEF Workers
<1>4. job \in [Nodes -> [Workers -> Job]] /\ serving \in [Nodes -> Serving]
  BY Types
<1>5. /\ job' \in [Nodes -> [Workers -> Job]] /\ job'[n]["admin"] = j
      /\ \A m \in Nodes, x \in Workers : m # n \/ x # "admin" => job'[m][x] = job[m][x]
  BY <1>1, <1>2, <1>3, <1>4, JobSet
<1>6. /\ serving' \in [Nodes -> Serving]
      /\ \A m \in Nodes : serving'[m].observed = serving[m].observed
      /\ \A m \in Nodes : serving'[m].ready => serving[m].ready
  BY <1>4 DEF Withdraw, Serving
<1> QED
  BY <1>1, <1>5, <1>6

(* Both changes of the authority keep IInv: the epoch is fresh, nothing is *)
(* un-retired, and the active generation is acknowledged and not retired.  *)
LEMMA AuthorityStep ==
    ASSUME IInv, NEW n \in Nodes, NEW next,
           next \in [active : Versions, retired : SUBSET Versions, epoch : Nat],
           shared' = next, next.epoch = shared.epoch + 1,
           shared.retired \subseteq next.retired,
           next.active \notin next.retired,
           \A m \in Nodes : next.active \in acks[m],
           Withdraw(n), StartAdminJob(n, next),
           UNCHANGED <<acks, ring, cred, auth>>
    PROVE  IInv'
<1> USE DEF IInv
<1>0. /\ shared \in [active : Versions, retired : SUBSET Versions, epoch : Nat]
      /\ shared.epoch \in Nat
      /\ job \in [Nodes -> [Workers -> Job]] /\ serving \in [Nodes -> Serving]
  BY Types
<1>1. /\ serving' \in [Nodes -> Serving]
      /\ \A m \in Nodes : serving'[m].observed = serving[m].observed
      /\ job' \in [Nodes -> [Workers -> Job]]
      /\ job'[n]["admin"].pc = "apply" /\ job'[n]["admin"].epoch = 0
      /\ job'[n]["admin"].retired = next.retired
      /\ \A m \in Nodes, x \in Workers :
            m # n \/ x # "admin" => job'[m][x] = job[m][x]
  BY AdminStarts
<1>2. TypeOK'
  BY <1>1 DEF TypeOK, Ring, Serving, Job
<1>3. (ActiveAcked /\ SelectedIsLoaded /\ AcksHonoured /\ AuthsTyped)'
  BY DEF ActiveAcked, SelectedIsLoaded, AcksHonoured, AuthsTyped
<1>4. \A m \in Nodes, x \in Workers : job[m][x].epoch \in Nat
  BY <1>0 DEF Job
<1>5. JobsHonest'
  <2> SUFFICES ASSUME NEW m \in Nodes, NEW x \in Workers
               PROVE  /\ job'[m][x].retired \subseteq shared'.retired
                      /\ job'[m][x].epoch =< shared'.epoch
                      /\ job'[m][x].pc = "sync"
                           => /\ job'[m][x].loaded \subseteq ring'[m].loaded \cup shared'.retired
                              /\ ring'[m].loaded \subseteq job'[m][x].loaded
                      /\ job'[m][x].pc = "publish" /\ job'[m][x].epoch = shared'.epoch
                           => ring'[m].loaded \cap shared'.retired = {}
    BY DEF JobsHonest
  <2>1. CASE m = n /\ x = "admin"
    BY <1>0, <1>1, <2>1
  <2>2. CASE m # n \/ x # "admin"
    <3>1. job'[m][x] = job[m][x]
      BY <1>1, <2>2
    <3>2. job[m][x].epoch =< shared.epoch /\ job[m][x].epoch # shared'.epoch
      BY <1>0, <1>4 DEF JobsHonest
    <3> QED
      BY <1>0, <1>4, <3>1, <3>2 DEF JobsHonest
  <2> QED
    BY <2>1, <2>2
<1>6. \A m \in Nodes : /\ serving'[m].observed.epoch \in Nat
                       /\ serving'[m].observed.epoch =< shared.epoch
  BY <1>0, <1>1 DEF ObservedPast, Serving, Observation
<1>7. ObservedPast'
  BY <1>0, <1>6 DEF ObservedPast
<1>8. ServingDroppedRetired'
  <2>1. \A m \in Nodes : serving'[m].observed # observationFor'
    BY <1>0, <1>6 DEF observationFor
  <2> QED
    BY <2>1 DEF ServingDroppedRetired
<1> QED
  BY <1>2, <1>3, <1>5, <1>7, <1>8

(* The record of the authority after an activation or a retirement.        *)
LEMMA SharedUpdate ==
    ASSUME NEW s \in [active : Versions, retired : SUBSET Versions, epoch : Nat],
           NEW v \in Versions, NEW gone \in SUBSET Versions, NEW e \in Nat
    PROVE  /\ LET t == [s EXCEPT !.active = v, !.epoch = e] IN
              /\ t \in [active : Versions, retired : SUBSET Versions, epoch : Nat]
              /\ t.active = v /\ t.retired = s.retired /\ t.epoch = e
           /\ LET t == [s EXCEPT !.retired = gone, !.epoch = e] IN
              /\ t \in [active : Versions, retired : SUBSET Versions, epoch : Nat]
              /\ t.active = s.active /\ t.retired = gone /\ t.epoch = e
  OBVIOUS

(* ActivateGeneration keeps IInv.                                          *)
LEMMA ActivateStep ==
    ASSUME IInv, NEW n \in Nodes, NEW v \in Versions, ActivateGeneration(n, v)
    PROVE  IInv'
<1> DEFINE next == [shared EXCEPT !.active = v, !.epoch = @ + 1]
<1>0. shared \in [active : Versions, retired : SUBSET Versions, epoch : Nat]
  BY Types DEF IInv
<1>1. /\ next \in [active : Versions, retired : SUBSET Versions, epoch : Nat]
      /\ next.epoch = shared.epoch + 1 /\ next.retired = shared.retired /\ next.active = v
  <2>1. shared.retired \in SUBSET Versions /\ shared.epoch \in Nat
    BY <1>0
  <2>2. shared.epoch + 1 \in Nat
    BY <2>1
  <2> QED
    BY <1>0, <2>1, <2>2, SharedUpdate
<1>2. /\ shared' = next /\ Withdraw(n) /\ StartAdminJob(n, shared')
      /\ v \notin shared.retired /\ \A m \in Nodes : v \in acks[m]
  BY DEF ActivateGeneration, ActivationBarrier
<1>3. UNCHANGED <<acks, ring, cred, auth>>
  BY DEF ActivateGeneration
<1>5. StartAdminJob(n, next)
  BY <1>2 DEF StartAdminJob
<1> HIDE DEF next
<1> QED
  BY <1>1, <1>2, <1>3, <1>5, AuthorityStep

(* RetireGeneration keeps IInv.                                            *)
LEMMA RetireStep ==
    ASSUME IInv, NEW n \in Nodes, NEW v \in Versions, RetireGeneration(n, v)
    PROVE  IInv'
<1> DEFINE next == [shared EXCEPT !.retired = @ \cup {v}, !.epoch = @ + 1]
<1>0. shared \in [active : Versions, retired : SUBSET Versions, epoch : Nat]
  BY Types DEF IInv
<1>1. /\ next \in [active : Versions, retired : SUBSET Versions, epoch : Nat]
      /\ next.epoch = shared.epoch + 1 /\ next.retired = shared.retired \cup {v}
      /\ next.active = shared.active
  <2>1. /\ shared.retired \in SUBSET Versions /\ shared.epoch \in Nat
        /\ shared.active \in Versions
    BY <1>0
  <2>2. shared.epoch + 1 \in Nat /\ shared.retired \cup {v} \in SUBSET Versions
    BY <2>1
  <2> QED
    BY <1>0, <2>1, <2>2, SharedUpdate
<1>2. shared' = next /\ Withdraw(n) /\ StartAdminJob(n, shared') /\ v # shared.active
  BY DEF RetireGeneration
<1>3. UNCHANGED <<acks, ring, cred, auth>>
  BY DEF RetireGeneration
<1>4. shared.active \notin shared.retired /\ \A m \in Nodes : shared.active \in acks[m]
  BY DEF IInv, ActiveAcked
<1>5. StartAdminJob(n, next)
  BY <1>2 DEF StartAdminJob
<1> HIDE DEF next
<1> QED
  BY <1>1, <1>2, <1>3, <1>4, <1>5, AuthorityStep

-----------------------------------------------------------------------------
(* A reconciliation step that touches only its job, and perhaps adds to    *)
(* the acknowledgements, keeps IInv when the new job is an honest one.     *)
LEMMA JobStep ==
    ASSUME IInv, NEW n \in Nodes, NEW w \in Workers, NEW j \in Job, SetJob(n, w, j),
           UNCHANGED <<shared, ring, serving, cred, auth>>,
           acks' \in [Nodes -> SUBSET Versions],
           \A m \in Nodes : /\ acks[m] \subseteq acks'[m]
                            /\ acks'[m] \subseteq ring[m].loaded \cup shared.retired,
           j.retired \subseteq shared.retired,
           j.epoch =< shared.epoch,
           j.pc = "sync" => /\ j.loaded \subseteq ring[n].loaded \cup shared.retired
                            /\ ring[n].loaded \subseteq j.loaded,
           j.pc = "publish" => ring[n].loaded \cap shared.retired = {}
    PROVE  IInv'
<1> USE DEF IInv
<1>1. job \in [Nodes -> [Workers -> Job]]
  BY Types
<1>2. /\ job' \in [Nodes -> [Workers -> Job]] /\ job'[n][w] = j
      /\ \A m \in Nodes, x \in Workers : m # n \/ x # w => job'[m][x] = job[m][x]
  BY <1>1, JobSet
<1>3. TypeOK'
  BY <1>2 DEF TypeOK, Job
<1>4. JobsHonest'
  <2> SUFFICES ASSUME NEW m \in Nodes, NEW x \in Workers
               PROVE  /\ job'[m][x].retired \subseteq shared.retired
                      /\ job'[m][x].epoch =< shared.epoch
                      /\ job'[m][x].pc = "sync"
                           => /\ job'[m][x].loaded \subseteq ring[m].loaded \cup shared.retired
                              /\ ring[m].loaded \subseteq job'[m][x].loaded
                      /\ job'[m][x].pc = "publish" /\ job'[m][x].epoch = shared.epoch
                           => ring[m].loaded \cap shared.retired = {}
    BY DEF JobsHonest
  <2>1. CASE m = n /\ x = w
    BY <1>2, <2>1
  <2>2. CASE m # n \/ x # w
    BY <1>2, <2>2 DEF JobsHonest
  <2> QED
    BY <2>1, <2>2
<1>5. (ActiveAcked /\ SelectedIsLoaded /\ AcksHonoured /\ ObservedPast /\ AuthsTyped)'
  BY DEF ActiveAcked, SelectedIsLoaded, AcksHonoured, ObservedPast, AuthsTyped
<1>6. ServingDroppedRetired'
  BY DEF ServingDroppedRetired, observationFor
<1> QED
  BY <1>3, <1>4, <1>5, <1>6

(* Giving a job up is such a step.                                         *)
LEMMA GiveUpStep ==
    ASSUME IInv, NEW n \in Nodes, NEW w \in Workers, SetJob(n, w, NoJob),
           UNCHANGED <<shared, acks, ring, serving, cred, auth>>
    PROVE  IInv'
<1>1. shared.epoch \in Nat /\ acks \in [Nodes -> SUBSET Versions]
  BY Types DEF IInv
<1>2. 0 =< shared.epoch
  BY <1>1
<1>3. \A m \in Nodes : acks[m] \subseteq ring[m].loaded \cup shared.retired
  BY DEF IInv, AcksHonoured
<1> QED
  BY <1>1, <1>2, <1>3, NoJobTyped, JobStep

(* A step that changes only what a node loaded and selected keeps IInv     *)
(* when the node drops nothing but what is retired.                        *)
LEMMA RingStep ==
    ASSUME IInv, NEW n \in Nodes, NEW w \in Workers, NEW j \in Job, SetJob(n, w, j),
           UNCHANGED <<shared, acks, serving, cred, auth>>,
           ring' \in [Nodes -> Ring],
           \A m \in Nodes : /\ ring'[m].loaded \subseteq ring[m].loaded
                            /\ ring[m].loaded \subseteq ring'[m].loaded \cup shared.retired
                            /\ ring'[m].active \in ring'[m].loaded,
           j.retired \subseteq shared.retired,
           j.epoch =< shared.epoch,
           j.pc \in {"apply", "identity"}
    PROVE  IInv'
<1> USE DEF IInv
<1>1. job \in [Nodes -> [Workers -> Job]]
  BY Types
<1>2. /\ job' \in [Nodes -> [Workers -> Job]] /\ job'[n][w] = j
      /\ \A m \in Nodes, x \in Workers : m # n \/ x # w => job'[m][x] = job[m][x]
  BY <1>1, JobSet
<1>3. TypeOK'
  BY <1>2 DEF TypeOK, Job, Ring
<1>4. JobsHonest'
  <2> SUFFICES ASSUME NEW m \in Nodes, NEW x \in Workers
               PROVE  /\ job'[m][x].retired \subseteq shared.retired
                      /\ job'[m][x].epoch =< shared.epoch
                      /\ job'[m][x].pc = "sync"
                           => /\ job'[m][x].loaded \subseteq ring'[m].loaded \cup shared.retired
                              /\ ring'[m].loaded \subseteq job'[m][x].loaded
                      /\ job'[m][x].pc = "publish" /\ job'[m][x].epoch = shared.epoch
                           => ring'[m].loaded \cap shared.retired = {}
    BY DEF JobsHonest
  <2>1. CASE m = n /\ x = w
    BY <1>2, <2>1
  <2>2. CASE m # n \/ x # w
    <3>1. job'[m][x] = job[m][x]
      BY <1>2, <2>2
    <3> QED
      BY <3>1 DEF JobsHonest
  <2> QED
    BY <2>1, <2>2
<1>5. (ActiveAcked /\ SelectedIsLoaded /\ ObservedPast /\ AuthsTyped)'
  BY DEF ActiveAcked, SelectedIsLoaded, ObservedPast, AuthsTyped
<1>6. AcksHonoured'
  BY DEF AcksHonoured
<1>7. ServingDroppedRetired'
  BY DEF ServingDroppedRetired, observationFor
<1> QED
  BY <1>3, <1>4, <1>5, <1>6, <1>7

-----------------------------------------------------------------------------
(* The job LoadActive starts.                                              *)
LEMMA ToLoad ==
    ASSUME NEW a \in Versions
    PROVE  LET k == [NoJob EXCEPT !.pc = "load", !.active = a] IN
           k \in Job /\ k.pc = "load" /\ k.retired = {} /\ k.epoch = 0
  BY NoJobTyped DEF Job

(* The job after LoadRetired.                                              *)
LEMMA ToApply ==
    ASSUME NEW j \in Job, NEW S \in SUBSET Versions
    PROVE  LET k == [j EXCEPT !.pc = "apply", !.retired = S] IN
           k \in Job /\ k.pc = "apply" /\ k.retired = S /\ k.epoch = j.epoch
  BY DEF Job

(* The job after SelectActive.                                             *)
LEMMA ToIdentity ==
    ASSUME NEW j \in Job
    PROVE  LET k == [j EXCEPT !.pc = "identity"] IN
           k \in Job /\ k.pc = "identity" /\ k.retired = j.retired /\ k.epoch = j.epoch
  BY DEF Job

(* The job after LocalIdentity.                                            *)
LEMMA ToSync ==
    ASSUME NEW j \in Job, NEW S \in SUBSET Versions
    PROVE  LET k == [j EXCEPT !.pc = "sync", !.loaded = S] IN
           /\ k \in Job /\ k.pc = "sync" /\ k.retired = j.retired /\ k.epoch = j.epoch
           /\ k.loaded = S
  BY DEF Job

(* What IInv says of one job.                                              *)
LEMMA OneJob ==
    ASSUME IInv, NEW n \in Nodes, NEW w \in Workers
    PROVE  /\ job[n][w] \in Job
           /\ job[n][w].retired \subseteq shared.retired
           /\ job[n][w].active \in Versions /\ job[n][w].loaded \in SUBSET Versions
           /\ job[n][w].retired \in SUBSET Versions
           /\ job[n][w].epoch \in Nat /\ job[n][w].epoch =< shared.epoch
           /\ shared.epoch \in Nat /\ 0 =< shared.epoch
           /\ shared.active \in Versions /\ shared.retired \in SUBSET Versions
           /\ ring[n] \in Ring /\ ring[n].loaded \in SUBSET Versions
           /\ acks \in [Nodes -> SUBSET Versions]
           /\ \A m \in Nodes : acks[m] \subseteq ring[m].loaded \cup shared.retired
<1>1. job \in [Nodes -> [Workers -> Job]] /\ ring \in [Nodes -> Ring]
      /\ shared \in [active : Versions, retired : SUBSET Versions, epoch : Nat]
      /\ acks \in [Nodes -> SUBSET Versions]
  BY Types DEF IInv
<1>2. job[n][w] \in Job /\ ring[n] \in Ring
  BY <1>1
<1>3. /\ job[n][w].active \in Versions /\ job[n][w].loaded \in SUBSET Versions
      /\ job[n][w].retired \in SUBSET Versions /\ job[n][w].epoch \in Nat
      /\ ring[n].loaded \in SUBSET Versions
  BY <1>2 DEF Job, Ring
<1>4. job[n][w].retired \subseteq shared.retired /\ job[n][w].epoch =< shared.epoch
  BY DEF IInv, JobsHonest
<1>5. \A m \in Nodes : acks[m] \subseteq ring[m].loaded \cup shared.retired
  BY DEF IInv, AcksHonoured
<1>6. shared.epoch \in Nat /\ 0 =< shared.epoch
      /\ shared.active \in Versions /\ shared.retired \in SUBSET Versions
  BY <1>1
<1> QED
  BY <1>1, <1>2, <1>3, <1>4, <1>5, <1>6

(* The steps of a reconciliation, one by one, keep IInv.                   *)
LEMMA ReconcileStep ==
    ASSUME IInv, NEW n \in Nodes, Reconcile(n)
    PROVE  IInv'
<1>1. CASE CryptoReady(n)
  <2>1. serving \in [Nodes -> Serving]
    BY Types DEF IInv
  <2>2. /\ serving' \in [Nodes -> Serving]
        /\ \A m \in Nodes : serving'[m].observed = serving[m].observed
        /\ \A m \in Nodes : serving'[m].ready => serving[m].ready
    BY <1>1, <2>1 DEF CryptoReady, Withdraw, Serving
  <2>3. UNCHANGED <<shared, acks, ring, job, cred, auth>>
    BY <1>1 DEF CryptoReady
  <2>4. TypeOK'
    BY <2>2, <2>3 DEF IInv, TypeOK, Serving
  <2>5. (ActiveAcked /\ SelectedIsLoaded /\ AcksHonoured /\ JobsHonest /\ AuthsTyped)'
    BY <2>3 DEF IInv, ActiveAcked, SelectedIsLoaded, AcksHonoured, JobsHonest, AuthsTyped
  <2>6. (ObservedPast /\ ServingDroppedRetired)'
    BY <2>2, <2>3 DEF IInv, ObservedPast, ServingDroppedRetired, observationFor
  <2> QED
    BY <2>4, <2>5, <2>6 DEF IInv
<1>2. CASE LoadActive(n)
  <2> DEFINE k == [NoJob EXCEPT !.pc = "load", !.active = shared.active]
  <2>1. "reconciler" \in Workers
    BY DEF Workers
  <2>2. k \in Job /\ k.pc = "load" /\ k.retired = {} /\ k.epoch = 0
    BY <2>1, OneJob, ToLoad
  <2>3. SetJob(n, "reconciler", k) /\ UNCHANGED <<shared, acks, ring, serving, cred, auth>>
    BY <1>2 DEF LoadActive
  <2> HIDE DEF k
  <2>4. /\ acks \in [Nodes -> SUBSET Versions] /\ 0 =< shared.epoch
        /\ \A m \in Nodes : acks[m] \subseteq ring[m].loaded \cup shared.retired
    BY <2>1, OneJob
  <2> QED
    BY <2>1, <2>2, <2>3, <2>4, JobStep
<1>3. CASE LoadRetired(n)
  <2> DEFINE j == job[n]["reconciler"]
             k == [j EXCEPT !.pc = "apply", !.retired = shared.retired]
  <2>1. "reconciler" \in Workers
    BY DEF Workers
  <2>2. j \in Job /\ j.epoch =< shared.epoch /\ shared.retired \in SUBSET Versions
    BY <2>1, OneJob
  <2>3. SetJob(n, "reconciler", k) /\ UNCHANGED <<shared, acks, ring, serving, cred, auth>>
    BY <1>3 DEF LoadRetired
  <2> HIDE DEF j
  <2>4. k \in Job /\ k.pc = "apply" /\ k.retired = shared.retired /\ k.epoch = j.epoch
    BY <2>2, ToApply
  <2> HIDE DEF k
  <2>5. /\ acks \in [Nodes -> SUBSET Versions]
        /\ \A m \in Nodes : acks[m] \subseteq ring[m].loaded \cup shared.retired
    BY <2>1, OneJob
  <2> QED
    BY <2>1, <2>2, <2>3, <2>4, <2>5, JobStep
<1>4. ASSUME NEW w \in Workers, DropRetired(n, w)
      PROVE  IInv'
  <2> DEFINE todo == job[n][w].retired \cap ring[n].loaded
             v == Min(todo)
  <2>1. job[n][w].pc = "apply" /\ todo # {} /\ UNCHANGED <<shared, acks, serving, cred, auth>>
        /\ \/ v = Latest(n) /\ SetJob(n, w, NoJob) /\ UNCHANGED ring
           \/ /\ v # Latest(n) /\ UNCHANGED job
              /\ ring' = [ring EXCEPT ![n].loaded = @ \ {v}]
    BY <1>4 DEF DropRetired
  <2>2. CASE SetJob(n, w, NoJob) /\ UNCHANGED ring
    BY <2>1, <2>2, GiveUpStep
  <2>3. CASE /\ v # Latest(n) /\ UNCHANGED job
             /\ ring' = [ring EXCEPT ![n].loaded = @ \ {v}]
    <3>1. v \in todo
      <4>1. todo \in SUBSET Versions
        BY OneJob
      <4> HIDE DEF todo
      <4> QED
        BY <2>1, <4>1, MinOfVersions
    <3>2. v \in shared.retired
      BY <3>1, OneJob
    <3>3. Latest(n) = ring[n].active
      BY DEF IInv, SelectedIsLoaded, Latest
    <3>4. ring \in [Nodes -> Ring] /\ job \in [Nodes -> [Workers -> Job]]
      BY Types DEF IInv
    <3> HIDE DEF v, todo
    <3>5. ring' \in [Nodes -> Ring]
      BY <2>3, <3>4 DEF Ring
    <3>6. \A m \in Nodes : /\ ring'[m].loaded \subseteq ring[m].loaded
                           /\ ring[m].loaded \subseteq ring'[m].loaded \cup shared.retired
                           /\ ring'[m].active \in ring'[m].loaded
      BY <2>3, <3>2, <3>3, <3>4 DEF Ring, IInv, SelectedIsLoaded
    <3>7. SetJob(n, w, job[n][w])
      BY <2>3, <3>4 DEF SetJob
    <3> QED
      BY <2>1, <3>5, <3>6, <3>7, OneJob, RingStep
  <2> QED
    BY <2>1, <2>2, <2>3
<1>5. ASSUME NEW w \in Workers, SelectActive(n, w)
      PROVE  IInv'
  <2> DEFINE j == job[n][w]
             k == [j EXCEPT !.pc = "identity"]
  <2>1. UNCHANGED <<shared, acks, serving, cred, auth>>
        /\ \/ /\ j.active \in ring[n].loaded /\ SetJob(n, w, k)
              /\ ring' = [ring EXCEPT ![n].active = j.active]
           \/ SetJob(n, w, NoJob) /\ UNCHANGED ring
    BY <1>5 DEF SelectActive
  <2>2. CASE SetJob(n, w, NoJob) /\ UNCHANGED ring
    BY <2>1, <2>2, GiveUpStep
  <2>3. CASE /\ j.active \in ring[n].loaded /\ SetJob(n, w, k)
             /\ ring' = [ring EXCEPT ![n].active = j.active]
    <3>1. ring \in [Nodes -> Ring]
      BY Types DEF IInv
    <3>2. /\ j \in Job /\ j.active \in Versions
          /\ j.retired \subseteq shared.retired /\ j.epoch =< shared.epoch
      BY OneJob
    <3> HIDE DEF j
    <3>3. k \in Job /\ k.pc = "identity" /\ k.retired = j.retired /\ k.epoch = j.epoch
      BY <3>2, ToIdentity
    <3>4. ring' \in [Nodes -> Ring]
      BY <2>3, <3>1, <3>2 DEF Ring
    <3>5. \A m \in Nodes : /\ ring'[m].loaded \subseteq ring[m].loaded
                           /\ ring[m].loaded \subseteq ring'[m].loaded \cup shared.retired
                           /\ ring'[m].active \in ring'[m].loaded
      BY <2>3, <3>1 DEF Ring, IInv, SelectedIsLoaded
    <3> HIDE DEF k
    <3> QED
      BY <2>1, <2>3, <3>2, <3>3, <3>4, <3>5, RingStep
  <2> QED
    BY <2>1, <2>2, <2>3
<1>6. ASSUME NEW w \in Workers, LocalIdentity(n, w)
      PROVE  IInv'
  <2> DEFINE j == job[n][w]
             k == [j EXCEPT !.pc = "sync", !.loaded = ring[n].loaded]
  <2>1. SetJob(n, w, k) /\ UNCHANGED <<shared, acks, ring, serving, cred, auth>>
    BY <1>6 DEF LocalIdentity
  <2>2. /\ j \in Job /\ j.retired \subseteq shared.retired /\ j.epoch =< shared.epoch
        /\ ring[n].loaded \in SUBSET Versions /\ acks \in [Nodes -> SUBSET Versions]
        /\ \A m \in Nodes : acks[m] \subseteq ring[m].loaded \cup shared.retired
    BY OneJob
  <2> HIDE DEF j
  <2>3. /\ k \in Job /\ k.pc = "sync" /\ k.retired = j.retired /\ k.epoch = j.epoch
        /\ k.loaded = ring[n].loaded
    BY <2>2, ToSync
  <2> HIDE DEF k
  <2> QED
    BY <2>1, <2>2, <2>3, JobStep
<1>7. ASSUME NEW w \in Workers, Synchronize(n, w)
      PROVE  IInv'
  <2> DEFINE j == job[n][w]
             k == [j EXCEPT !.pc = "publish", !.active = shared.active,
                            !.epoch = shared.epoch]
  <2>1. /\ j.pc = "sync" /\ UNCHANGED <<shared, ring, serving, cred, auth>>
        /\ \/ /\ j.loaded \cap shared.retired = {} /\ SetJob(n, w, k)
              /\ acks' = [acks EXCEPT ![n] = @ \cup j.loaded]
           \/ SetJob(n, w, NoJob) /\ UNCHANGED acks
    BY <1>7 DEF Synchronize
  <2>2. CASE SetJob(n, w, NoJob) /\ UNCHANGED acks
    BY <2>1, <2>2, GiveUpStep
  <2>3. CASE /\ j.loaded \cap shared.retired = {} /\ SetJob(n, w, k)
             /\ acks' = [acks EXCEPT ![n] = @ \cup j.loaded]
    <3>1. /\ j \in Job /\ j.retired \subseteq shared.retired
          /\ j.loaded \in SUBSET Versions
          /\ shared.active \in Versions /\ shared.epoch \in Nat
          /\ acks \in [Nodes -> SUBSET Versions]
          /\ \A m \in Nodes : acks[m] \subseteq ring[m].loaded \cup shared.retired
      BY OneJob
    <3>2. /\ j.loaded \subseteq ring[n].loaded \cup shared.retired
          /\ ring[n].loaded \subseteq j.loaded
      BY <2>1 DEF IInv, JobsHonest
    <3> HIDE DEF j
    <3>3. k \in Job /\ k.pc = "publish" /\ k.retired = j.retired /\ k.epoch = shared.epoch
      BY <3>1 DEF Job
    <3> HIDE DEF k
    <3>4. acks' \in [Nodes -> SUBSET Versions]
      BY <2>3, <3>1
    <3>5. \A m \in Nodes : /\ acks[m] \subseteq acks'[m]
                           /\ acks'[m] \subseteq ring[m].loaded \cup shared.retired
      BY <2>3, <3>1, <3>2
    <3>6. ring[n].loaded \cap shared.retired = {}
      BY <2>3, <3>2
    <3>7. k.epoch =< shared.epoch
      BY <3>1, <3>3
    <3> QED
      BY <2>1, <2>3, <3>1, <3>3, <3>4, <3>5, <3>6, <3>7, JobStep
  <2> QED
    BY <2>1, <2>2, <2>3
<1>8. ASSUME NEW w \in Workers, SynchronizeFails(n, w)
      PROVE  IInv'
  BY <1>8, GiveUpStep DEF SynchronizeFails
<1>9. ASSUME NEW w \in Workers, Publish(n, w)
      PROVE  IInv'
  <2> DEFINE o == [active |-> job[n][w].active, epoch |-> job[n][w].epoch]
  <2>1. /\ job[n][w].pc = "publish" /\ SetJob(n, w, NoJob)
        /\ serving' = [serving EXCEPT ![n] = [ready |-> TRUE, observed |-> o]]
        /\ UNCHANGED <<shared, acks, ring, cred, auth>>
    BY <1>9 DEF Publish
  <2>2. serving \in [Nodes -> Serving] /\ job \in [Nodes -> [Workers -> Job]]
    BY Types DEF IInv
  <2>3. /\ job[n][w].active \in Versions /\ job[n][w].epoch \in Nat
        /\ job[n][w].epoch =< shared.epoch /\ 0 =< shared.epoch
    BY OneJob
  <2>4. o \in Observation /\ o.epoch = job[n][w].epoch
    BY <2>3 DEF Observation
  <2>5. job[n][w].epoch = shared.epoch => ring[n].loaded \cap shared.retired = {}
    BY <2>1 DEF IInv, JobsHonest
  <2> HIDE DEF o
  <2>6. /\ serving' \in [Nodes -> Serving] /\ serving'[n].observed = o
        /\ \A m \in Nodes : m # n => serving'[m] = serving[m]
    BY <2>1, <2>2, <2>4 DEF Serving
  <2>7. /\ job' \in [Nodes -> [Workers -> Job]] /\ job'[n][w] = NoJob
        /\ \A m \in Nodes, x \in Workers : m # n \/ x # w => job'[m][x] = job[m][x]
    BY <2>1, <2>2, JobSet, NoJobTyped
  <2>8. TypeOK'
    BY <2>1, <2>6, <2>7 DEF IInv, TypeOK, Serving, Job
  <2>9. (ActiveAcked /\ SelectedIsLoaded /\ AcksHonoured /\ AuthsTyped)'
    BY <2>1 DEF IInv, ActiveAcked, SelectedIsLoaded, AcksHonoured, AuthsTyped
  <2>10. JobsHonest'
    <3> SUFFICES ASSUME NEW m \in Nodes, NEW x \in Workers
                 PROVE  /\ job'[m][x].retired \subseteq shared.retired
                        /\ job'[m][x].epoch =< shared.epoch
                        /\ job'[m][x].pc = "sync"
                             => /\ job'[m][x].loaded \subseteq ring[m].loaded \cup shared.retired
                                /\ ring[m].loaded \subseteq job'[m][x].loaded
                        /\ job'[m][x].pc = "publish" /\ job'[m][x].epoch = shared.epoch
                             => ring[m].loaded \cap shared.retired = {}
      BY <2>1 DEF JobsHonest
    <3>1. CASE m = n /\ x = w
      BY <2>3, <2>7, <3>1, NoJobTyped
    <3>2. CASE m # n \/ x # w
      BY <2>7, <3>2 DEF IInv, JobsHonest
    <3> QED
      BY <3>1, <3>2
  <2>11. ObservedPast'
    BY <2>1, <2>3, <2>4, <2>6 DEF IInv, ObservedPast
  <2>12. ServingDroppedRetired'
    <3> SUFFICES ASSUME NEW m \in Nodes, serving'[m].ready,
                        serving'[m].observed = observationFor
                 PROVE  ring[m].loaded \cap shared.retired = {}
      BY <2>1 DEF ServingDroppedRetired, observationFor
    <3>1. CASE m = n
      <4>1. observationFor.epoch = shared.epoch
        BY DEF observationFor
      <4> QED
        BY <2>4, <2>5, <2>6, <3>1, <4>1
    <3>2. CASE m # n
      BY <2>6, <3>2 DEF IInv, ServingDroppedRetired
    <3> QED
      BY <3>1, <3>2
  <2> QED
    BY <2>8, <2>9, <2>10, <2>11, <2>12 DEF IInv
<1> QED
  BY <1>1, <1>2, <1>3, <1>4, <1>5, <1>6, <1>7, <1>8, <1>9 DEF Reconcile

-----------------------------------------------------------------------------
(* The answer a finished authentication leaves behind.                     *)
LEMMA AuthAnswer ==
    ASSUME NEW n \in Nodes, NEW pc \in {"ok", "unknown"}
    PROVE  [NoAuth(n) EXCEPT !.pc = pc] \in Auth /\ [NoAuth(n) EXCEPT !.pc = pc].pc = pc
  BY DEF NoAuth, Auth

(* What IInv says of one request.                                          *)
LEMMA OneAuth ==
    ASSUME IInv, NEW r \in Requests
    PROVE  /\ auth[r] \in Auth /\ auth[r].node \in Nodes /\ auth[r].todo \in SUBSET Versions
           /\ auth[r].pc \in {"latest", "legacy", "migrate"} => auth[r].latest \in Versions
           /\ cred \in [pepper : Versions, revision : Nat] /\ cred.revision \in Nat
           /\ \A n \in Nodes : ring[n].loaded \in SUBSET Versions
                               /\ Latest(n) \in Versions
<1>1. auth \in [Requests -> Auth]
  BY DEF IInv, TypeOK, Auth
<1>2. auth[r] \in Auth
  BY <1>1
<1>3. auth[r].node \in Nodes /\ auth[r].todo \in SUBSET Versions
  BY <1>2 DEF Auth
<1>4. cred \in [pepper : Versions, revision : Nat] /\ ring \in [Nodes -> Ring]
  BY Types DEF IInv
<1>5. \A n \in Nodes : ring[n].loaded \in SUBSET Versions /\ Latest(n) \in Versions
  BY <1>4 DEF IInv, SelectedIsLoaded, Latest, Ring
<1>6. auth[r].pc \in {"latest", "legacy", "migrate"} => auth[r].latest \in Versions
  BY DEF IInv, AuthsTyped
<1> QED
  BY <1>2, <1>3, <1>4, <1>5, <1>6

(* The steps of a request keep IInv.                                       *)
LEMMA RequestStep ==
    ASSUME IInv, NEW r \in Requests,
           BeginAuth(r) \/ LookupLatest(r) \/ LookupLegacy(r) \/ MigrateVerifier(r)
    PROVE  IInv'
<1> DEFINE n == auth[r].node
<1>0. n \in Nodes /\ auth[r] \in Auth
  BY OneAuth
<1>1. CASE BeginAuth(r)
  <2>1. PICK m \in Nodes :
           SetAuth(r, [NoAuth(m) EXCEPT !.pc = "latest", !.latest = Latest(m)])
    BY <1>1 DEF BeginAuth
  <2>2. Latest(m) \in Versions
    BY OneAuth
  <2>3. /\ [NoAuth(m) EXCEPT !.pc = "latest", !.latest = Latest(m)] \in Auth
        /\ [NoAuth(m) EXCEPT !.pc = "latest", !.latest = Latest(m)].latest = Latest(m)
    BY <2>2 DEF NoAuth, Auth
  <2>4. UNCHANGED <<shared, acks, ring, serving, job, cred>>
    BY <1>1 DEF BeginAuth
  <2> QED
    BY <2>1, <2>2, <2>3, <2>4, AuthStep
<1>2. CASE LookupLatest(r)
  <2> DEFINE T == ring[n].loaded \ {Max(ring[n].loaded)}
             a == [auth[r] EXCEPT !.pc = "legacy", !.todo = T]
  <2>1. /\ UNCHANGED <<shared, acks, ring, serving, job, cred>>
        /\ auth[r].pc = "latest"
        /\ SetAuth(r, [NoAuth(n) EXCEPT !.pc = "ok"]) \/ SetAuth(r, a)
    BY <1>2 DEF LookupLatest
  <2>2. T \in SUBSET Versions /\ auth[r].latest \in Versions
    BY <1>0, <2>1, OneAuth
  <2> HIDE DEF T
  <2>3. a \in Auth /\ a.latest = auth[r].latest
    BY <1>0, <2>2 DEF Auth
  <2>4. CASE SetAuth(r, [NoAuth(n) EXCEPT !.pc = "ok"])
    BY <1>0, <2>1, <2>4, AuthAnswer, AuthStep
  <2> HIDE DEF a
  <2>5. CASE SetAuth(r, a)
    BY <2>1, <2>2, <2>3, <2>5, AuthStep
  <2> QED
    BY <2>1, <2>4, <2>5
<1>3. CASE LookupLegacy(r)
  <2> DEFINE v == Max(auth[r].todo)
             a == [auth[r] EXCEPT !.pc = "migrate", !.todo = {}, !.revision = cred.revision]
             b == [auth[r] EXCEPT !.todo = @ \ {v}]
  <2>1. /\ UNCHANGED <<shared, acks, ring, serving, job, cred>>
        /\ auth[r].pc = "legacy"
        /\ \/ SetAuth(r, [NoAuth(n) EXCEPT !.pc = "unknown"])
           \/ SetAuth(r, a)
           \/ SetAuth(r, b)
    BY <1>3 DEF LookupLegacy
  <2>2. /\ auth[r].latest \in Versions /\ auth[r].todo \in SUBSET Versions
        /\ cred.revision \in Nat
    BY <2>1, OneAuth
  <2>3. a \in Auth /\ a.latest = auth[r].latest
    BY <1>0, <2>2 DEF Auth
  <2> HIDE DEF v
  <2>4. b \in Auth /\ b.latest = auth[r].latest
    BY <1>0, <2>2 DEF Auth
  <2>5. CASE SetAuth(r, [NoAuth(n) EXCEPT !.pc = "unknown"])
    BY <1>0, <2>1, <2>5, AuthAnswer, AuthStep
  <2> HIDE DEF a, b
  <2>6. CASE SetAuth(r, a)
    BY <2>1, <2>2, <2>3, <2>6, AuthStep
  <2>7. CASE SetAuth(r, b)
    BY <2>1, <2>2, <2>4, <2>7, AuthStep
  <2> QED
    BY <2>1, <2>5, <2>6, <2>7
<1>4. CASE MigrateVerifier(r)
  <2>1. /\ UNCHANGED <<shared, acks, ring, serving, job>>
        /\ auth[r].pc = "migrate"
        /\ SetAuth(r, [NoAuth(n) EXCEPT !.pc = "ok"])
        /\ \/ cred' = [pepper |-> auth[r].latest, revision |-> cred.revision + 1]
           \/ UNCHANGED cred
    BY <1>4 DEF MigrateVerifier
  <2>2. /\ auth[r].latest \in Versions /\ cred.revision \in Nat
        /\ cred \in [pepper : Versions, revision : Nat]
    BY <2>1, OneAuth
  <2>3. cred.revision + 1 \in Nat
    BY <2>2
  <2>4. cred' \in [pepper : Versions, revision : Nat]
    BY <2>1, <2>2, <2>3
  <2>5. auth \in [Requests -> Auth]
    BY DEF IInv, TypeOK, Auth
  <2>6. /\ auth' \in [Requests -> Auth] /\ auth'[r].pc = "ok"
        /\ \A q \in Requests : q # r => auth'[q] = auth[q]
    BY <1>0, <2>1, <2>5, AuthAnswer DEF SetAuth
  <2>7. TypeOK'
    BY <2>1, <2>4, <2>6 DEF IInv, TypeOK, Auth
  <2>8. AuthsTyped'
    BY <2>6 DEF IInv, AuthsTyped
  <2>9. (ActiveAcked /\ SelectedIsLoaded /\ AcksHonoured /\ JobsHonest /\ ObservedPast)'
    BY <2>1 DEF IInv, ActiveAcked, SelectedIsLoaded, AcksHonoured, JobsHonest, ObservedPast
  <2>10. ServingDroppedRetired'
    BY <2>1 DEF IInv, ServingDroppedRetired, observationFor
  <2> QED
    BY <2>7, <2>8, <2>9, <2>10 DEF IInv
<1> QED
  BY <1>1, <1>2, <1>3, <1>4

(* Every step keeps IInv.                                                  *)
LEMMA NextIInv == IInv /\ [Next]_vars => IInv'
<1> SUFFICES ASSUME IInv, [Next]_vars PROVE IInv'
  OBVIOUS
<1>1. CASE UNCHANGED vars
  BY <1>1 DEF vars, IInv, TypeOK, ActiveAcked, SelectedIsLoaded, AcksHonoured, JobsHonest,
              ObservedPast, ServingDroppedRetired, observationFor, AuthsTyped
<1>2. CASE Next
  BY <1>2, ActivateStep, RetireStep, ReconcileStep, RequestStep DEF Next
<1> QED
  BY <1>1, <1>2

-----------------------------------------------------------------------------
(* The inductive invariant holds in every reachable state.                 *)
THEOREM Invariance == Spec => []IInv
  BY InitIInv, NextIInv, PTL DEF Spec

(* The authority, the nodes and the requests keep their types.             *)
THEOREM TypeCorrect == Spec => []TypeOK
<1>1. IInv => TypeOK
  BY DEF IInv
<1> QED
  BY <1>1, Invariance, PTL

(* The active generation stays usable on every node: it is never retired,  *)
(* and no reconciliation, however late, drops it from a ring.              *)
THEOREM ActiveStaysUsable == Spec => []ActiveIsUsable
<1>1. IInv => ActiveIsUsable
  BY DEF IInv, ActiveAcked, AcksHonoured, ActiveIsUsable
<1> QED
  BY <1>1, Invariance, PTL

(* An acknowledgement is honoured until the authority retires the          *)
(* generation, whichever of a node's two reconciliations gave it.          *)
THEOREM AcknowledgementsHonoured == Spec => []AcksHonoured
<1>1. IInv => AcksHonoured
  BY DEF IInv
<1> QED
  BY <1>1, Invariance, PTL

(* A node that serves under the current epoch holds no retired generation. *)
THEOREM ServingIsClean == Spec => []ServingDroppedRetired
<1>1. IInv => ServingDroppedRetired
  BY DEF IInv
<1> QED
  BY <1>1, Invariance, PTL

-----------------------------------------------------------------------------
(***************************************************************************)
(* AssertionVerifier.                                                      *)
(***************************************************************************)
Seen == [credRev : Nat, epoch : Nat]

CallState ==
    {Idle} \cup [pc : {"revision", "epoch", "replay"}, tok : Tokens, from : Seen]
           \cup [pc : {"claim"}, tok : Tokens, from : Seen, now : Nat]

VerifierTypeOK ==
    /\ clock \in Nat /\ credRev \in Nat /\ epoch \in Nat /\ calls \in Nat
    /\ guard \in Guards
    /\ keys \subseteq Keys
    /\ table \subseteq Tokens
    /\ call \in [Calls -> CallState]
    /\ accepted \subseteq [tok : Tokens, by : Calls \X Nat, at : Nat, from : Seen]

(* The time a guard compares expiries with is never ahead of the clock.    *)
ReadInPast == \A c \in Calls : call[c].pc = "claim" => call[c].now <= clock

(* The claim of an accepted assertion is in the table until it expires,    *)
(* whichever guard removes expired claims.                                 *)
ClaimKept == \A a \in accepted : clock < a.tok.exp => a.tok \in table

(* Of two acceptances of one assertion at least one came too late.         *)
OneInTime ==
    \A a, b \in accepted : a.tok = b.tok /\ a.at < a.tok.exp /\ b.at < b.tok.exp => a = b

AcceptedInPast == \A a \in accepted : a.at <= clock

(* What a verification in progress has established: the authorities only   *)
(* move on, and a lookup that passed bounds what was current on arrival.   *)
LookupsHold ==
    \A c \in Calls :
        /\ call[c].pc # "idle" => call[c].from.credRev <= credRev /\ call[c].from.epoch <= epoch
        /\ call[c].pc \in {"epoch", "replay", "claim"} => call[c].from.credRev <= call[c].tok.credRev
        /\ call[c].pc \in {"replay", "claim"} => call[c].from.epoch <= call[c].tok.policyEpoch

VerifierInv ==
    VerifierTypeOK /\ ReadInPast /\ ClaimKept /\ OneInTime /\ AcceptedInPast /\ LookupsHold /\ AcceptedWasCurrent

-----------------------------------------------------------------------------
LEMMA TokenTypes ==
    ASSUME NEW t \in Tokens
    PROVE  t.exp \in Int /\ t.credRev \in Nat /\ t.policyEpoch \in Nat
  BY VerifierAssumption

LEMMA InitVerifierInv == VerifierInit => VerifierInv
  <1> SUFFICES ASSUME VerifierInit PROVE VerifierInv
    OBVIOUS
  <1>1. VerifierTypeOK
    BY DEF VerifierInit, VerifierTypeOK, CallState
  <1>2. \A c \in Calls : call[c].pc = "idle"
    BY DEF VerifierInit, Idle
  <1>3. accepted = {}
    BY DEF VerifierInit
  <1> QED
    BY <1>1, <1>2, <1>3 DEF VerifierInv, ReadInPast, ClaimKept, OneInTime, AcceptedInPast, LookupsHold,
                            AcceptedWasCurrent

(* Steps that change no verification and no claim: time and the            *)
(* authorities only move forward.                                          *)
LEMMA SurroundingsMove ==
    ASSUME VerifierInv,
           clock' \in Nat /\ clock' >= clock,
           credRev' \in Nat /\ credRev' >= credRev,
           epoch' \in Nat /\ epoch' >= epoch,
           keys' \subseteq Keys,
           UNCHANGED <<guard, table, call, calls, accepted>>
    PROVE  VerifierInv'
  <1> USE DEF VerifierInv
  <1>1. VerifierTypeOK'
    BY DEF VerifierTypeOK
  <1>2. ReadInPast'
    <2> SUFFICES ASSUME NEW c \in Calls, call[c].pc = "claim"
                 PROVE  call[c].now <= clock'
      BY DEF ReadInPast
    <2>1. call[c].now \in Nat
      BY DEF VerifierTypeOK, CallState, Idle
    <2> QED
      BY <2>1 DEF ReadInPast, VerifierTypeOK
  <1>3. ClaimKept' /\ AcceptedInPast'
    <2> SUFFICES ASSUME NEW a \in accepted
                 PROVE  /\ clock' < a.tok.exp => a.tok \in table
                        /\ a.at <= clock'
      BY DEF ClaimKept, AcceptedInPast
    <2>1. a.tok.exp \in Int /\ a.at \in Nat
      BY TokenTypes DEF VerifierTypeOK
    <2> QED
      BY <2>1 DEF ClaimKept, AcceptedInPast, VerifierTypeOK
  <1>4. OneInTime' /\ AcceptedWasCurrent'
    BY DEF OneInTime, AcceptedWasCurrent
  <1>5. LookupsHold'
    <2> SUFFICES ASSUME NEW c \in Calls
                 PROVE  call[c].pc # "idle" => call[c].from.credRev <= credRev' /\ call[c].from.epoch <= epoch'
      BY DEF LookupsHold
    <2>1. call[c].pc # "idle" => call[c].from \in Seen
      BY DEF VerifierTypeOK, CallState, Idle
    <2> QED
      BY <2>1 DEF LookupsHold, VerifierTypeOK, Seen
  <1> QED
    BY <1>1, <1>2, <1>3, <1>4, <1>5

(* A step of one verification that claims nothing.                         *)
LEMMA CallMoves ==
    ASSUME VerifierInv, NEW c \in Calls, NEW x \in CallState,
           call' = [call EXCEPT ![c] = x],
           calls' \in Nat,
           UNCHANGED <<clock, guard, keys, credRev, epoch, table, accepted>>,
           x.pc = "claim" => x.now <= clock,
           x.pc # "idle" => x.from.credRev <= credRev /\ x.from.epoch <= epoch,
           x.pc \in {"epoch", "replay", "claim"} => x.from.credRev <= x.tok.credRev,
           x.pc \in {"replay", "claim"} => x.from.epoch <= x.tok.policyEpoch
    PROVE  VerifierInv'
  <1> USE DEF VerifierInv
  <1>1. VerifierTypeOK'
    BY DEF VerifierTypeOK
  <1>2. \A d \in Calls : call'[d] = IF d = c THEN x ELSE call[d]
    BY DEF VerifierTypeOK
  <1>3. ReadInPast'
    BY <1>2 DEF ReadInPast
  <1>4. LookupsHold'
    BY <1>2 DEF LookupsHold
  <1>5. ClaimKept' /\ AcceptedInPast' /\ OneInTime' /\ AcceptedWasCurrent'
    BY DEF ClaimKept, AcceptedInPast, OneInTime, AcceptedWasCurrent
  <1> QED
    BY <1>1, <1>3, <1>4, <1>5

LEMMA IdleState == Idle \in CallState /\ Idle.pc = "idle"
  BY DEF Idle, CallState

(* A verification in progress, taken apart.                                *)
LEMMA InProgress ==
    ASSUME VerifierInv, NEW c \in Calls, call[c].pc # "idle"
    PROVE  /\ call[c].tok \in Tokens /\ call[c].from \in Seen
           /\ call[c].from.credRev \in Nat /\ call[c].from.epoch \in Nat
           /\ call[c].from.credRev <= credRev /\ call[c].from.epoch <= epoch
           /\ call[c].pc # "claim" =>
                /\ call[c] \in [pc : {"revision", "epoch", "replay"}, tok : Tokens, from : Seen]
                /\ \A p \in {"revision", "epoch", "replay"} :
                      [call[c] EXCEPT !.pc = p] = [pc |-> p, tok |-> call[c].tok, from |-> call[c].from]
           /\ call[c].pc = "claim" => call[c].now \in Nat /\ call[c].now <= clock
  <1>1. call[c] \in [pc : {"revision", "epoch", "replay"}, tok : Tokens, from : Seen]
                    \cup [pc : {"claim"}, tok : Tokens, from : Seen, now : Nat]
    BY DEF VerifierInv, VerifierTypeOK, CallState, Idle
  <1>2. call[c].pc # "claim" =>
           call[c] \in [pc : {"revision", "epoch", "replay"}, tok : Tokens, from : Seen]
    BY <1>1
  <1>3. call[c].tok \in Tokens /\ call[c].from \in Seen
    BY <1>1
  <1>4. call[c].pc = "claim" => call[c].now \in Nat /\ call[c].now <= clock
    BY <1>1 DEF VerifierInv, ReadInPast
  <1>5. call[c].from.credRev <= credRev /\ call[c].from.epoch <= epoch
    BY DEF VerifierInv, LookupsHold
  <1>6. ASSUME call[c].pc # "claim", NEW p \in {"revision", "epoch", "replay"}
        PROVE  [call[c] EXCEPT !.pc = p] = [pc |-> p, tok |-> call[c].tok, from |-> call[c].from]
    BY <1>2, <1>6
  <1> QED
    BY <1>2, <1>3, <1>4, <1>5, <1>6 DEF Seen

LEMMA RejectMoves ==
    ASSUME VerifierInv, NEW c \in Calls, Reject(c),
           UNCHANGED <<clock, guard, keys, credRev, epoch, table, calls, accepted>>
    PROVE  VerifierInv'
  <1>1. call' = [call EXCEPT ![c] = Idle] /\ calls' \in Nat
    BY DEF Reject, VerifierInv, VerifierTypeOK
  <1> QED
    BY <1>1, IdleState, CallMoves

(* The claim: a claim in force rejects, so the first acceptance is the     *)
(* only one until the assertion has expired.                               *)
LEMMA AcceptStep ==
    ASSUME VerifierInv, NEW c \in Calls, Accept(c)
    PROVE  VerifierInv'
  <1> DEFINE t == call[c].tok
             now == call[c].now
             new == [tok |-> t, by |-> <<c, calls>>, at |-> clock, from |-> call[c].from]
  <1>1. call[c].pc = "claim"
    BY DEF Accept
  <1>2. /\ t \in Tokens /\ now \in Nat /\ now <= clock /\ call[c].from \in Seen
        /\ clock \in Nat /\ calls \in Nat
    BY <1>1, InProgress DEF VerifierInv, VerifierTypeOK
  <1>3. t.exp \in Int
    BY <1>2, TokenTypes
  <1>4. /\ call' = [call EXCEPT ![c] = Idle]
        /\ UNCHANGED <<clock, guard, keys, credRev, epoch, calls>>
    BY DEF Accept, Reject
  <1>5. table' \subseteq Tokens /\ \A u \in table : clock < u.exp => u \in table'
    <2> SUFFICES table' \in {table, Live(table, now), Live(table, now) \cup {t}, table \cup {t}}
      <3>1. table \subseteq Tokens
        BY DEF VerifierInv, VerifierTypeOK
      <3>2. ASSUME NEW u \in table, clock < u.exp PROVE u \in Live(table, now)
        <4>1. u.exp \in Int
          BY <3>1, TokenTypes
        <4> QED
          BY <4>1, <3>2, <1>2 DEF Live
      <3> HIDE DEF t, now
      <3> QED
        BY <3>1, <3>2, <1>2 DEF Live
    <2> QED
      BY DEF Accept, AcceptMemory, AcceptPostgres
  <1>6. \/ accepted' = accepted
        \/ /\ accepted' = accepted \cup {new}
           /\ t \in table'
           /\ clock < t.exp => t \notin table
    <2>1. CASE UNCHANGED accepted
      BY <2>1
    <2>2. CASE /\ IF guard = "memory" THEN AcceptMemory(t, now) ELSE AcceptPostgres(t, now)
               /\ accepted' = accepted \cup {new}
      <3>1. t \in table' /\ (t \in table => ~(now < t.exp))
        BY <2>2, <1>2, <1>3 DEF AcceptMemory, AcceptPostgres, Live
      <3> HIDE DEF t, now
      <3> QED
        BY <2>2, <3>1, <1>2, <1>3
    <2> QED
      BY <2>1, <2>2 DEF Accept
  <1>7. /\ new \in [tok : Tokens, by : Calls \X Nat, at : Nat, from : Seen]
        /\ new.tok = t /\ new.at = clock /\ new.from = call[c].from
    BY <1>2
  <1>8. call[c].from.credRev <= t.credRev /\ call[c].from.epoch <= t.policyEpoch
    BY <1>1 DEF VerifierInv, LookupsHold
  <1> HIDE DEF t, now, new
  <1>9. VerifierTypeOK'
    BY <1>4, <1>5, <1>6, <1>7, IdleState DEF VerifierInv, VerifierTypeOK
  <1>10. \A d \in Calls : call'[d] = IF d = c THEN Idle ELSE call[d]
    BY <1>4 DEF VerifierInv, VerifierTypeOK
  <1>11. ReadInPast' /\ LookupsHold'
    BY <1>4, <1>10, IdleState DEF VerifierInv, ReadInPast, LookupsHold
  <1>12. ClaimKept'
    <2> SUFFICES ASSUME NEW a \in accepted', clock < a.tok.exp PROVE a.tok \in table'
      BY <1>4 DEF ClaimKept
    <2> QED
      BY <1>5, <1>6, <1>7 DEF VerifierInv, ClaimKept
  <1>13. AcceptedInPast'
    BY <1>2, <1>4, <1>6, <1>7 DEF VerifierInv, AcceptedInPast
  <1>14. OneInTime'
    <2> SUFFICES ASSUME NEW a \in accepted', NEW b \in accepted',
                        a.tok = b.tok, a.at < a.tok.exp, b.at < b.tok.exp
                 PROVE  a = b
      BY DEF OneInTime
    <2>1. CASE a \in accepted /\ b \in accepted
      BY <2>1 DEF VerifierInv, OneInTime
    <2>2. ASSUME NEW x \in accepted, x.tok = t, new.at < t.exp,
                 accepted' # accepted
          PROVE  FALSE
      <3>1. clock < t.exp
        BY <2>2, <1>7
      <3>2. t \in table
        BY <2>2, <3>1 DEF VerifierInv, ClaimKept
      <3> QED
        BY <1>6, <2>2, <3>1, <3>2
    <2>3. CASE a \notin accepted \/ b \notin accepted
      <3>1. accepted' = accepted \cup {new}
        BY <2>3, <1>6
      <3> QED
        BY <2>2, <2>3, <3>1, <1>7
    <2> QED
      BY <2>1, <2>3
  <1>15. AcceptedWasCurrent'
    BY <1>6, <1>7, <1>8 DEF VerifierInv, AcceptedWasCurrent
  <1> QED
    BY <1>9, <1>11, <1>12, <1>13, <1>14, <1>15 DEF VerifierInv

LEMMA NextVerifierInv == VerifierInv /\ [VerifierNext]_verifierVars => VerifierInv'
  <1> SUFFICES ASSUME VerifierInv, [VerifierNext]_verifierVars PROVE VerifierInv'
    OBVIOUS
  <1>0. clock \in Nat /\ credRev \in Nat /\ epoch \in Nat /\ calls \in Nat /\ keys \subseteq Keys
    BY DEF VerifierInv, VerifierTypeOK
  <1>1. CASE Tick
    BY <1>0, <1>1, SurroundingsMove DEF Tick
  <1>2. CASE AuthorityMoves
    BY <1>0, <1>2, SurroundingsMove DEF AuthorityMoves
  <1>3. CASE \E k \in Keys : PublishKey(k) \/ RetireKey(k)
    <2>1. PICK k \in Keys : PublishKey(k) \/ RetireKey(k)
      BY <1>3
    <2> QED
      BY <1>0, <2>1, SurroundingsMove DEF PublishKey, RetireKey
  <1>4. CASE CleanupExpired
    <2>1. /\ table' \subseteq table
          /\ \A u \in table : ~(u.exp <= clock) => u \in table'
          /\ UNCHANGED <<clock, guard, keys, credRev, epoch, call, calls, accepted>>
      BY <1>4 DEF CleanupExpired
    <2>2. VerifierTypeOK'
      BY <2>1 DEF VerifierInv, VerifierTypeOK
    <2>3. ClaimKept'
      <3> SUFFICES ASSUME NEW a \in accepted, clock < a.tok.exp PROVE a.tok \in table'
        BY <2>1 DEF ClaimKept
      <3>1. a.tok \in table /\ a.tok.exp \in Int
        BY TokenTypes DEF VerifierInv, ClaimKept, VerifierTypeOK
      <3> QED
        BY <1>0, <2>1, <3>1
    <2> QED
      BY <2>1, <2>2, <2>3 DEF VerifierInv, ReadInPast, AcceptedInPast, OneInTime, LookupsHold, AcceptedWasCurrent
  <1>5. ASSUME NEW c \in Calls, NEW t \in Tokens, NEW peer \in Peers, Receive(c, t, peer)
        PROVE  VerifierInv'
    <2> DEFINE x == [pc |-> "revision", tok |-> t, from |-> [credRev |-> credRev, epoch |-> epoch]]
    <2>1. x \in CallState /\ x.pc = "revision" /\ x.from.credRev = credRev /\ x.from.epoch = epoch
      BY <1>0 DEF CallState, Seen
    <2>2. /\ call' = [call EXCEPT ![c] = x] /\ calls' = calls + 1
          /\ UNCHANGED <<clock, guard, keys, credRev, epoch, table, accepted>>
      BY <1>5 DEF Receive
    <2> HIDE DEF x
    <2>3. calls' \in Nat
      BY <1>0, <2>2
    <2>4. /\ x.pc \notin {"epoch", "replay", "claim"}
          /\ x.from.credRev <= credRev /\ x.from.epoch <= epoch
      BY <1>0, <2>1
    <2> QED
      BY <2>1, <2>2, <2>3, <2>4, CallMoves
  <1>6. ASSUME NEW c \in Calls, CheckRevision(c)
        PROVE  VerifierInv'
    <2>1. /\ call[c].pc = "revision"
          /\ UNCHANGED <<clock, guard, keys, credRev, epoch, table, calls, accepted>>
      BY <1>6 DEF CheckRevision
    <2>2. CASE Reject(c)
      BY <2>1, <2>2, RejectMoves
    <2>3. CASE Advance(c, "epoch") /\ call[c].tok.credRev = credRev
      <3> DEFINE x == [pc |-> "epoch", tok |-> call[c].tok, from |-> call[c].from]
      <3>1. call[c].tok \in Tokens /\ call[c].from \in Seen
            /\ call[c].from.credRev <= credRev /\ call[c].from.epoch <= epoch
            /\ [call[c] EXCEPT !.pc = "epoch"] = x
        BY <2>1, InProgress
      <3>2. call' = [call EXCEPT ![c] = x]
        BY <2>3, <3>1 DEF Advance
      <3>3. x \in CallState /\ x.pc = "epoch" /\ x.tok = call[c].tok /\ x.from = call[c].from
        BY <3>1 DEF CallState
      <3> HIDE DEF x
      <3>4. x.from.credRev <= x.tok.credRev
        BY <2>3, <3>1, <3>3
      <3> QED
        BY <1>0, <2>1, <3>1, <3>2, <3>3, <3>4, CallMoves
    <2> QED
      BY <1>6, <2>2, <2>3 DEF CheckRevision
  <1>7. ASSUME NEW c \in Calls, CheckEpoch(c)
        PROVE  VerifierInv'
    <2>1. /\ call[c].pc = "epoch"
          /\ UNCHANGED <<clock, guard, keys, credRev, epoch, table, calls, accepted>>
      BY <1>7 DEF CheckEpoch
    <2>2. CASE Reject(c)
      BY <2>1, <2>2, RejectMoves
    <2>3. CASE Advance(c, "replay") /\ call[c].tok.policyEpoch = epoch
      <3> DEFINE x == [pc |-> "replay", tok |-> call[c].tok, from |-> call[c].from]
      <3>1. call[c].tok \in Tokens /\ call[c].from \in Seen
            /\ call[c].from.credRev <= credRev /\ call[c].from.epoch <= epoch
            /\ [call[c] EXCEPT !.pc = "replay"] = x
        BY <2>1, InProgress
      <3>2. call' = [call EXCEPT ![c] = x]
        BY <2>3, <3>1 DEF Advance
      <3>3. x \in CallState /\ x.pc = "replay" /\ x.tok = call[c].tok /\ x.from = call[c].from
        BY <3>1 DEF CallState
      <3> HIDE DEF x
      <3>4. x.from.credRev <= x.tok.credRev /\ x.from.epoch <= x.tok.policyEpoch
        BY <2>1, <2>3, <3>1, <3>3 DEF VerifierInv, LookupsHold
      <3> QED
        BY <1>0, <2>1, <3>1, <3>2, <3>3, <3>4, CallMoves
    <2> QED
      BY <1>7, <2>2, <2>3 DEF CheckEpoch
  <1>8. ASSUME NEW c \in Calls, ReadNow(c)
        PROVE  VerifierInv'
    <2>1. /\ call[c].pc = "replay"
          /\ UNCHANGED <<clock, guard, keys, credRev, epoch, table, calls, accepted>>
      BY <1>8 DEF ReadNow
    <2> DEFINE x == [pc |-> "claim", tok |-> call[c].tok, from |-> call[c].from, now |-> clock]
    <2>2. CASE Reject(c)
      BY <2>1, <2>2, RejectMoves
    <2>3. CASE call' = [call EXCEPT ![c] = x]
      <3>1. /\ call[c].tok \in Tokens /\ call[c].from \in Seen
            /\ call[c].from.credRev <= credRev /\ call[c].from.epoch <= epoch
        BY <2>1, InProgress
      <3>2. /\ x \in CallState /\ x.pc = "claim" /\ x.now = clock
            /\ x.tok = call[c].tok /\ x.from = call[c].from
        BY <1>0, <3>1 DEF CallState
      <3> HIDE DEF x
      <3>3. x.from.credRev <= x.tok.credRev /\ x.from.epoch <= x.tok.policyEpoch
        BY <2>1, <3>2 DEF VerifierInv, LookupsHold
      <3>4. x.now <= clock /\ calls' \in Nat /\ x.from.credRev <= credRev /\ x.from.epoch <= epoch
        BY <1>0, <2>1, <3>1, <3>2
      <3> QED
        BY <2>1, <2>3, <3>2, <3>3, <3>4, CallMoves
    <2> QED
      BY <1>8, <2>2, <2>3 DEF ReadNow
  <1>9. CASE UNCHANGED verifierVars
    BY <1>0, <1>9, SurroundingsMove DEF verifierVars
  <1> QED
    BY <1>1, <1>2, <1>3, <1>4, <1>5, <1>6, <1>7, <1>8, <1>9, AcceptStep DEF VerifierNext

-----------------------------------------------------------------------------
(* The inductive invariant holds of every verifier: what the clock reads,  *)
(* the lookups and the claim table establish is never lost.                *)
THEOREM VerifierInvariance == VerifierSpec => []VerifierInv
  BY InitVerifierInv, NextVerifierInv, PTL DEF VerifierSpec

(* Type correctness of the verifications, the claims and the history.      *)
THEOREM VerifierTypeCorrect == VerifierSpec => []VerifierTypeOK
  <1>1. VerifierInv => VerifierTypeOK
    BY DEF VerifierInv
  <1> QED
    BY <1>1, VerifierInvariance, PTL

(* Until it expires an assertion is accepted once: for any number of       *)
(* verifications on any number of processes, a table of any capacity, any  *)
(* clock offsets, and whenever expired claims are removed                  *)
(* (MemoryReplayGuard.Accept, PostgresGuard.Accept, CleanupExpired).       *)
THEOREM AcceptedOnce == VerifierSpec => []OncePerAssertion
  <1>1. ASSUME VerifierInv PROVE OncePerAssertion
    <2> SUFFICES ASSUME NEW t \in Tokens
                 PROVE  Cardinality({a \in accepted : a.tok = t /\ a.at < t.exp}) <= 1
      BY DEF OncePerAssertion
    <2> DEFINE S == {a \in accepted : a.tok = t /\ a.at < t.exp}
    <2>1. \A a, b \in S : a = b
      BY <1>1 DEF VerifierInv, OneInTime
    <2>2. CASE S = {}
      BY <2>2, FS_EmptySet
    <2>3. CASE S # {}
      <3>1. PICK a \in S : TRUE
        BY <2>3
      <3>2. S = {a}
        <4> HIDE DEF S
        <4> QED
          BY <2>1, <3>1
      <3>3. Cardinality(S) = 1
        BY <3>2, FS_Singleton, Zenon
      <3> QED
        BY <3>3
    <2> QED
      BY <2>2, <2>3
  <1> QED
    BY <1>1, VerifierInvariance, PTL

(* Nothing is accepted that was superseded when its request arrived,       *)
(* however long the two lookups and the claim take and whatever the        *)
(* authorities do meanwhile (verifyEncodedContext).                        *)
THEOREM AcceptedCurrent == VerifierSpec => []AcceptedWasCurrent
  <1>1. VerifierInv => AcceptedWasCurrent
    BY DEF VerifierInv
  <1> QED
    BY <1>1, VerifierInvariance, PTL
=============================================================================
