------------------------- MODULE SignerRotationProofs -------------------------
(***************************************************************************)
(* Proofs about SignerRotation, for every set of nodes and keys: what a    *)
(* node in service signs with, and that the assertions it issues can be    *)
(* verified for as long as they live.                                      *)
(*                                                                         *)
(* The invariant of a node is stated about the values of its variables and *)
(* of the shared ones, so that a step of one node is shown to preserve it  *)
(* for itself and for the others separately.                               *)
(***************************************************************************)
EXTENDS SignerRotation, TLAPS

Keyring == [active : Keys, pending : Keys \cup {NoKey}, verifiers : SUBSET Keys]

Process ==
    [up : BOOLEAN, starts : Nat, ring : Keyring, ready : BOOLEAN, observed : Nat, lag : Nat]

Job ==
    [pc : {"idle", "load", "apply", "save", "retire", "drop", "sync", "publish", "activate", "withdraw", "exit"},
     why : {"loop", "boot", "reboot"}, key : Keys \cup {NoKey}, active : Keys \cup {NoKey},
     retired : SUBSET Keys, loaded : SUBSET Keys, epoch : Nat]

Shared == [active : Keys, epoch : Nat]

Generations == [recorded : SUBSET Keys, retired : SUBSET Keys, after : [Keys -> Nat]]

TypeOK ==
    /\ clock \in Nat
    /\ shared \in Shared
    /\ gens \in Generations
    /\ acks \in [Nodes -> SUBSET Keys]
    /\ live \in [Nodes -> BOOLEAN]
    /\ file \in [Nodes -> Keyring]
    /\ mem \in [Nodes -> Process]
    /\ job \in [Nodes -> [Workers -> Job]]
    /\ backend \subseteq Keys
    /\ issued \in [Keys -> Nat]

OnePerKid(S) == \A k, l \in S : k.kid = l.kid => k = l

(* The highest kid of a keyring; it does not change while a process runs.  *)
Top(ring) == IF ring.pending = NoKey THEN ring.active.kid ELSE ring.pending.kid

Sound(ring) ==
    /\ ring.active \in ring.verifiers
    /\ ring.pending # NoKey => ring.pending \in ring.verifiers /\ ring.pending.kid > ring.active.kid
    /\ OnePerKid(ring.verifiers)
    /\ \A v \in ring.verifiers : v.kid <= Top(ring)

(* The authority selects a key that it recorded and did not retire, and    *)
(* that the backend has.                                                   *)
AuthorityInv ==
    /\ OnePerKid(gens.recorded)
    /\ gens.retired \subseteq gens.recorded
    /\ shared.active \in gens.recorded \ gens.retired
    /\ shared.active \in backend

(* Keyrings never run ahead of the authority s; a file f is at most one    *)
(* activation ahead of its process p.                                      *)
RingInv(s, f, p) ==
    /\ Sound(f) /\ f.active.kid <= s.active.kid
    /\ Sound(p.ring)
    /\ p.up => p.ring.active.kid <= s.active.kid /\ f.active \in {p.ring.active, p.ring.pending}

(* What a node acknowledged, a, is recorded and includes the selected key, *)
(* and the barrier keeps it so.                                            *)
AckInv(s, g, a, l, p) ==
    /\ p.up => l
    /\ a \subseteq g.recorded
    /\ a # {} => l /\ s.active \in a
    /\ p.up /\ a # {} => p.ring.verifiers \subseteq g.recorded /\ \A k \in a : k.kid <= Top(p.ring)

Selected(s, f, p) == p.ring.active = s.active /\ f.active = s.active

(* What a reconciliation or an admin call j read is still good enough for  *)
(* what it will do with it.                                                *)
JobInv(s, g, b, a, f, p, j) ==
    /\ j.pc # "idle" => p.up
    /\ j.retired \subseteq g.retired
    /\ j.pc \in {"apply", "withdraw"} => j.active # NoKey /\ j.active.kid <= s.active.kid
    /\ j.pc = "withdraw" => j.key \in g.retired
    /\ j.pc = "save" => j.key # NoKey /\ j.key.kid <= s.active.kid
    /\ j.pc = "activate" => j.key \in b \cup g.retired /\ j.key.kid = Top(p.ring)
    /\ j.pc = "sync" => /\ p.ring.verifiers \subseteq j.loaded /\ OnePerKid(j.loaded)
                        /\ \A k \in j.loaded : k.kid <= Top(p.ring)
                        /\ j.active # NoKey /\ j.active.kid <= p.ring.active.kid
    /\ j.pc = "publish" => a # {} /\ j.epoch <= s.epoch /\ (j.epoch = s.epoch => Selected(s, f, p))

(* A node that serves, or will after its next step.                        *)
Signing(p, J) == p.ready \/ \E w \in Workers : J[w].pc = "publish"

(* It signs with the selected key, or with one that was superseded so      *)
(* recently that its assertions expire before the key may be retired.      *)
SignInv(c, s, g, b, a, f, p, J) ==
    /\ p.observed <= s.epoch /\ p.lag <= WatchLag
    /\ p.ready => p.up /\ a # {}
    /\ p.ready /\ p.observed = s.epoch => Selected(s, f, p)
    /\ Signing(p, J) =>
          /\ p.ring.active \in b \ g.retired
          /\ p.ring.active # s.active => c + Horizon <= g.after[p.ring.active] + p.lag

(* The invariant of a node.                                                *)
NodeInv(c, s, g, b, a, l, f, p, J) ==
    /\ RingInv(s, f, p)
    /\ AckInv(s, g, a, l, p)
    /\ \A w \in Workers : JobInv(s, g, b, a, f, p, J[w])
    /\ SignInv(c, s, g, b, a, f, p, J)

NodesInv ==
    \A n \in Nodes : NodeInv(clock, shared, gens, backend, acks[n], live[n], file[n], mem[n], job[n])

(* A key with which a live assertion was signed is at the backend, and may *)
(* not be retired before the assertion expires.                            *)
IssuedInv ==
    \A k \in Keys :
        /\ issued[k] <= clock + TTL
        /\ clock < issued[k] => /\ k \in backend \ gens.retired
                                /\ k = shared.active \/ issued[k] <= gens.after[k]

(* The inductive invariant.                                                *)
IInv == TypeOK /\ AuthorityInv /\ NodesInv /\ IssuedInv

-----------------------------------------------------------------------------
(* The constants.                                                          *)
LEMMA Constants ==
    /\ NoKey \notin Keys /\ FirstKey \in Keys /\ \A k \in Keys : k.kid \in Nat /\ k # NoKey
    /\ TTL \in Nat /\ Skew \in Nat /\ WatchLag \in Nat /\ WatchLag <= Skew /\ TTL > 0
    /\ Horizon \in Nat /\ Horizon = TTL + Skew
<1>1. TTL \in Nat /\ Skew \in Nat /\ WatchLag \in Nat
  BY SignerAssumption
<1>2. NoKey \notin Keys /\ FirstKey \in Keys /\ \A k \in Keys : k.kid \in Nat
  BY SignerAssumption
<1>3. WatchLag <= Skew /\ TTL > 0
  BY SignerAssumption
<1> QED
  BY <1>1, <1>2, <1>3 DEF Horizon

-----------------------------------------------------------------------------
(***************************************************************************)
(* What a change of the shared state means for a node that does not move.  *)
(***************************************************************************)
LEMMA SharedStep ==
    ASSUME NEW c \in Nat, NEW s \in Shared, NEW g \in Generations, NEW b \in SUBSET Keys,
           NEW a \in SUBSET Keys, NEW l \in BOOLEAN, NEW f \in Keyring, NEW p \in Process,
           NEW J \in [Workers -> Job],
           NodeInv(c, s, g, b, a, l, f, p, J),
           NEW s2 \in Shared, NEW g2 \in Generations, NEW b2 \in SUBSET Keys,
           s.active.kid <= s2.active.kid, s.epoch <= s2.epoch,
           s2.epoch = s.epoch => s2.active = s.active,
           g.recorded \subseteq g2.recorded, g.retired \subseteq g2.retired,
           b \subseteq b2 \cup g2.retired,
           a # {} => s2.active \in a,
           Signing(p, J) =>
              /\ p.ring.active \in b2 \ g2.retired
              /\ p.ring.active # s2.active => c + Horizon <= g2.after[p.ring.active] + p.lag
    PROVE  NodeInv(c, s2, g2, b2, a, l, f, p, J)
<1>1. /\ s.active.kid \in Nat /\ s2.active.kid \in Nat /\ s.epoch \in Nat /\ s2.epoch \in Nat
      /\ f.active.kid \in Nat /\ p.ring.active.kid \in Nat /\ p.observed \in Nat
  BY Constants DEF Shared, Keyring, Process
<1>2. \A w \in Workers : /\ J[w].epoch \in Nat
                         /\ J[w].key # NoKey => J[w].key.kid \in Nat
                         /\ J[w].active # NoKey => J[w].active.kid \in Nat
  BY Constants DEF Job
<1>3. RingInv(s2, f, p)
  BY <1>1 DEF NodeInv, RingInv
<1>4. AckInv(s2, g2, a, l, p)
  BY DEF NodeInv, AckInv
<1>5. ASSUME NEW w \in Workers PROVE JobInv(s2, g2, b2, a, f, p, J[w])
  <2> DEFINE j == J[w]
  <2>1. JobInv(s, g, b, a, f, p, j)
    BY DEF NodeInv
  <2>2. /\ j.epoch \in Nat
        /\ j.key # NoKey => j.key.kid \in Nat
        /\ j.active # NoKey => j.active.kid \in Nat
    BY <1>2
  <2> HIDE DEF j
  <2>3. /\ j.pc # "idle" => p.up
        /\ j.retired \subseteq g2.retired
        /\ j.pc = "withdraw" => j.key \in g2.retired
        /\ j.pc = "activate" => j.key \in b2 \cup g2.retired /\ j.key.kid = Top(p.ring)
    BY <2>1 DEF JobInv
  <2>4. /\ j.pc \in {"apply", "withdraw"} => j.active # NoKey /\ j.active.kid <= s2.active.kid
        /\ j.pc = "save" => j.key # NoKey /\ j.key.kid <= s2.active.kid
    BY <1>1, <2>1, <2>2 DEF JobInv
  <2>5. j.pc = "publish" => a # {} /\ j.epoch <= s2.epoch /\ (j.epoch = s2.epoch => Selected(s2, f, p))
    <3>1. j.pc = "publish" => a # {} /\ j.epoch <= s.epoch /\ (j.epoch = s.epoch => Selected(s, f, p))
      BY <2>1 DEF JobInv
    <3> QED
      BY <1>1, <2>2, <3>1 DEF Selected
  <2> QED
    BY <2>1, <2>3, <2>4, <2>5 DEF JobInv, j
<1>6. SignInv(c, s2, g2, b2, a, f, p, J)
  <2>1. SignInv(c, s, g, b, a, f, p, J)
    BY DEF NodeInv
  <2>2. p.observed <= s2.epoch /\ p.lag <= WatchLag
    BY <1>1, <2>1 DEF SignInv
  <2>3. p.ready => p.up /\ a # {}
    BY <2>1 DEF SignInv
  <2>4. p.ready /\ p.observed = s2.epoch => Selected(s2, f, p)
    BY <1>1, <2>1 DEF SignInv, Selected
  <2> QED
    BY <2>2, <2>3, <2>4 DEF SignInv
<1> QED
  BY <1>3, <1>4, <1>5, <1>6 DEF NodeInv

(* The key of a node that signs outlasts what may be retired now.          *)
LEMMA SigningKeyKept ==
    ASSUME NEW c \in Nat, NEW s \in Shared, NEW g \in Generations, NEW b \in SUBSET Keys,
           NEW a, NEW l, NEW f, NEW p \in Process, NEW J,
           NodeInv(c, s, g, b, a, l, f, p, J), Signing(p, J)
    PROVE  /\ p.ring.active \in b \ g.retired
           /\ p.ring.active # s.active => /\ c + Horizon <= g.after[p.ring.active] + p.lag
                                          /\ c + TTL <= g.after[p.ring.active]
                                          /\ c < g.after[p.ring.active]
<1>1. SignInv(c, s, g, b, a, f, p, J)
  BY DEF NodeInv
<1>2. /\ p.ring.active \in b \ g.retired /\ p.lag <= WatchLag
      /\ p.ring.active # s.active => c + Horizon <= g.after[p.ring.active] + p.lag
  BY <1>1 DEF SignInv
<1>3. p.lag \in Nat /\ p.ring.active \in Keys
  BY DEF Process, Keyring
<1>4. g.after[p.ring.active] \in Nat
  BY <1>3 DEF Generations
<1> QED
  BY <1>2, <1>3, <1>4, Constants

-----------------------------------------------------------------------------
(***************************************************************************)
(* What a change of a node means for itself.                               *)
(***************************************************************************)
(* A worker goes on with another job.                                      *)
LEMMA JobStep ==
    ASSUME NEW c, NEW s, NEW g, NEW b, NEW a, NEW l, NEW f, NEW p, NEW J \in [Workers -> Job],
           NodeInv(c, s, g, b, a, l, f, p, J),
           NEW w \in Workers, NEW j \in Job, JobInv(s, g, b, a, f, p, j),
           j.pc = "publish" =>
              p.ring.active \in b \ g.retired
              /\ (p.ring.active # s.active => c + Horizon <= g.after[p.ring.active] + p.lag)
    PROVE  NodeInv(c, s, g, b, a, l, f, p, [J EXCEPT ![w] = j])
<1> DEFINE K == [J EXCEPT ![w] = j]
<1>1. \A v \in Workers : K[v] = IF v = w THEN j ELSE J[v]
  OBVIOUS
<1> HIDE DEF K
<1>2. \A v \in Workers : JobInv(s, g, b, a, f, p, K[v])
  BY <1>1 DEF NodeInv
<1>3. SignInv(c, s, g, b, a, f, p, K)
  BY <1>1 DEF NodeInv, SignInv, Signing
<1> QED
  BY <1>2, <1>3 DEF NodeInv, K

(* A process stops serving.                                                *)
LEMMA UnreadyStep ==
    ASSUME NEW c, NEW s \in Shared, NEW g, NEW b, NEW a, NEW l, NEW f, NEW p \in Process, NEW J,
           NodeInv(c, s, g, b, a, l, f, p, J),
           NEW q, q.up = p.up, q.ring = p.ring, q.lag = p.lag, ~q.ready, q.observed = 0
    PROVE  NodeInv(c, s, g, b, a, l, f, q, J)
<1>1. 0 <= s.epoch
  BY DEF Shared
<1>2. RingInv(s, f, q)
  BY DEF NodeInv, RingInv
<1>3. AckInv(s, g, a, l, q)
  BY DEF NodeInv, AckInv
<1>4. \A w \in Workers : JobInv(s, g, b, a, f, q, J[w])
  BY DEF NodeInv, JobInv, Selected
<1>5. SignInv(c, s, g, b, a, f, q, J)
  BY <1>1 DEF NodeInv, SignInv, Signing
<1> QED
  BY <1>2, <1>3, <1>4, <1>5 DEF NodeInv

-----------------------------------------------------------------------------
(***************************************************************************)
(* Steps.                                                                  *)
(***************************************************************************)
LEMMA NodeFacts ==
    ASSUME IInv, NEW n \in Nodes
    PROVE  /\ acks[n] \in SUBSET Keys /\ live[n] \in BOOLEAN /\ file[n] \in Keyring /\ mem[n] \in Process
           /\ job[n] \in [Workers -> Job] /\ \A w \in Workers : job[n][w] \in Job
           /\ NodeInv(clock, shared, gens, backend, acks[n], live[n], file[n], mem[n], job[n])
           /\ RingInv(shared, file[n], mem[n]) /\ AckInv(shared, gens, acks[n], live[n], mem[n])
           /\ \A w \in Workers : JobInv(shared, gens, backend, acks[n], file[n], mem[n], job[n][w])
           /\ SignInv(clock, shared, gens, backend, acks[n], file[n], mem[n], job[n])
<1>1. /\ acks[n] \in SUBSET Keys /\ live[n] \in BOOLEAN /\ file[n] \in Keyring /\ mem[n] \in Process
      /\ job[n] \in [Workers -> Job]
  BY DEF IInv, TypeOK
<1>2. NodeInv(clock, shared, gens, backend, acks[n], live[n], file[n], mem[n], job[n])
  BY DEF IInv, NodesInv
<1> QED
  BY <1>1, <1>2 DEF NodeInv

(* The step of a node n, after the change of the shared state.             *)
LEMMA NodeStep ==
    ASSUME TypeOK', AuthorityInv', IssuedInv', NEW n \in Nodes,
           \A m \in Nodes :
              NodeInv(clock', shared', gens', backend', acks[m], live[m], file[m], mem[m], job[m]),
           \A m \in Nodes \ {n} :
              /\ acks'[m] = acks[m] /\ live'[m] = live[m] /\ file'[m] = file[m]
              /\ mem'[m] = mem[m] /\ job'[m] = job[m],
           NodeInv(clock', shared', gens', backend', acks'[n], live'[n], file'[n], mem'[n], job'[n])
    PROVE  IInv'
<1>1. ASSUME NEW m \in Nodes
      PROVE  NodeInv(clock', shared', gens', backend', acks'[m], live'[m], file'[m], mem'[m], job'[m])
  <2>1. CASE m = n
    BY <2>1
  <2>2. CASE m # n
    BY <2>2
  <2> QED
    BY <2>1, <2>2
<1>2. NodesInv'
  BY <1>1 DEF NodesInv
<1> QED
  BY <1>2 DEF IInv

(* A step that leaves the shared state alone.                              *)
LEMMA LocalStep ==
    ASSUME IInv, UNCHANGED <<clock, shared, gens, backend, issued>>, NEW n \in Nodes,
           acks' \in [Nodes -> SUBSET Keys], live' \in [Nodes -> BOOLEAN], file' \in [Nodes -> Keyring],
           mem' \in [Nodes -> Process], job' \in [Nodes -> [Workers -> Job]],
           \A m \in Nodes \ {n} :
              /\ acks'[m] = acks[m] /\ live'[m] = live[m] /\ file'[m] = file[m]
              /\ mem'[m] = mem[m] /\ job'[m] = job[m],
           NodeInv(clock, shared, gens, backend, acks'[n], live'[n], file'[n], mem'[n], job'[n])
    PROVE  IInv'
<1>1. TypeOK'
  BY DEF IInv, TypeOK
<1>2. AuthorityInv'
  BY DEF IInv, AuthorityInv
<1>3. IssuedInv'
  BY DEF IInv, IssuedInv
<1>4. \A m \in Nodes :
         NodeInv(clock', shared', gens', backend', acks[m], live[m], file[m], mem[m], job[m])
  BY NodeFacts
<1> QED
  BY <1>1, <1>2, <1>3, <1>4, NodeStep

LEMMA SetJobFacts ==
    ASSUME TypeOK, NEW n \in Nodes, NEW w \in Workers, NEW j \in Job, SetJob(n, w, j)
    PROVE  /\ job' \in [Nodes -> [Workers -> Job]] /\ job'[n] = [job[n] EXCEPT ![w] = j]
           /\ \A m \in Nodes \ {n} : job'[m] = job[m]
<1>1. job \in [Nodes -> [Workers -> Job]] /\ job' = [job EXCEPT ![n][w] = j]
  BY DEF TypeOK, SetJob
<1> QED
  BY <1>1

(* A job that relies on nothing, in a process that is up.                  *)
LEMMA QuietJob ==
    ASSUME NEW s, NEW g, NEW b, NEW a, NEW f, NEW p, NEW j,
           j.pc \in {"idle", "load", "exit", "retire", "drop"}, j.pc # "idle" => p.up,
           j.retired \subseteq g.retired
    PROVE  JobInv(s, g, b, a, f, p, j)
  BY DEF JobInv

LEMMA NoJobType == NoJob \in Job /\ NoJob.pc = "idle" /\ NoJob.retired = {}
  BY DEF NoJob, Job

LEMMA AbandonFacts ==
    ASSUME NEW n \in Nodes, NEW w \in Workers, Abandon(n, w)
    PROVE  \E j \in Job : /\ SetJob(n, w, j) /\ j.pc \in {"idle", "load", "exit"} /\ j.retired = {}
<1> DEFINE load == [NoJob EXCEPT !.pc = "load", !.why = "reboot"]
           exit == [NoJob EXCEPT !.pc = "exit"]
<1>1. load \in Job /\ load.pc = "load" /\ load.retired = {}
  BY DEF NoJob, Job
<1>2. exit \in Job /\ exit.pc = "exit" /\ exit.retired = {}
  BY DEF NoJob, Job
<1>3. SetJob(n, w, load) \/ SetJob(n, w, exit) \/ SetJob(n, w, NoJob)
  BY DEF Abandon
<1> HIDE DEF load, exit
<1> QED
  BY <1>1, <1>2, <1>3, NoJobType

(* The backend gains keys, and loses none but retired ones.                *)
LEMMA BackendStep ==
    ASSUME IInv, backend' \subseteq Keys, backend \subseteq backend' \cup gens.retired,
           UNCHANGED <<clock, shared, gens, issued>>
    PROVE  /\ AuthorityInv' /\ IssuedInv'
           /\ \A m \in Nodes : NodeInv(clock', shared', gens', backend', acks[m], live[m], file[m], mem[m], job[m])
<1>1. AuthorityInv'
  BY DEF IInv, AuthorityInv
<1>2. IssuedInv'
  BY DEF IInv, IssuedInv
<1>3. ASSUME NEW m \in Nodes
      PROVE  NodeInv(clock, shared, gens, backend', acks[m], live[m], file[m], mem[m], job[m])
  <2>1. clock \in Nat /\ shared \in Shared /\ gens \in Generations /\ backend \in SUBSET Keys
        /\ shared.active.kid <= shared.active.kid /\ shared.epoch <= shared.epoch
    BY Constants DEF IInv, TypeOK, Shared
  <2>2. acks[m] # {} => shared.active \in acks[m]
    BY NodeFacts DEF AckInv
  <2>3. Signing(mem[m], job[m]) =>
           /\ mem[m].ring.active \in backend' \ gens.retired
           /\ mem[m].ring.active # shared.active
              => clock + Horizon <= gens.after[mem[m].ring.active] + mem[m].lag
    BY NodeFacts DEF SignInv
  <2> QED
    BY <2>1, <2>2, <2>3, NodeFacts, SharedStep
<1> QED
  BY <1>1, <1>2, <1>3

(* A step of a worker that changes at most the backend.                    *)
LEMMA JobKeeps ==
    ASSUME IInv, NEW n \in Nodes, NEW w \in Workers, NEW j \in Job, SetJob(n, w, j),
           backend' \subseteq Keys, backend \subseteq backend' \cup gens.retired,
           UNCHANGED <<clock, shared, gens, acks, live, file, mem, issued>>,
           JobInv(shared, gens, backend', acks[n], file[n], mem[n], j), j.pc # "publish"
    PROVE  IInv'
<1>1. AuthorityInv' /\ IssuedInv'
      /\ \A m \in Nodes : NodeInv(clock', shared', gens', backend', acks[m], live[m], file[m], mem[m], job[m])
  BY BackendStep
<1>2. /\ job' \in [Nodes -> [Workers -> Job]] /\ job'[n] = [job[n] EXCEPT ![w] = j]
      /\ \A m \in Nodes \ {n} : job'[m] = job[m]
  BY SetJobFacts DEF IInv
<1>3. TypeOK'
  BY <1>2 DEF IInv, TypeOK
<1>4. NodeInv(clock', shared', gens', backend', acks[n], live[n], file[n], mem[n], [job[n] EXCEPT ![w] = j])
  BY <1>1, JobStep, NodeFacts
<1> QED
  BY <1>1, <1>2, <1>3, <1>4, NodeStep

LEMMA AbandonKeeps ==
    ASSUME IInv, NEW n \in Nodes, NEW w \in Workers, Abandon(n, w), mem[n].up,
           backend' \subseteq Keys, backend \subseteq backend' \cup gens.retired,
           UNCHANGED <<clock, shared, gens, acks, live, file, mem, issued>>
    PROVE  IInv'
<1>1. PICK j \in Job : SetJob(n, w, j) /\ j.pc \in {"idle", "load", "exit"} /\ j.retired = {}
  BY AbandonFacts
<1>2. JobInv(shared, gens, backend', acks[n], file[n], mem[n], j)
  BY <1>1, QuietJob
<1>3. j.pc # "publish"
  BY <1>1
<1> QED
  BY <1>1, <1>2, <1>3, JobKeeps

-----------------------------------------------------------------------------
(***************************************************************************)
(* Steps of the workers that change at most the backend.                   *)
(***************************************************************************)
LEMMA AdminAcceptKeeps ==
    ASSUME IInv, NEW n \in Nodes, AdminAccept(n)
    PROVE  IInv'
<1> DEFINE k == mem[n].ring.pending
           j == [NoJob EXCEPT !.pc = "activate", !.key = k]
           i == job[n]["admin"]
<1>1. /\ k # NoKey /\ mem[n].up /\ backend' = backend \cup {k} /\ i.pc = "idle"
      /\ SetJob(n, "admin", j) \/ UNCHANGED job
      /\ UNCHANGED <<clock, shared, gens, acks, live, file, mem, issued>>
  BY DEF AdminAccept
<1>2. k \in Keys
  BY <1>1, NodeFacts DEF Process, Keyring
<1>3. backend' \subseteq Keys /\ backend \subseteq backend' \cup gens.retired /\ k \in backend'
  BY <1>1, <1>2 DEF IInv, TypeOK
<1>4. "admin" \in Workers
  BY DEF Workers
<1>5. CASE SetJob(n, "admin", j)
  <2>1. j \in Job /\ j.pc = "activate" /\ j.key = k /\ j.retired = {}
    BY <1>2 DEF NoJob, Job
  <2>2. k.kid = Top(mem[n].ring)
    BY <1>1 DEF Top
  <2> HIDE DEF j, k
  <2>3. JobInv(shared, gens, backend', acks[n], file[n], mem[n], j)
    BY <1>1, <1>3, <2>1, <2>2 DEF JobInv
  <2> QED
    BY <1>1, <1>3, <1>4, <1>5, <2>1, <2>3, JobKeeps
<1>6. CASE UNCHANGED job
  <2>1. i \in Job /\ i.retired \subseteq gens.retired
    BY <1>4, NodeFacts DEF JobInv
  <2>2. SetJob(n, "admin", i)
    BY <1>4, <1>6 DEF IInv, TypeOK, SetJob
  <2>3. JobInv(shared, gens, backend', acks[n], file[n], mem[n], i)
    BY <1>1, <2>1, QuietJob
  <2> HIDE DEF i, k
  <2> QED
    BY <1>1, <1>3, <1>4, <2>1, <2>2, <2>3, JobKeeps
<1> QED
  BY <1>1, <1>5, <1>6

LEMMA AdminWithdrawKeeps ==
    ASSUME IInv, NEW n \in Nodes, AdminWithdraw(n)
    PROVE  IInv'
<1> DEFINE j == job[n]["admin"]
           i == [j EXCEPT !.pc = "apply", !.key = NoKey]
<1>1. "admin" \in Workers
  BY DEF Workers
<1>2. /\ j \in Job /\ j.pc = "withdraw"
      /\ \/ backend' = backend \ {j.key} /\ SetJob(n, "admin", i)
         \/ backend' = backend /\ SetJob(n, "admin", NoJob)
      /\ UNCHANGED <<clock, shared, gens, acks, live, file, mem, issued>>
  BY <1>1, NodeFacts DEF AdminWithdraw
<1>3. JobInv(shared, gens, backend, acks[n], file[n], mem[n], j)
  BY <1>1, NodeFacts
<1>4. mem[n].up /\ j.key \in gens.retired /\ j.retired \subseteq gens.retired
      /\ j.active # NoKey /\ j.active.kid <= shared.active.kid
  BY <1>2, <1>3 DEF JobInv
<1>5. backend' \subseteq Keys /\ backend \subseteq backend' \cup gens.retired
  BY <1>2, <1>4 DEF IInv, TypeOK
<1>6. CASE SetJob(n, "admin", i)
  <2>1. i \in Job /\ i.pc = "apply" /\ i.active = j.active /\ i.retired = j.retired
    BY <1>2 DEF Job
  <2> HIDE DEF i, j
  <2>2. JobInv(shared, gens, backend', acks[n], file[n], mem[n], i)
    BY <1>4, <2>1 DEF JobInv
  <2> QED
    BY <1>1, <1>2, <1>5, <1>6, <2>1, <2>2, JobKeeps
<1>7. CASE SetJob(n, "admin", NoJob)
  <2>1. JobInv(shared, gens, backend', acks[n], file[n], mem[n], NoJob)
    BY NoJobType, QuietJob
  <2> HIDE DEF i, j
  <2> QED
    BY <1>1, <1>2, <1>5, <1>7, <2>1, NoJobType, JobKeeps
<1> QED
  BY <1>2, <1>6, <1>7

LEMMA LoadIdentityKeeps ==
    ASSUME IInv, NEW n \in Nodes, LoadIdentity(n)
    PROVE  IInv'
<1> DEFINE j == job[n]["reconciler"]
           i == [j EXCEPT !.pc = "apply", !.active = shared.active, !.retired = gens.retired]
<1>1. "reconciler" \in Workers
  BY DEF Workers
<1>2. j \in Job /\ mem[n].up /\ SetJob(n, "reconciler", i)
      /\ UNCHANGED <<clock, shared, gens, acks, live, file, mem, backend, issued>>
  BY <1>1, NodeFacts DEF LoadIdentity
<1>3. /\ shared.active \in Keys /\ gens.retired \subseteq Keys /\ backend \subseteq Keys
      /\ shared.active # NoKey /\ shared.active.kid <= shared.active.kid
  BY Constants DEF IInv, TypeOK, Shared, Generations
<1>4. i \in Job /\ i.pc = "apply" /\ i.active = shared.active /\ i.retired = gens.retired
  BY <1>2, <1>3 DEF Job
<1> HIDE DEF i, j
<1>5. JobInv(shared, gens, backend', acks[n], file[n], mem[n], i)
  BY <1>2, <1>3, <1>4 DEF JobInv
<1> QED
  BY <1>1, <1>2, <1>3, <1>4, <1>5, JobKeeps

LEMMA ApplyKeeps ==
    ASSUME IInv, NEW n \in Nodes, NEW w \in Workers, Apply(n, w)
    PROVE  IInv'
<1> DEFINE j == job[n][w]
           ring == mem[n].ring
           kept == [j EXCEPT !.pc = "retire", !.active = NoKey]
           next == [j EXCEPT !.pc = "save", !.active = NoKey, !.key = ring.pending]
           more == IF SameKid(ring.pending, j.active) /\ Publishable(ring.pending)
                   THEN {backend \cup {ring.pending}} ELSE {}
<1>1. /\ j.pc = "apply"
      /\ \/ SetJob(n, w, kept) /\ UNCHANGED backend
         \/ SameKid(ring.pending, j.active) /\ backend' = backend \cup {ring.pending} /\ SetJob(n, w, next)
         \/ Abandon(n, w) /\ backend' \in {backend} \cup more
      /\ UNCHANGED <<clock, shared, gens, acks, live, file, mem, issued>>
  BY DEF Apply
<1>2. j \in Job /\ JobInv(shared, gens, backend, acks[n], file[n], mem[n], j)
      /\ ring.pending \in Keys \cup {NoKey}
  BY NodeFacts DEF Process, Keyring
<1> HIDE DEF j, ring
<1>3. mem[n].up /\ j.retired \subseteq gens.retired /\ j.active # NoKey /\ j.active.kid <= shared.active.kid
  BY <1>1, <1>2 DEF JobInv
<1>4. backend' \subseteq Keys /\ backend \subseteq backend' \cup gens.retired
  <2>1. backend' = backend \/ (SameKid(ring.pending, j.active) /\ backend' = backend \cup {ring.pending})
    BY <1>1
  <2> QED
    BY <1>2, <2>1 DEF IInv, TypeOK, SameKid
<1>5. CASE SetJob(n, w, kept)
  <2>1. kept \in Job /\ kept.pc = "retire" /\ kept.retired = j.retired
    BY <1>2 DEF Job
  <2> HIDE DEF kept, next
  <2>2. JobInv(shared, gens, backend', acks[n], file[n], mem[n], kept)
    BY <1>3, <2>1, QuietJob
  <2> QED
    BY <1>1, <1>4, <1>5, <2>1, <2>2, JobKeeps
<1>6. CASE SameKid(ring.pending, j.active) /\ SetJob(n, w, next)
  <2>1. next \in Job /\ next.pc = "save" /\ next.retired = j.retired /\ next.key = ring.pending
    BY <1>2 DEF Job
  <2>2. ring.pending # NoKey /\ ring.pending.kid <= shared.active.kid
    BY <1>3, <1>6 DEF SameKid
  <2> HIDE DEF kept, next
  <2>3. JobInv(shared, gens, backend', acks[n], file[n], mem[n], next)
    BY <1>3, <2>1, <2>2 DEF JobInv
  <2> QED
    BY <1>1, <1>4, <1>6, <2>1, <2>3, JobKeeps
<1>7. CASE Abandon(n, w)
  BY <1>1, <1>3, <1>4, <1>7, AbandonKeeps
<1> QED
  BY <1>1, <1>5, <1>6, <1>7

LEMMA RetireNextKeeps ==
    ASSUME IInv, NEW n \in Nodes, NEW w \in Workers, RetireNext(n, w)
    PROVE  IInv'
<1> DEFINE j == job[n][w]
           ring == mem[n].ring
           local == LocalIdentity(n, j)
<1>1. /\ j.pc = "retire"
      /\ \/ SetJob(n, w, local) /\ UNCHANGED backend
         \/ \E k \in j.retired : backend' = backend \ {k} /\ SetJob(n, w, [j EXCEPT !.pc = "drop", !.key = k])
         \/ Abandon(n, w) /\ UNCHANGED backend
      /\ UNCHANGED <<clock, shared, gens, acks, live, file, mem, issued>>
  BY DEF RetireNext
<1>2. j \in Job /\ JobInv(shared, gens, backend, acks[n], file[n], mem[n], j)
      /\ ring \in Keyring /\ Sound(ring) /\ ring.active # NoKey /\ ring.active.kid <= ring.active.kid
  <2>1. ring \in Keyring
    BY NodeFacts DEF Process
  <2> QED
    BY <2>1, NodeFacts, Constants DEF RingInv, Keyring
<1>3. mem[n].up /\ j.retired \subseteq gens.retired
  BY <1>1, <1>2 DEF JobInv
<1>4. backend' \subseteq Keys /\ backend \subseteq backend' \cup gens.retired
  BY <1>1, <1>3 DEF IInv, TypeOK
<1>5. CASE SetJob(n, w, local)
  <2>1. local \in Job /\ local.pc = "sync" /\ local.retired = {} /\ local.loaded = ring.verifiers
        /\ local.active = ring.active
    BY <1>2 DEF LocalIdentity, NoJob, Job, Keyring
  <2> HIDE DEF local, j
  <2>2. JobInv(shared, gens, backend', acks[n], file[n], mem[n], local)
    BY <1>2, <1>3, <2>1 DEF JobInv, Sound
  <2> QED
    BY <1>1, <1>4, <1>5, <2>1, <2>2, JobKeeps
<1>6. ASSUME NEW k \in j.retired, SetJob(n, w, [j EXCEPT !.pc = "drop", !.key = k])
      PROVE  IInv'
  <2> DEFINE i == [j EXCEPT !.pc = "drop", !.key = k]
  <2>1. i \in Job /\ i.pc = "drop" /\ i.retired = j.retired
    BY <1>2 DEF Job
  <2>2. SetJob(n, w, i)
    BY <1>6
  <2> HIDE DEF i, j
  <2>3. JobInv(shared, gens, backend', acks[n], file[n], mem[n], i)
    BY <1>3, <2>1, QuietJob
  <2> QED
    BY <1>1, <1>4, <2>1, <2>2, <2>3, JobKeeps
<1>7. CASE Abandon(n, w)
  BY <1>1, <1>3, <1>4, <1>7, AbandonKeeps
<1> HIDE DEF j, local
<1> QED
  BY <1>1, <1>5, <1>6, <1>7

-----------------------------------------------------------------------------
(***************************************************************************)
(* Processes and keyring files.                                            *)
(***************************************************************************)
(* A node whose process is down does nothing.                              *)
LEMMA DownFacts ==
    ASSUME IInv, NEW n \in Nodes, ~mem[n].up
    PROVE  /\ ~mem[n].ready /\ ~Signing(mem[n], job[n])
           /\ \A w \in Workers : job[n][w].pc = "idle" /\ job[n][w].retired \subseteq gens.retired
<1>1. \A w \in Workers : job[n][w].pc = "idle" /\ job[n][w].retired \subseteq gens.retired
  BY NodeFacts DEF JobInv
<1>2. ~mem[n].ready
  BY NodeFacts DEF SignInv
<1> QED
  BY <1>1, <1>2 DEF Signing

LEMMA PreparedSound ==
    ASSUME NEW ring \in Keyring, Sound(ring), ring.pending = NoKey, NEW k \in Keys, k.kid = ring.active.kid + 1
    PROVE  Prepared(ring, k) \in Keyring /\ Sound(Prepared(ring, k)) /\ Prepared(ring, k).active = ring.active
<1> DEFINE r == Prepared(ring, k)
<1>1. r \in Keyring /\ r.active = ring.active /\ r.pending = k /\ r.verifiers = ring.verifiers \cup {k}
  BY DEF Prepared, Keyring
<1>2. Top(ring) = ring.active.kid /\ Top(r) = k.kid
  BY <1>1, Constants DEF Top
<1>3. \A v \in ring.verifiers : v.kid \in Nat
  BY Constants DEF Keyring
<1>4. ring.active.kid \in Nat
  BY Constants DEF Keyring
<1> HIDE DEF r
<1>5. Sound(r)
  BY <1>1, <1>2, <1>3, <1>4 DEF Sound, OnePerKid
<1> QED
  BY <1>1, <1>5 DEF r

LEMMA PrepareRotationKeeps ==
    ASSUME IInv, NEW n \in Nodes, PrepareRotation(n)
    PROVE  IInv'
<1>1. ~mem[n].up /\ UNCHANGED <<clock, shared, gens, acks, live, mem, job, backend, issued>>
  BY DEF PrepareRotation
<1>2. \E r \in Keyring : /\ file' = [file EXCEPT ![n] = r] /\ Sound(r) /\ r.active.kid <= shared.active.kid
  <2>1. CASE file[n].pending = NoKey /\ \E k \in Keys : k.kid = file[n].active.kid + 1
                                                       /\ file' = [file EXCEPT ![n] = Prepared(file[n], k)]
    <3>1. PICK k \in Keys : k.kid = file[n].active.kid + 1 /\ file' = [file EXCEPT ![n] = Prepared(file[n], k)]
      BY <2>1
    <3>2. file[n] \in Keyring /\ Sound(file[n]) /\ file[n].active.kid <= shared.active.kid
      BY NodeFacts DEF RingInv
    <3>3. Prepared(file[n], k) \in Keyring /\ Sound(Prepared(file[n], k))
          /\ Prepared(file[n], k).active = file[n].active
      BY <2>1, <3>1, <3>2, PreparedSound
    <3> QED
      BY <3>1, <3>2, <3>3
  <2>2. CASE \E m \in Nodes \ {n} : file' = [file EXCEPT ![n] = file[m]]
    BY <2>2, NodeFacts DEF RingInv
  <2> QED
    BY <2>1, <2>2 DEF PrepareRotation
<1>3. PICK r \in Keyring : file' = [file EXCEPT ![n] = r] /\ Sound(r) /\ r.active.kid <= shared.active.kid
  BY <1>2
<1>4. file' \in [Nodes -> Keyring] /\ file'[n] = r /\ \A m \in Nodes \ {n} : file'[m] = file[m]
  BY <1>3 DEF IInv, TypeOK
<1>5. NodeInv(clock, shared, gens, backend, acks[n], live[n], r, mem[n], job[n])
  <2>1. RingInv(shared, r, mem[n])
    BY <1>1, <1>3, NodeFacts DEF RingInv
  <2>2. \A w \in Workers : JobInv(shared, gens, backend, acks[n], r, mem[n], job[n][w])
    BY <1>1, DownFacts, QuietJob
  <2>3. SignInv(clock, shared, gens, backend, acks[n], r, mem[n], job[n])
    BY <1>1, DownFacts, NodeFacts DEF SignInv
  <2> QED
    BY <2>1, <2>2, <2>3, NodeFacts DEF NodeInv
<1>6. /\ acks' \in [Nodes -> SUBSET Keys] /\ live' \in [Nodes -> BOOLEAN] /\ mem' \in [Nodes -> Process]
      /\ job' \in [Nodes -> [Workers -> Job]]
  BY <1>1 DEF IInv, TypeOK
<1> QED
  BY <1>1, <1>4, <1>5, <1>6, LocalStep

LEMMA DownType ==
    ASSUME NEW k \in Nat
    PROVE  /\ Down(k) \in Process /\ ~Down(k).up /\ ~Down(k).ready /\ Down(k).observed = 0 /\ Down(k).lag = 0
           /\ Sound(Down(k).ring)
<1>1. Down(k) \in Process /\ ~Down(k).up /\ ~Down(k).ready /\ Down(k).observed = 0 /\ Down(k).lag = 0
      /\ Down(k).ring = NewKeyring
  BY Constants DEF Down, NewKeyring, Process, Keyring
<1>2. Sound(NewKeyring)
  BY Constants DEF NewKeyring, Sound, OnePerKid, Top
<1> QED
  BY <1>1, <1>2

LEMMA CrashKeeps ==
    ASSUME IInv, NEW n \in Nodes, Crash(n)
    PROVE  IInv'
<1> DEFINE d == Down(mem[n].starts)
           J == [w \in Workers |-> NoJob]
<1>1. /\ mem' = [mem EXCEPT ![n] = d] /\ job' = [job EXCEPT ![n] = J]
      /\ UNCHANGED <<clock, shared, gens, acks, live, file, backend, issued>>
  BY DEF Crash
<1>2. mem[n].starts \in Nat
  BY NodeFacts DEF Process
<1>3. d \in Process /\ ~d.up /\ ~d.ready /\ d.observed = 0 /\ d.lag = 0 /\ Sound(d.ring)
  BY <1>2, DownType
<1>4. J \in [Workers -> Job] /\ \A w \in Workers : J[w] = NoJob
  BY NoJobType
<1> HIDE DEF d, J
<1>5. /\ mem' \in [Nodes -> Process] /\ mem'[n] = d /\ \A m \in Nodes \ {n} : mem'[m] = mem[m]
      /\ job' \in [Nodes -> [Workers -> Job]] /\ job'[n] = J /\ \A m \in Nodes \ {n} : job'[m] = job[m]
  BY <1>1, <1>3, <1>4 DEF IInv, TypeOK
<1>6. NodeInv(clock, shared, gens, backend, acks[n], live[n], file[n], d, J)
  <2>1. RingInv(shared, file[n], d)
    BY <1>3, NodeFacts DEF RingInv
  <2>2. AckInv(shared, gens, acks[n], live[n], d)
    BY <1>3, NodeFacts DEF AckInv
  <2>3. \A w \in Workers : JobInv(shared, gens, backend, acks[n], file[n], d, J[w])
    BY <1>4, NoJobType, QuietJob
  <2>4. ~Signing(d, J)
    BY <1>3, <1>4, NoJobType DEF Signing
  <2>5. shared.epoch >= 0 /\ WatchLag >= 0
    BY Constants DEF IInv, TypeOK, Shared
  <2>6. SignInv(clock, shared, gens, backend, acks[n], file[n], d, J)
    BY <1>3, <2>4, <2>5 DEF SignInv
  <2> QED
    BY <2>1, <2>2, <2>3, <2>6 DEF NodeInv
<1>7. acks' \in [Nodes -> SUBSET Keys] /\ live' \in [Nodes -> BOOLEAN] /\ file' \in [Nodes -> Keyring]
  BY <1>1 DEF IInv, TypeOK
<1> QED
  BY <1>1, <1>5, <1>6, <1>7, LocalStep

LEMMA LapseKeeps ==
    ASSUME IInv, NEW n \in Nodes, Lapse(n)
    PROVE  IInv'
<1>1. /\ ~mem[n].up /\ live' = [live EXCEPT ![n] = FALSE] /\ acks' = [acks EXCEPT ![n] = {}]
      /\ UNCHANGED <<clock, shared, gens, file, mem, job, backend, issued>>
  BY DEF Lapse
<1>2. /\ acks' \in [Nodes -> SUBSET Keys] /\ acks'[n] = {} /\ \A m \in Nodes \ {n} : acks'[m] = acks[m]
      /\ live' \in [Nodes -> BOOLEAN] /\ \A m \in Nodes \ {n} : live'[m] = live[m]
      /\ file' \in [Nodes -> Keyring] /\ mem' \in [Nodes -> Process] /\ job' \in [Nodes -> [Workers -> Job]]
  BY <1>1 DEF IInv, TypeOK
<1>3. NodeInv(clock, shared, gens, backend, {}, live'[n], file[n], mem[n], job[n])
  <2>1. AckInv(shared, gens, {}, live'[n], mem[n])
    BY <1>1 DEF AckInv
  <2>2. \A w \in Workers : JobInv(shared, gens, backend, {}, file[n], mem[n], job[n][w])
    BY <1>1, DownFacts, QuietJob
  <2>3. SignInv(clock, shared, gens, backend, {}, file[n], mem[n], job[n])
    BY <1>1, DownFacts, NodeFacts DEF SignInv
  <2> QED
    BY <2>1, <2>2, <2>3, NodeFacts DEF NodeInv
<1> QED
  BY <1>1, <1>2, <1>3, LocalStep

LEMMA StartKeeps ==
    ASSUME IInv, NEW n \in Nodes, Start(n)
    PROVE  IInv'
<1> DEFINE r == file[n]
           d == Down(mem[n].starts + 1)
           p == [d EXCEPT !.up = TRUE, !.ring = r]
           j == [NoJob EXCEPT !.pc = "sync", !.why = "boot", !.active = r.active, !.loaded = r.verifiers]
           J == [job[n] EXCEPT !["reconciler"] = j]
<1>1. /\ ~mem[n].up /\ live' = [live EXCEPT ![n] = TRUE] /\ acks' = [acks EXCEPT ![n] = {}]
      /\ mem' = [mem EXCEPT ![n] = p] /\ SetJob(n, "reconciler", j)
      /\ UNCHANGED <<clock, shared, gens, file, backend, issued>>
  BY DEF Start
<1>2. r \in Keyring /\ Sound(r) /\ r.active.kid <= shared.active.kid
  BY NodeFacts DEF RingInv
<1>3. d \in Process /\ ~d.ready /\ d.observed = 0 /\ d.lag = 0
  <2>1. mem[n].starts + 1 \in Nat
    BY NodeFacts DEF Process
  <2> QED
    BY <2>1, DownType
<1> HIDE DEF r, d
<1>4. p \in Process /\ p.up /\ p.ring = r /\ ~p.ready /\ p.observed = 0 /\ p.lag = 0
  BY <1>2, <1>3 DEF Process
<1>5. j \in Job /\ j.pc = "sync" /\ j.active = r.active /\ j.loaded = r.verifiers /\ j.retired = {}
  BY <1>2 DEF NoJob, Job, Keyring
<1> HIDE DEF p, j
<1>6. "reconciler" \in Workers
  BY DEF Workers
<1>7. /\ job' \in [Nodes -> [Workers -> Job]] /\ job'[n] = J /\ \A m \in Nodes \ {n} : job'[m] = job[m]
  BY <1>1, <1>5, <1>6, SetJobFacts DEF IInv
<1>8. /\ acks' \in [Nodes -> SUBSET Keys] /\ acks'[n] = {} /\ \A m \in Nodes \ {n} : acks'[m] = acks[m]
      /\ live' \in [Nodes -> BOOLEAN] /\ live'[n] = TRUE /\ \A m \in Nodes \ {n} : live'[m] = live[m]
      /\ mem' \in [Nodes -> Process] /\ mem'[n] = p /\ \A m \in Nodes \ {n} : mem'[m] = mem[m]
      /\ file' \in [Nodes -> Keyring] /\ file'[n] = r
  BY <1>1, <1>4 DEF IInv, TypeOK, r
<1>9. NodeInv(clock, shared, gens, backend, {}, TRUE, r, p, J)
  <2>0. \A w \in Workers : J[w] = IF w = "reconciler" THEN j ELSE job[n][w]
    BY <1>6, NodeFacts
  <2> HIDE DEF J
  <2>1. RingInv(shared, r, p)
    BY <1>2, <1>4 DEF RingInv
  <2>2. AckInv(shared, gens, {}, TRUE, p)
    BY DEF AckInv
  <2>3. JobInv(shared, gens, backend, {}, r, p, j)
    <3>1. r.active.kid \in Nat /\ r.active # NoKey
      BY <1>2, Constants DEF Keyring
    <3> QED
      BY <1>2, <1>4, <1>5, <3>1 DEF JobInv, Sound
  <2>4. ASSUME NEW w \in Workers PROVE JobInv(shared, gens, backend, {}, r, p, J[w])
    BY <1>1, <1>4, <2>0, <2>3, DownFacts, QuietJob
  <2>5. ~Signing(p, J)
    BY <1>1, <1>4, <1>5, <2>0, DownFacts DEF Signing
  <2>6. shared.epoch >= 0 /\ WatchLag >= 0
    BY Constants DEF IInv, TypeOK, Shared
  <2>7. SignInv(clock, shared, gens, backend, {}, r, p, J)
    BY <1>4, <2>5, <2>6 DEF SignInv
  <2> QED
    BY <2>1, <2>2, <2>4, <2>7 DEF NodeInv
<1> HIDE DEF J
<1> QED
  BY ZenonT(60), <1>1, <1>7, <1>8, <1>9, LocalStep

LEMMA WatchKeeps ==
    ASSUME IInv, NEW n \in Nodes, Watch(n)
    PROVE  IInv'
<1> DEFINE q == [mem[n] EXCEPT !.ready = FALSE, !.observed = 0]
<1>1. /\ mem' = [mem EXCEPT ![n] = q]
      /\ UNCHANGED <<clock, shared, gens, acks, live, file, job, backend, issued>>
  BY DEF Watch, IInv, TypeOK
<1>2. q \in Process /\ NodeInv(clock, shared, gens, backend, acks[n], live[n], file[n], q, job[n])
  <2>1. /\ q \in Process /\ q.up = mem[n].up /\ q.ring = mem[n].ring /\ q.lag = mem[n].lag
        /\ ~q.ready /\ q.observed = 0
    BY NodeFacts DEF Process
  <2> HIDE DEF q
  <2> QED
    BY <2>1, NodeFacts, UnreadyStep DEF IInv, TypeOK
<1> HIDE DEF q
<1>3. /\ acks' \in [Nodes -> SUBSET Keys] /\ live' \in [Nodes -> BOOLEAN] /\ file' \in [Nodes -> Keyring]
      /\ mem' \in [Nodes -> Process] /\ mem'[n] = q /\ \A m \in Nodes \ {n} : mem'[m] = mem[m]
      /\ job' \in [Nodes -> [Workers -> Job]]
  BY <1>1, <1>2 DEF IInv, TypeOK
<1> QED
  BY <1>1, <1>2, <1>3, LocalStep

LEMMA IssueKeeps ==
    ASSUME IInv, NEW n \in Nodes, Issue(n)
    PROVE  IInv'
<1> DEFINE k == mem[n].ring.active
<1>1. /\ mem[n].ready /\ issued' = [issued EXCEPT ![k] = clock + TTL]
      /\ UNCHANGED <<clock, shared, gens, acks, live, file, mem, job, backend>>
  BY DEF Issue
<1>2. clock \in Nat /\ shared \in Shared /\ gens \in Generations /\ backend \in SUBSET Keys
      /\ issued \in [Keys -> Nat]
  BY DEF IInv, TypeOK
<1>3. k \in Keys
  BY NodeFacts DEF Process, Keyring
<1>4. Signing(mem[n], job[n])
  BY <1>1 DEF Signing
<1>5. k \in backend \ gens.retired /\ (k # shared.active => clock + TTL <= gens.after[k])
  BY <1>2, <1>4, NodeFacts, SigningKeyKept
<1> HIDE DEF k
<1>6. clock + TTL \in Nat /\ clock + TTL <= clock + TTL
  BY <1>2, Constants
<1>7. IssuedInv'
  BY <1>1, <1>2, <1>3, <1>5, <1>6 DEF IInv, IssuedInv
<1>8. TypeOK'
  BY <1>1, <1>2, <1>3, <1>6 DEF IInv, TypeOK
<1>9. AuthorityInv' /\ NodesInv'
  BY <1>1 DEF IInv, AuthorityInv, NodesInv
<1> QED
  BY <1>7, <1>8, <1>9 DEF IInv

LEMMA PublishKeeps ==
    ASSUME IInv, NEW n \in Nodes, NEW w \in Workers, Publish(n, w)
    PROVE  IInv'
<1> DEFINE j == job[n][w]
           p == mem[n]
           q == [p EXCEPT !.ready = TRUE, !.observed = j.epoch]
           J == [job[n] EXCEPT ![w] = NoJob]
<1>1. /\ j.pc = "publish" /\ mem' = [mem EXCEPT ![n] = q] /\ SetJob(n, w, NoJob)
      /\ UNCHANGED <<clock, shared, gens, acks, live, file, backend, issued>>
  BY DEF Publish, IInv, TypeOK
<1>2. j \in Job /\ p \in Process /\ JobInv(shared, gens, backend, acks[n], file[n], p, j)
  BY NodeFacts
<1>3. Signing(p, job[n])
  BY <1>1 DEF Signing
<1> HIDE DEF j, p
<1>4. /\ p.up /\ acks[n] # {} /\ j.epoch <= shared.epoch
      /\ j.epoch = shared.epoch => Selected(shared, file[n], p)
  BY <1>1, <1>2 DEF JobInv
<1>5. q \in Process /\ q.up = p.up /\ q.ring = p.ring /\ q.lag = p.lag /\ q.ready /\ q.observed = j.epoch
  BY <1>2 DEF Process, Job
<1> HIDE DEF q
<1>6. NodeInv(clock, shared, gens, backend, acks[n], live[n], file[n], q, job[n])
  <2>1. RingInv(shared, file[n], p) /\ AckInv(shared, gens, acks[n], live[n], p)
        /\ SignInv(clock, shared, gens, backend, acks[n], file[n], p, job[n])
        /\ \A v \in Workers : JobInv(shared, gens, backend, acks[n], file[n], p, job[n][v])
    BY NodeFacts DEF p
  <2>2. RingInv(shared, file[n], q)
    BY <1>5, <2>1 DEF RingInv
  <2>3. AckInv(shared, gens, acks[n], live[n], q)
    BY <1>5, <2>1 DEF AckInv
  <2>4. \A v \in Workers : JobInv(shared, gens, backend, acks[n], file[n], q, job[n][v])
    BY <1>5, <2>1 DEF JobInv, Selected
  <2>5. SignInv(clock, shared, gens, backend, acks[n], file[n], q, job[n])
    BY <1>3, <1>4, <1>5, <2>1 DEF SignInv, Selected
  <2> QED
    BY <2>2, <2>3, <2>4, <2>5 DEF NodeInv
<1>7. NodeInv(clock, shared, gens, backend, acks[n], live[n], file[n], q, J)
  <2>1. JobInv(shared, gens, backend, acks[n], file[n], q, NoJob)
    BY NoJobType, QuietJob
  <2> QED
    BY <1>6, <2>1, NoJobType, NodeFacts, JobStep
<1>8. /\ job' \in [Nodes -> [Workers -> Job]] /\ job'[n] = J /\ \A m \in Nodes \ {n} : job'[m] = job[m]
  BY <1>1, NoJobType, SetJobFacts DEF IInv
<1>9. /\ acks' \in [Nodes -> SUBSET Keys] /\ live' \in [Nodes -> BOOLEAN] /\ file' \in [Nodes -> Keyring]
      /\ mem' \in [Nodes -> Process] /\ mem'[n] = q /\ \A m \in Nodes \ {n} : mem'[m] = mem[m]
  BY <1>1, <1>5 DEF IInv, TypeOK
<1> HIDE DEF J
<1> QED
  BY <1>1, <1>7, <1>8, <1>9, LocalStep

-----------------------------------------------------------------------------
(***************************************************************************)
(* The keyring of a running process.                                       *)
(***************************************************************************)
LEMMA RingStep ==
    ASSUME NEW c \in Nat, NEW s \in Shared, NEW g \in Generations, NEW b, NEW a \in SUBSET Keys, NEW l,
           NEW f, NEW p \in Process, NEW J \in [Workers -> Job],
           NodeInv(c, s, g, b, a, l, f, p, J), p.up,
           NEW r \in Keyring, Sound(r), r.active.kid <= s.active.kid,
           NEW h \in Keyring, Sound(h), h.active.kid <= s.active.kid, h.active \in {r.active, r.pending},
           r.verifiers \subseteq p.ring.verifiers, Top(r) = Top(p.ring), p.ring.active.kid <= r.active.kid,
           Selected(s, f, p) => r.active = s.active /\ h.active = s.active,
           Signing(p, J) =>
              /\ r.active \in b \ g.retired
              /\ r.active # s.active => c + Horizon <= g.after[r.active] + p.lag
    PROVE  LET q == [p EXCEPT !.ring = r] IN q \in Process /\ NodeInv(c, s, g, b, a, l, h, q, J)
<1> DEFINE q == [p EXCEPT !.ring = r]
<1>1. q \in Process /\ q.up = p.up /\ q.ring = r /\ q.lag = p.lag /\ q.ready = p.ready /\ q.observed = p.observed
  BY DEF Process
<1> HIDE DEF q
<1>2. RingInv(s, h, q)
  BY <1>1 DEF RingInv
<1>3. AckInv(s, g, a, l, q)
  BY <1>1 DEF NodeInv, AckInv
<1>4. ASSUME NEW w \in Workers PROVE JobInv(s, g, b, a, h, q, J[w])
  <2> DEFINE j == J[w]
  <2>1. JobInv(s, g, b, a, f, p, j) /\ j \in Job
    BY DEF NodeInv
  <2>2. j.active # NoKey => j.active.kid \in Nat
    BY <2>1, Constants DEF Job
  <2>3. p.ring.active.kid \in Nat /\ r.active.kid \in Nat
    BY Constants DEF Process, Keyring
  <2> HIDE DEF j
  <2>4. j.pc = "sync" => /\ r.verifiers \subseteq j.loaded /\ OnePerKid(j.loaded)
                         /\ \A k \in j.loaded : k.kid <= Top(r)
                         /\ j.active # NoKey /\ j.active.kid <= r.active.kid
    BY <2>1, <2>2, <2>3 DEF JobInv
  <2>5. j.pc = "publish" => a # {} /\ j.epoch <= s.epoch /\ (j.epoch = s.epoch => Selected(s, h, q))
    BY <1>1, <2>1 DEF JobInv, Selected
  <2> QED
    BY <1>1, <2>1, <2>4, <2>5 DEF JobInv, j
<1>5. SignInv(c, s, g, b, a, h, q, J)
  BY <1>1 DEF NodeInv, SignInv, Signing, Selected
<1> QED
  BY <1>1, <1>2, <1>3, <1>4, <1>5 DEF NodeInv, q

(* The keyring and its file change, as far as the save got.                *)
LEMMA KeyringKeeps ==
    ASSUME IInv, NEW n \in Nodes, NEW w \in Workers, mem[n].up,
           NEW r \in Keyring, Sound(r), r.active.kid <= shared.active.kid,
           NEW h \in Keyring, Sound(h), h.active.kid <= shared.active.kid, h.active \in {r.active, r.pending},
           r.verifiers \subseteq mem[n].ring.verifiers, Top(r) = Top(mem[n].ring),
           mem[n].ring.active.kid <= r.active.kid,
           Selected(shared, file[n], mem[n]) => r.active = shared.active /\ h.active = shared.active,
           Signing(mem[n], job[n]) =>
              /\ r.active \in backend \ gens.retired
              /\ r.active # shared.active => clock + Horizon <= gens.after[r.active] + mem[n].lag,
           file' = [file EXCEPT ![n] = h], mem' = [mem EXCEPT ![n].ring = r],
           NEW j \in Job, SetJob(n, w, j), j.pc \in {"idle", "load", "exit", "retire"},
           j.retired \subseteq gens.retired,
           UNCHANGED <<clock, shared, gens, acks, live, backend, issued>>
    PROVE  IInv'
<1> DEFINE q == [mem[n] EXCEPT !.ring = r]
           J == [job[n] EXCEPT ![w] = j]
<1>1. clock \in Nat /\ shared \in Shared /\ gens \in Generations
  BY DEF IInv, TypeOK
<1>2. q \in Process /\ q.up /\ NodeInv(clock, shared, gens, backend, acks[n], live[n], h, q, job[n])
  <2>1. q \in Process /\ NodeInv(clock, shared, gens, backend, acks[n], live[n], h, q, job[n])
    BY <1>1, NodeFacts, RingStep
  <2>2. q.up = mem[n].up
    BY NodeFacts DEF Process
  <2> QED
    BY <2>1, <2>2
<1>3. mem' = [mem EXCEPT ![n] = q]
  BY DEF IInv, TypeOK
<1> HIDE DEF q
<1>4. NodeInv(clock, shared, gens, backend, acks[n], live[n], h, q, J)
  <2>1. JobInv(shared, gens, backend, acks[n], h, q, j)
    BY <1>2, QuietJob
  <2>2. job[n] \in [Workers -> Job]
    BY NodeFacts
  <2> QED
    BY <1>2, <2>1, <2>2, JobStep
<1>5. /\ job' \in [Nodes -> [Workers -> Job]] /\ job'[n] = J /\ \A m \in Nodes \ {n} : job'[m] = job[m]
  BY SetJobFacts DEF IInv
<1>6. /\ acks' \in [Nodes -> SUBSET Keys] /\ live' \in [Nodes -> BOOLEAN]
      /\ file' \in [Nodes -> Keyring] /\ file'[n] = h /\ \A m \in Nodes \ {n} : file'[m] = file[m]
      /\ mem' \in [Nodes -> Process] /\ mem'[n] = q /\ \A m \in Nodes \ {n} : mem'[m] = mem[m]
  BY <1>2, <1>3 DEF IInv, TypeOK
<1> HIDE DEF J
<1> QED
  BY ZenonT(60), <1>4, <1>5, <1>6, LocalStep

LEMMA SaveCases ==
    ASSUME TypeOK, NEW n \in Nodes, NEW r, Save(n, r) \/ SaveFails(n, r)
    PROVE  /\ Save(n, r) => file' = [file EXCEPT ![n] = r] /\ mem' = [mem EXCEPT ![n].ring = r]
           /\ SaveFails(n, r) => /\ mem' = [mem EXCEPT ![n].ring = mem[n].ring]
                                 /\ \E h \in {file[n], r} : file' = [file EXCEPT ![n] = h]
<1>1. file = [file EXCEPT ![n] = file[n]] /\ mem = [mem EXCEPT ![n].ring = mem[n].ring]
  BY DEF TypeOK, Process
<1>2. ASSUME SaveFails(n, r) PROVE \E h \in {file[n], r} : file' = [file EXCEPT ![n] = h]
  BY <1>1, <1>2 DEF SaveFails
<1> QED
  BY <1>1, <1>2 DEF Save, SaveFails

LEMMA ActivatedSound ==
    ASSUME NEW ring \in Keyring, Sound(ring), ring.pending # NoKey
    PROVE  LET r == Activated(ring)
           IN  /\ r \in Keyring /\ Sound(r) /\ r.active = ring.pending /\ r.pending = NoKey
               /\ r.verifiers = ring.verifiers /\ Top(r) = Top(ring)
<1> DEFINE r == Activated(ring)
<1>1. r \in Keyring /\ r.active = ring.pending /\ r.pending = NoKey /\ r.verifiers = ring.verifiers
  BY DEF Activated, Keyring
<1> HIDE DEF r
<1>2. Top(r) = Top(ring)
  BY <1>1 DEF Top
<1>3. Sound(r)
  BY <1>1, <1>2 DEF Sound
<1> QED
  BY <1>1, <1>2, <1>3 DEF r

LEMMA ActivatePreparedKeeps ==
    ASSUME IInv, NEW n \in Nodes, NEW w \in Workers, ActivatePrepared(n, w)
    PROVE  IInv'
<1> DEFINE j == job[n][w]
           ring == mem[n].ring
           r == Activated(ring)
           i == [j EXCEPT !.pc = "retire", !.key = NoKey]
<1>1. /\ j.pc = "save" /\ UNCHANGED <<clock, shared, gens, acks, live, backend, issued>>
      /\ \/ Abandon(n, w) /\ UNCHANGED <<file, mem>>
         \/ SameKid(ring.pending, j.key) /\ Save(n, r) /\ SetJob(n, w, i)
         \/ SameKid(ring.pending, j.key) /\ SaveFails(n, r) /\ Abandon(n, w)
  BY DEF ActivatePrepared
<1>2. j \in Job /\ ring \in Keyring /\ Sound(ring)
      /\ JobInv(shared, gens, backend, acks[n], file[n], mem[n], j)
  BY NodeFacts DEF Process, RingInv
<1>3. mem[n].up /\ j.retired \subseteq gens.retired /\ j.key # NoKey /\ j.key.kid <= shared.active.kid
  BY <1>1, <1>2 DEF JobInv
<1>4. CASE Abandon(n, w) /\ UNCHANGED <<file, mem>>
  <2>1. backend' \subseteq Keys /\ backend \subseteq backend' \cup gens.retired
    BY <1>1 DEF IInv, TypeOK
  <2> QED
    BY <1>1, <1>3, <1>4, <2>1, AbandonKeeps
<1>5. CASE SameKid(ring.pending, j.key)
  <2>1. ring.pending # NoKey /\ ring.pending \in Keys /\ ring.pending.kid <= shared.active.kid
    BY <1>2, <1>3, <1>5 DEF SameKid, Keyring
  <2>2. /\ r \in Keyring /\ Sound(r) /\ r.active = ring.pending /\ r.pending = NoKey
        /\ r.verifiers = ring.verifiers /\ Top(r) = Top(ring)
    BY <1>2, <2>1, ActivatedSound
  <2>3. /\ ring.active \in Keys /\ ring.active.kid \in Nat /\ ring.pending.kid \in Nat
        /\ shared.active \in Keys /\ shared.active.kid \in Nat
        /\ ring.pending.kid > ring.active.kid /\ ring.pending \in ring.verifiers
    BY <1>2, <2>1, Constants DEF IInv, TypeOK, Shared, Keyring, Sound
  <2>4. ~Selected(shared, file[n], mem[n])
    BY <2>1, <2>3 DEF Selected
  <2>5. /\ file[n] \in Keyring /\ Sound(file[n]) /\ file[n].active.kid <= shared.active.kid
        /\ file[n].active \in {ring.active, ring.pending} /\ ring.active.kid <= shared.active.kid
    BY <1>3, NodeFacts DEF RingInv
  (* A node that signs acknowledged the selected key: it is the prepared one. *)
  <2>6. ASSUME Signing(mem[n], job[n]) PROVE ring.pending = shared.active
    <3>1. acks[n] # {}
      BY <2>6, NodeFacts DEF Signing, SignInv, JobInv
    <3>2. shared.active \in acks[n] /\ ring.verifiers \subseteq gens.recorded /\ shared.active.kid <= Top(ring)
      BY <1>3, <3>1, NodeFacts DEF AckInv
    <3>3. Top(ring) = ring.pending.kid
      BY <2>1 DEF Top
    <3>4. ring.pending.kid = shared.active.kid
      BY <2>1, <2>3, <3>2, <3>3
    <3> QED
      BY <2>3, <3>2, <3>4 DEF IInv, AuthorityInv, OnePerKid
  <2>7. shared.active \in backend \ gens.retired
    BY DEF IInv, AuthorityInv
  <2> HIDE DEF ring, r, j
  <2>8. CASE Save(n, r) /\ SetJob(n, w, i)
    <3>1. file' = [file EXCEPT ![n] = r] /\ mem' = [mem EXCEPT ![n].ring = r]
      BY <2>8, SaveCases DEF IInv
    <3>2. i \in Job /\ i.pc = "retire" /\ i.retired = j.retired
      BY <1>2 DEF Job
    <3> HIDE DEF i
    <3>3. r.active.kid <= shared.active.kid /\ ring.active.kid <= r.active.kid
      BY <2>1, <2>2, <2>3
    <3>4. Signing(mem[n], job[n]) =>
             /\ r.active \in backend \ gens.retired
             /\ r.active # shared.active => clock + Horizon <= gens.after[r.active] + mem[n].lag
      BY <2>2, <2>6, <2>7
    <3> QED
      BY <1>1, <1>3, <2>2, <2>4, <2>8, <3>1, <3>2, <3>3, <3>4, KeyringKeeps DEF ring
  <2>9. CASE SaveFails(n, r) /\ Abandon(n, w)
    <3>1. mem' = [mem EXCEPT ![n].ring = ring]
      BY <2>9, SaveCases DEF IInv, ring
    <3>2. PICK h \in {file[n], r} : file' = [file EXCEPT ![n] = h]
      BY <2>9, SaveCases DEF IInv
    <3>3. PICK k \in Job : SetJob(n, w, k) /\ k.pc \in {"idle", "load", "exit"} /\ k.retired = {}
      BY <2>9, AbandonFacts
    <3>4. h \in Keyring /\ Sound(h) /\ h.active.kid <= shared.active.kid /\ h.active \in {ring.active, ring.pending}
      BY <2>1, <2>2, <2>5, <3>2
    <3>5. Signing(mem[n], job[n]) =>
             /\ ring.active \in backend \ gens.retired
             /\ ring.active # shared.active => clock + Horizon <= gens.after[ring.active] + mem[n].lag
      BY NodeFacts DEF SignInv, ring
    <3>6. ring.active.kid <= ring.active.kid /\ k.pc \in {"idle", "load", "exit", "retire"}
          /\ k.retired \subseteq gens.retired /\ ring.verifiers \subseteq mem[n].ring.verifiers
          /\ Top(ring) = Top(mem[n].ring) /\ mem[n].ring.active.kid <= ring.active.kid
      BY <2>3, <3>3 DEF ring
    <3> QED
      BY <1>1, <1>2, <1>3, <2>4, <2>5, <3>1, <3>2, <3>3, <3>4, <3>5, <3>6, KeyringKeeps
  <2> QED
    BY <1>1, <1>4, <2>8, <2>9
<1> QED
  BY <1>1, <1>4, <1>5

LEMMA RetiredSound ==
    ASSUME NEW ring \in Keyring, Sound(ring), NEW v \in ring.verifiers, v \notin {ring.active, ring.pending}
    PROVE  LET r == Retired(ring, v)
           IN  /\ r \in Keyring /\ Sound(r) /\ r.active = ring.active /\ r.pending = ring.pending
               /\ r.verifiers \subseteq ring.verifiers /\ Top(r) = Top(ring)
<1> DEFINE r == Retired(ring, v)
<1>1. r \in Keyring /\ r.active = ring.active /\ r.pending = ring.pending /\ r.verifiers = ring.verifiers \ {v}
  BY DEF Retired, Keyring
<1> HIDE DEF r
<1>2. Top(r) = Top(ring)
  BY <1>1 DEF Top
<1>3. Sound(r)
  BY <1>1, <1>2 DEF Sound, OnePerKid
<1> QED
  BY <1>1, <1>2, <1>3 DEF r

LEMMA RetireAfterKeeps ==
    ASSUME IInv, NEW n \in Nodes, NEW w \in Workers, RetireAfter(n, w)
    PROVE  IInv'
<1> DEFINE j == job[n][w]
           ring == mem[n].ring
           v == CHOOSE x \in ring.verifiers : SameKid(x, j.key)
           r == Retired(ring, v)
           found == \E x \in ring.verifiers : SameKid(x, j.key) /\ x \notin {ring.active, ring.pending}
           i == [j EXCEPT !.pc = "retire", !.key = NoKey]
<1>1. /\ j.pc = "drop" /\ UNCHANGED <<clock, shared, gens, acks, live, backend, issued>>
      /\ \/ Abandon(n, w) /\ UNCHANGED <<file, mem>>
         \/ found /\ Save(n, r) /\ SetJob(n, w, i)
         \/ found /\ SaveFails(n, r) /\ Abandon(n, w)
  BY DEF RetireAfter
<1>2. j \in Job /\ ring \in Keyring /\ Sound(ring)
      /\ JobInv(shared, gens, backend, acks[n], file[n], mem[n], j)
  BY NodeFacts DEF Process, RingInv
<1>3. mem[n].up /\ j.retired \subseteq gens.retired
  BY <1>1, <1>2 DEF JobInv
<1>4. CASE Abandon(n, w) /\ UNCHANGED <<file, mem>>
  <2>1. backend' \subseteq Keys /\ backend \subseteq backend' \cup gens.retired
    BY <1>1 DEF IInv, TypeOK
  <2> QED
    BY <1>1, <1>3, <1>4, <2>1, AbandonKeeps
<1>5. CASE found
  <2>1. v \in ring.verifiers /\ v \notin {ring.active, ring.pending}
    <3>1. PICK x \in ring.verifiers : SameKid(x, j.key) /\ x \notin {ring.active, ring.pending}
      BY <1>5
    <3>2. v \in ring.verifiers /\ SameKid(v, j.key)
      BY <3>1
    <3> HIDE DEF v
    <3>3. v = x
      BY <1>2, <3>1, <3>2 DEF Sound, OnePerKid, SameKid
    <3> QED
      BY <3>1, <3>3
  <2> HIDE DEF v, ring, j
  <2>2. /\ r \in Keyring /\ Sound(r) /\ r.active = ring.active /\ r.pending = ring.pending
        /\ r.verifiers \subseteq ring.verifiers /\ Top(r) = Top(ring)
    BY <1>2, <2>1, RetiredSound
  <2>3. /\ file[n] \in Keyring /\ Sound(file[n]) /\ file[n].active.kid <= shared.active.kid
        /\ file[n].active \in {ring.active, ring.pending} /\ ring.active.kid <= shared.active.kid
        /\ ring.active.kid \in Nat
    BY <1>2, <1>3, NodeFacts, Constants DEF RingInv, ring, Keyring
  <2>4. Signing(mem[n], job[n]) =>
           /\ ring.active \in backend \ gens.retired
           /\ ring.active # shared.active => clock + Horizon <= gens.after[ring.active] + mem[n].lag
    BY NodeFacts DEF SignInv, ring
  <2>5. Selected(shared, file[n], mem[n]) => ring.active = shared.active /\ file[n].active = shared.active
    BY DEF Selected, ring
  <2> HIDE DEF r
  <2>6. CASE Save(n, r) /\ SetJob(n, w, i)
    <3>1. file' = [file EXCEPT ![n] = r] /\ mem' = [mem EXCEPT ![n].ring = r]
      BY <2>6, SaveCases DEF IInv
    <3>2. i \in Job /\ i.pc = "retire" /\ i.retired = j.retired
      BY <1>2 DEF Job
    <3> HIDE DEF i, found
    <3>3. ring.active.kid <= ring.active.kid
      BY <2>3
    <3> QED
      BY <1>1, <1>3, <2>2, <2>3, <2>4, <2>5, <2>6, <3>1, <3>2, <3>3, KeyringKeeps DEF ring
  <2>7. CASE SaveFails(n, r) /\ Abandon(n, w)
    <3>1. mem' = [mem EXCEPT ![n].ring = ring]
      BY <2>7, SaveCases DEF IInv, ring
    <3>2. PICK h \in {file[n], r} : file' = [file EXCEPT ![n] = h]
      BY <2>7, SaveCases DEF IInv
    <3>3. PICK k \in Job : SetJob(n, w, k) /\ k.pc \in {"idle", "load", "exit"} /\ k.retired = {}
      BY <2>7, AbandonFacts
    <3>4. h \in Keyring /\ Sound(h) /\ h.active.kid <= shared.active.kid /\ h.active \in {ring.active, ring.pending}
      BY <2>2, <2>3, <3>2
    <3>5. Selected(shared, file[n], mem[n]) => ring.active = shared.active /\ h.active = shared.active
      BY <2>2, <2>5, <3>2
    <3>6. ring.active.kid <= ring.active.kid /\ k.pc \in {"idle", "load", "exit", "retire"}
          /\ k.retired \subseteq gens.retired /\ ring.verifiers \subseteq mem[n].ring.verifiers
          /\ Top(ring) = Top(mem[n].ring) /\ mem[n].ring.active.kid <= ring.active.kid
      BY <2>3, <3>3 DEF ring
    <3> HIDE DEF found, i
    <3> QED
      BY <1>1, <1>2, <1>3, <2>3, <2>4, <3>1, <3>2, <3>3, <3>4, <3>5, <3>6, KeyringKeeps
  <2> QED
    BY <1>1, <1>4, <2>6, <2>7
<1> QED
  BY <1>1, <1>4, <1>5

-----------------------------------------------------------------------------
(***************************************************************************)
(* Agreement with the authority.                                           *)
(***************************************************************************)
(* A node that the authority admits has the selected key as its active     *)
(* one, in memory and in the file: its keyring is not ahead of the         *)
(* authority, and what it presented had one key for each kid.              *)
LEMMA AgreedIsSelected ==
    ASSUME IInv, NEW n \in Nodes, NEW w \in Workers, job[n][w].pc = "sync", Agrees(job[n][w])
    PROVE  Selected(shared, file[n], mem[n])
<1> DEFINE j == job[n][w]
           ring == mem[n].ring
<1>1. /\ mem[n].up /\ ring.verifiers \subseteq j.loaded /\ OnePerKid(j.loaded)
      /\ j.active # NoKey /\ j.active.kid <= ring.active.kid
  BY NodeFacts DEF JobInv
<1>2. j.active.kid = shared.active.kid /\ shared.active \in j.loaded
  BY DEF Agrees
<1>3. /\ ring \in Keyring /\ Sound(ring) /\ ring.active.kid <= shared.active.kid
      /\ file[n].active \in {ring.active, ring.pending} /\ file[n].active.kid <= shared.active.kid
      /\ file[n].active \in Keys
  BY <1>1, NodeFacts DEF RingInv, Process, Keyring
<1>4. ring.active.kid \in Nat /\ shared.active.kid \in Nat /\ file[n].active.kid \in Nat
      /\ file[n].active # NoKey
  BY <1>3, Constants DEF Keyring, IInv, TypeOK, Shared
<1> HIDE DEF j, ring
<1>5. ring.active.kid = shared.active.kid
  BY <1>1, <1>2, <1>3, <1>4
<1>6. ring.active = shared.active
  BY <1>1, <1>2, <1>3, <1>5 DEF Sound, OnePerKid
<1>7. file[n].active = ring.active
  BY <1>3, <1>4, <1>5 DEF Sound
<1> QED
  BY <1>6, <1>7 DEF Selected, ring

LEMMA SynchronizeKeeps ==
    ASSUME IInv, NEW n \in Nodes, NEW w \in Workers, Synchronize(n, w)
    PROVE  IInv'
<1> DEFINE j == job[n][w]
           i == [NoJob EXCEPT !.pc = "publish", !.epoch = shared.epoch]
           a == acks[n] \cup j.loaded
           J == [job[n] EXCEPT ![w] = i]
<1>1. /\ j.pc = "sync" /\ UNCHANGED <<clock, shared, live, file, mem, backend, issued>>
      /\ \/ /\ Agrees(j) /\ gens' = [gens EXCEPT !.recorded = gens.recorded \cup j.loaded]
            /\ acks' = [acks EXCEPT ![n] = a] /\ SetJob(n, w, i)
         \/ Abandon(n, w) /\ UNCHANGED <<gens, acks>>
  BY DEF Synchronize
<1>2. j \in Job /\ JobInv(shared, gens, backend, acks[n], file[n], mem[n], j)
  BY NodeFacts
<1>3. /\ mem[n].up /\ mem[n].ring.verifiers \subseteq j.loaded /\ OnePerKid(j.loaded)
      /\ \A k \in j.loaded : k.kid <= Top(mem[n].ring)
  BY <1>1, <1>2 DEF JobInv
<1>4. CASE Abandon(n, w) /\ UNCHANGED <<gens, acks>>
  <2>1. backend' \subseteq Keys /\ backend \subseteq backend' \cup gens.retired
    BY <1>1 DEF IInv, TypeOK
  <2> QED
    BY <1>1, <1>3, <1>4, <2>1, AbandonKeeps
<1>5. CASE /\ Agrees(j) /\ gens' = [gens EXCEPT !.recorded = gens.recorded \cup j.loaded]
           /\ acks' = [acks EXCEPT ![n] = a] /\ SetJob(n, w, i)
  <2>1. Selected(shared, file[n], mem[n])
    BY <1>1, <1>5, AgreedIsSelected
  <2>2. /\ j.loaded \subseteq Keys /\ gens \in Generations /\ shared \in Shared /\ clock \in Nat
        /\ backend \in SUBSET Keys /\ shared.active \in j.loaded
        /\ \A k \in j.loaded, g \in gens.recorded : SameKid(g, k) => g = k
    BY <1>2, <1>5 DEF IInv, TypeOK, Job, Agrees
  <2>3. /\ gens' \in Generations /\ gens'.recorded = gens.recorded \cup j.loaded
        /\ gens'.retired = gens.retired /\ gens'.after = gens.after
    BY <1>5, <2>2 DEF Generations
  <2>4. \A k \in j.loaded \cup gens.recorded : k # NoKey
    BY <2>2, Constants DEF Generations
  <2>5. i \in Job /\ i.pc = "publish" /\ i.epoch = shared.epoch /\ i.retired = {}
    BY <2>2 DEF NoJob, Job, Shared
  <2> HIDE DEF j, i
  <2>6. AuthorityInv'
    <3>1. OnePerKid(gens'.recorded)
      BY <1>3, <2>2, <2>3, <2>4 DEF IInv, AuthorityInv, OnePerKid, SameKid
    <3> QED
      BY <1>1, <2>3, <3>1 DEF IInv, AuthorityInv
  <2>7. IssuedInv'
    BY <1>1, <2>3 DEF IInv, IssuedInv
  <2>8. /\ acks' \in [Nodes -> SUBSET Keys] /\ acks'[n] = a /\ a \in SUBSET Keys
        /\ \A m \in Nodes \ {n} : acks'[m] = acks[m]
    BY <1>5, <2>2 DEF IInv, TypeOK
  <2>9. /\ job' \in [Nodes -> [Workers -> Job]] /\ job'[n] = J
        /\ \A m \in Nodes \ {n} : job'[m] = job[m]
    BY <1>5, <2>5, SetJobFacts DEF IInv
  <2>10. TypeOK'
    BY <1>1, <2>3, <2>8, <2>9 DEF IInv, TypeOK
  <2>11. ASSUME NEW m \in Nodes
         PROVE  NodeInv(clock, shared, gens', backend, acks[m], live[m], file[m], mem[m], job[m])
    <3>1. /\ shared.active.kid <= shared.active.kid /\ shared.epoch <= shared.epoch
          /\ gens.recorded \subseteq gens'.recorded /\ gens.retired \subseteq gens'.retired
          /\ backend \subseteq backend \cup gens'.retired
      BY <2>2, <2>3, Constants DEF Shared
    <3>2. acks[m] # {} => shared.active \in acks[m]
      BY NodeFacts DEF AckInv
    <3>3. Signing(mem[m], job[m]) =>
             /\ mem[m].ring.active \in backend \ gens'.retired
             /\ mem[m].ring.active # shared.active
                => clock + Horizon <= gens'.after[mem[m].ring.active] + mem[m].lag
      BY <2>3, NodeFacts DEF SignInv
    <3> QED
      BY <2>2, <2>3, <3>1, <3>2, <3>3, NodeFacts, SharedStep
  <2> HIDE DEF a
  <2>12. NodeInv(clock, shared, gens', backend, a, live[n], file[n], mem[n], job[n])
    <3>1. RingInv(shared, file[n], mem[n]) /\ AckInv(shared, gens', acks[n], live[n], mem[n])
          /\ (\A v \in Workers : JobInv(shared, gens', backend, acks[n], file[n], mem[n], job[n][v]))
          /\ SignInv(clock, shared, gens', backend, acks[n], file[n], mem[n], job[n])
      BY <2>11 DEF NodeInv
    <3>2. a = acks[n] \cup j.loaded /\ a # {}
      BY <2>2 DEF a
    <3>3. AckInv(shared, gens', a, live[n], mem[n])
      BY <1>3, <2>2, <2>3, <3>1, <3>2 DEF AckInv
    <3>4. \A v \in Workers : JobInv(shared, gens', backend, a, file[n], mem[n], job[n][v])
      BY <3>1, <3>2 DEF JobInv
    <3>5. SignInv(clock, shared, gens', backend, a, file[n], mem[n], job[n])
      BY <3>1, <3>2 DEF SignInv
    <3> QED
      BY <3>1, <3>3, <3>4, <3>5 DEF NodeInv
  <2>13. NodeInv(clock, shared, gens', backend, a, live[n], file[n], mem[n], J)
    <3>1. a # {}
      BY <2>2 DEF a
    <3>2. shared.epoch <= shared.epoch
      BY <2>2 DEF Shared
    <3>3. JobInv(shared, gens', backend, a, file[n], mem[n], i)
      BY <1>3, <2>1, <2>5, <3>1, <3>2 DEF JobInv
    <3>4. mem[n].ring.active = shared.active /\ shared.active \in backend \ gens'.retired
      BY <2>1, <2>3 DEF Selected, IInv, AuthorityInv
    <3>5. job[n] \in [Workers -> Job]
      BY NodeFacts
    <3> QED
      BY <2>5, <2>12, <3>3, <3>4, <3>5, JobStep
  <2> HIDE DEF J
  <2> QED
    BY <1>1, <2>6, <2>7, <2>8, <2>9, <2>10, <2>11, <2>13, NodeStep
<1> QED
  BY <1>1, <1>4, <1>5

(* An admin call of a node that serves, once the authority has changed:    *)
(* the node no longer counts as ready and applies the change.              *)
LEMMA AdminStep ==
    ASSUME IInv, NEW n \in Nodes, mem[n].up, UNCHANGED <<clock, acks, live, file, backend, issued>>,
           shared' \in Shared, gens' \in Generations, AuthorityInv', IssuedInv',
           \A m \in Nodes : NodeInv(clock, shared', gens', backend, acks[m], live[m], file[m], mem[m], job[m]),
           NEW q, q = [mem[n] EXCEPT !.ready = FALSE, !.observed = 0], mem' = [mem EXCEPT ![n] = q],
           NEW j \in Job, SetJob(n, "admin", j), j.pc \in {"apply", "withdraw"}, j.retired \subseteq gens'.retired,
           j.active = shared'.active, j.pc = "withdraw" => j.key \in gens'.retired
    PROVE  IInv'
<1> DEFINE J == [job[n] EXCEPT !["admin"] = j]
<1>1. "admin" \in Workers
  BY DEF Workers
<1>2. /\ job' \in [Nodes -> [Workers -> Job]] /\ job'[n] = J /\ \A m \in Nodes \ {n} : job'[m] = job[m]
  BY <1>1, SetJobFacts DEF IInv
<1>3. mem[n] \in Process
  BY NodeFacts
<1>4. q \in Process /\ q.up = mem[n].up
      /\ NodeInv(clock, shared', gens', backend, acks[n], live[n], file[n], q, job[n])
  <2>1. /\ q \in Process /\ q.up = mem[n].up /\ q.ring = mem[n].ring /\ q.lag = mem[n].lag
        /\ ~q.ready /\ q.observed = 0
    BY <1>3 DEF Process
  <2> QED
    BY <1>3, <2>1, UnreadyStep
<1>5. TypeOK'
  BY <1>2, <1>4 DEF IInv, TypeOK
<1>6. shared'.active # NoKey /\ shared'.active.kid <= shared'.active.kid
  BY Constants DEF Shared
<1>7. JobInv(shared', gens', backend, acks[n], file[n], q, j)
  BY <1>4, <1>6 DEF JobInv
<1>8. NodeInv(clock, shared', gens', backend, acks[n], live[n], file[n], q, J)
  BY <1>1, <1>4, <1>7, NodeFacts, JobStep
<1>9. mem'[n] = q /\ \A m \in Nodes \ {n} : mem'[m] = mem[m]
  BY DEF IInv, TypeOK
<1> HIDE DEF J
<1> QED
  BY <1>2, <1>5, <1>8, <1>9, NodeStep

(* The key that is activated is at the backend, every live node has        *)
(* acknowledged it, and its kid is not below that of the key it replaces.  *)
LEMMA ActivatedKey ==
    ASSUME IInv, NEW n \in Nodes, job[n]["admin"].pc = "activate", mem[n].ready,
           NEW k, k = job[n]["admin"].key, k \in gens.recorded \ gens.retired, ActivationBarrier(k)
    PROVE  /\ mem[n].up /\ k \in Keys /\ k \in backend /\ shared.active.kid <= k.kid
           /\ \A m \in Nodes : acks[m] # {} => k \in acks[m]
<1>1. "admin" \in Workers
  BY DEF Workers
<1>2. k \in backend /\ k.kid = Top(mem[n].ring) /\ k \in Keys
  <2>1. k \in backend \cup gens.retired /\ k.kid = Top(mem[n].ring)
    BY <1>1, NodeFacts DEF JobInv
  <2> QED
    BY <2>1 DEF IInv, TypeOK
<1>3. mem[n].up /\ acks[n] # {}
  BY NodeFacts DEF SignInv
<1>4. shared.active.kid <= k.kid
  BY <1>2, <1>3, NodeFacts DEF AckInv
<1>5. ASSUME NEW m \in Nodes, acks[m] # {} PROVE k \in acks[m]
  <2>1. live[m]
    BY <1>5, NodeFacts DEF AckInv
  <2> QED
    BY <2>1 DEF ActivationBarrier
<1> QED
  BY <1>2, <1>3, <1>4, <1>5

LEMMA AdminActivateKeeps ==
    ASSUME IInv, NEW n \in Nodes, AdminActivate(n)
    PROVE  IInv'
<1> DEFINE i == job[n]["admin"]
           k == i.key
           j == [NoJob EXCEPT !.pc = "apply", !.active = k, !.retired = gens.retired]
           q == [mem[n] EXCEPT !.ready = FALSE, !.observed = 0]
           go == mem[n].ready /\ k \in gens.recorded \ gens.retired /\ ActivationBarrier(k)
           g == [Superseded(gens, shared.active) EXCEPT !.after[k] = 0]
<1>1. /\ i.pc = "activate" /\ UNCHANGED <<clock, acks, live, file, backend, issued>>
      /\ \/ /\ go /\ shared' = [active |-> k, epoch |-> shared.epoch + 1]
            /\ gens' = g /\ mem' = [mem EXCEPT ![n] = q] /\ SetJob(n, "admin", j)
         \/ SetJob(n, "admin", NoJob) /\ UNCHANGED <<shared, gens, mem>>
  BY DEF AdminActivate, IInv, TypeOK
<1>2. /\ clock \in Nat /\ shared \in Shared /\ gens \in Generations /\ backend \in SUBSET Keys
      /\ shared.active \in Keys /\ shared.epoch \in Nat
  BY DEF IInv, TypeOK, Shared
<1>3. CASE SetJob(n, "admin", NoJob) /\ UNCHANGED <<shared, gens, mem>>
  <2>1. JobInv(shared, gens, backend', acks[n], file[n], mem[n], NoJob)
    BY NoJobType, QuietJob
  <2>2. backend' \subseteq Keys /\ backend \subseteq backend' \cup gens.retired /\ "admin" \in Workers
    BY <1>1, <1>2 DEF Workers
  <2> HIDE DEF i, j, q, go, g
  <2> QED
    BY <1>1, <1>3, <2>1, <2>2, NoJobType, JobKeeps
<1>4. CASE /\ go /\ shared' = [active |-> k, epoch |-> shared.epoch + 1]
           /\ gens' = g /\ mem' = [mem EXCEPT ![n] = q] /\ SetJob(n, "admin", j)
  <2>1. /\ mem[n].up /\ k \in Keys /\ k \in backend /\ shared.active.kid <= k.kid
        /\ \A m \in Nodes : acks[m] # {} => k \in acks[m]
    BY <1>1, <1>4, ActivatedKey
  <2>2. j \in Job /\ j.pc = "apply" /\ j.active = k /\ j.retired = gens.retired
    BY <1>2, <2>1 DEF NoJob, Job, Generations
  <2>3. k \in gens.recorded \ gens.retired /\ shared' = [active |-> k, epoch |-> shared.epoch + 1]
        /\ gens' = g /\ mem' = [mem EXCEPT ![n] = q] /\ SetJob(n, "admin", j)
    BY <1>4
  <2> HIDE DEF k, i, j, go
  <2>4. /\ shared' \in Shared /\ shared'.active = k /\ shared'.epoch = shared.epoch + 1
        /\ shared.epoch <= shared'.epoch /\ shared'.epoch # shared.epoch
    BY <1>2, <2>1, <2>3 DEF Shared
  <2>5. /\ g \in Generations /\ g.recorded = gens.recorded /\ g.retired = gens.retired
        /\ \A x \in Keys : g.after[x] = IF x = k THEN 0
                                        ELSE IF x = shared.active THEN clock + Horizon ELSE gens.after[x]
    <3> DEFINE after == [[gens.after EXCEPT ![shared.active] = clock + Horizon] EXCEPT ![k] = 0]
    <3>1. g = [gens EXCEPT !.after = after]
      BY <1>2 DEF Superseded, Generations
    <3>2. gens.after \in [Keys -> Nat] /\ clock + Horizon \in Nat
      BY <1>2, Constants DEF Generations
    <3>3. /\ after \in [Keys -> Nat]
          /\ \A x \in Keys : after[x] = IF x = k THEN 0
                                        ELSE IF x = shared.active THEN clock + Horizon ELSE gens.after[x]
      BY <1>2, <2>1, <3>2
    <3> HIDE DEF after, g
    <3> QED
      BY <1>2, <3>1, <3>3 DEF Generations
  <2> HIDE DEF g
  <2>6. AuthorityInv'
    BY <1>1, <2>1, <2>3, <2>4, <2>5 DEF IInv, AuthorityInv
  <2>7. IssuedInv'
    <3> SUFFICES ASSUME NEW x \in Keys
                 PROVE  /\ issued[x] <= clock + TTL
                        /\ clock < issued[x] => /\ x \in backend \ gens.retired
                                                /\ x = k \/ issued[x] <= g.after[x]
      BY <1>1, <2>3, <2>4, <2>5 DEF IssuedInv
    <3>1. /\ issued[x] <= clock + TTL
          /\ clock < issued[x] => /\ x \in backend \ gens.retired
                                  /\ x = shared.active \/ issued[x] <= gens.after[x]
      BY DEF IInv, IssuedInv
    <3>2. issued[x] \in Nat /\ issued[x] <= clock + Horizon
      BY <1>2, <3>1, Constants DEF IInv, TypeOK
    <3> QED
      BY <2>5, <3>1, <3>2
  <2>8. ASSUME NEW m \in Nodes
        PROVE  NodeInv(clock, shared', gens', backend, acks[m], live[m], file[m], mem[m], job[m])
    <3> DEFINE x == mem[m].ring.active
    <3>1. x \in Keys /\ mem[m].lag \in Nat
      BY NodeFacts DEF Process, Keyring
    <3>2. Signing(mem[m], job[m]) =>
             /\ x \in backend \ gens.retired
             /\ x # shared.active => clock + Horizon <= gens.after[x] + mem[m].lag
      BY NodeFacts DEF SignInv
    <3> HIDE DEF x
    <3>3. Signing(mem[m], job[m]) =>
             /\ x \in backend \ g.retired
             /\ x # k => clock + Horizon <= g.after[x] + mem[m].lag
      <4>1. clock + Horizon \in Nat /\ clock + Horizon <= clock + Horizon + mem[m].lag
        BY <1>2, <3>1, Constants
      <4> QED
        BY <2>5, <3>1, <3>2, <4>1
    <3>4. /\ shared.active.kid <= shared'.active.kid
          /\ gens.recorded \subseteq gens'.recorded /\ gens.retired \subseteq gens'.retired /\ gens' \in Generations
          /\ backend \subseteq backend \cup gens'.retired /\ (acks[m] # {} => shared'.active \in acks[m])
      BY <2>1, <2>3, <2>4, <2>5
    <3>5. Signing(mem[m], job[m]) =>
             /\ mem[m].ring.active \in backend \ gens'.retired
             /\ mem[m].ring.active # shared'.active
                => clock + Horizon <= gens'.after[mem[m].ring.active] + mem[m].lag
      BY <2>3, <2>4, <3>3 DEF x
    <3> QED
      BY <1>2, <2>4, <3>4, <3>5, NodeFacts, SharedStep
  <2>9. j.pc \in {"apply", "withdraw"} /\ j.retired \subseteq gens'.retired /\ j.active = shared'.active
        /\ gens' \in Generations /\ j.pc # "withdraw"
    BY <2>2, <2>3, <2>4, <2>5
  <2>10. PICK z : z = q
    OBVIOUS
  <2>11. z = [mem[n] EXCEPT !.ready = FALSE, !.observed = 0] /\ mem' = [mem EXCEPT ![n] = z]
    BY <2>3, <2>10
  <2> HIDE DEF q
  <2> QED
    BY <1>1, <2>1, <2>2, <2>3, <2>4, <2>6, <2>7, <2>8, <2>9, <2>11, AdminStep
<1> QED
  BY <1>1, <1>3, <1>4

LEMMA AdminRetireKeeps ==
    ASSUME IInv, NEW n \in Nodes, AdminRetire(n)
    PROVE  IInv'
<1> DEFINE q == [mem[n] EXCEPT !.ready = FALSE, !.observed = 0]
<1>1. PICK k \in gens.recorded \ gens.retired :
         /\ k # shared.active /\ clock >= gens.after[k]
         /\ gens' = [gens EXCEPT !.retired = gens.retired \cup {k}]
         /\ shared' = [shared EXCEPT !.epoch = shared.epoch + 1]
         /\ mem' = [mem EXCEPT ![n] = q]
         /\ SetJob(n, "admin", [NoJob EXCEPT !.pc = "withdraw", !.key = k, !.active = shared.active,
                                             !.retired = gens.retired \cup {k}])
  BY DEF AdminRetire, IInv, TypeOK
<1>2. mem[n].up /\ UNCHANGED <<clock, acks, live, file, backend, issued>>
  BY DEF AdminRetire
<1>3. /\ clock \in Nat /\ shared \in Shared /\ gens \in Generations /\ backend \in SUBSET Keys
      /\ shared.active \in Keys /\ shared.epoch \in Nat /\ k \in Keys /\ gens.after[k] \in Nat
  BY DEF IInv, TypeOK, Shared, Generations
<1> DEFINE j == [NoJob EXCEPT !.pc = "withdraw", !.key = k, !.active = shared.active,
                              !.retired = gens.retired \cup {k}]
<1>4. j \in Job /\ j.pc = "withdraw" /\ j.key = k /\ j.active = shared.active /\ j.retired = gens.retired \cup {k}
  BY <1>3 DEF NoJob, Job, Generations
<1>5. SetJob(n, "admin", j) /\ mem' = [mem EXCEPT ![n] = q]
  BY <1>1
<1> HIDE DEF j
<1>6. /\ gens' \in Generations /\ gens'.recorded = gens.recorded /\ gens'.retired = gens.retired \cup {k}
      /\ gens'.after = gens.after
  BY <1>1, <1>3 DEF Generations
<1>7. /\ shared' \in Shared /\ shared'.active = shared.active /\ shared'.epoch = shared.epoch + 1
      /\ shared.epoch <= shared'.epoch /\ shared'.epoch # shared.epoch
  BY <1>1, <1>3 DEF Shared
<1>8. AuthorityInv'
  BY <1>1, <1>2, <1>6, <1>7 DEF IInv, AuthorityInv
<1>9. IssuedInv'
  <2>1. \A x \in Keys : issued[x] \in Nat
    BY DEF IInv, TypeOK
  <2>2. ~(clock < issued[k])
    BY <1>1, <1>3, <2>1 DEF IInv, IssuedInv
  <2> QED
    BY <1>2, <1>6, <1>7, <2>2 DEF IInv, IssuedInv
<1>10. ASSUME NEW m \in Nodes
       PROVE  NodeInv(clock, shared', gens', backend, acks[m], live[m], file[m], mem[m], job[m])
  <2>1. ASSUME Signing(mem[m], job[m])
        PROVE  /\ mem[m].ring.active \in backend \ gens'.retired
               /\ mem[m].ring.active # shared'.active
                  => clock + Horizon <= gens'.after[mem[m].ring.active] + mem[m].lag
    <3>1. /\ mem[m].ring.active \in backend \ gens.retired
          /\ mem[m].ring.active # shared.active
             => /\ clock + Horizon <= gens.after[mem[m].ring.active] + mem[m].lag
                /\ clock < gens.after[mem[m].ring.active]
      BY <1>3, <2>1, NodeFacts, SigningKeyKept
    <3>2. mem[m].ring.active # k
      BY <1>1, <1>3, <3>1
    <3> QED
      BY <1>6, <1>7, <3>1, <3>2
  <2>2. /\ shared.active.kid <= shared'.active.kid
        /\ gens.recorded \subseteq gens'.recorded /\ gens.retired \subseteq gens'.retired
        /\ backend \subseteq backend \cup gens'.retired
    BY <1>3, <1>6, <1>7, Constants
  <2>3. acks[m] # {} => shared'.active \in acks[m]
    BY <1>7, NodeFacts DEF AckInv
  <2> QED
    BY <1>3, <1>6, <1>7, <2>1, <2>2, <2>3, NodeFacts, SharedStep
<1>11. j.pc \in {"apply", "withdraw"} /\ j.retired \subseteq gens'.retired /\ j.active = shared'.active
       /\ j.key \in gens'.retired
  BY <1>4, <1>6, <1>7
<1>12. PICK z : z = q
  OBVIOUS
<1>13. z = [mem[n] EXCEPT !.ready = FALSE, !.observed = 0] /\ mem' = [mem EXCEPT ![n] = z]
  BY <1>5, <1>12
<1> HIDE DEF q
<1> QED
  BY <1>2, <1>4, <1>5, <1>6, <1>7, <1>8, <1>9, <1>10, <1>11, <1>13, AdminStep

-----------------------------------------------------------------------------
(***************************************************************************)
(* Time.                                                                   *)
(***************************************************************************)
(* A node that signs with a superseded key has not noticed the new epoch:  *)
(* its lag grows with the clock, and no further than WatchLag.             *)
LEMMA TickKeeps ==
    ASSUME IInv, Tick
    PROVE  IInv'
<1> DEFINE P(n) == [mem[n] EXCEPT !.lag = IF Lagging(n) THEN @ + 1 ELSE 0]
<1>1. /\ clock' = clock + 1 /\ mem' = [n \in Nodes |-> P(n)]
      /\ \A n \in Nodes : Lagging(n) => mem[n].lag < WatchLag
      /\ UNCHANGED <<shared, gens, acks, live, file, job, backend>>
      /\ issued' = [k \in Keys |-> IF issued[k] > clock' THEN issued[k] ELSE 0]
  BY DEF Tick
<1>2. /\ clock \in Nat /\ shared \in Shared /\ gens \in Generations /\ issued \in [Keys -> Nat]
      /\ clock' \in Nat
  BY <1>1 DEF IInv, TypeOK
<1>3. IssuedInv'
  <2>1. \A k \in Keys : issued'[k] = IF issued[k] > clock' THEN issued[k] ELSE 0
    BY <1>1
  <2>2. \A k \in Keys : issued[k] \in Nat
    BY <1>2
  <2> QED
    BY <1>1, <1>2, <2>1, <2>2, Constants DEF IInv, IssuedInv
<1>4. ASSUME NEW n \in Nodes
      PROVE  mem'[n] \in Process
             /\ NodeInv(clock', shared, gens, backend, acks[n], live[n], file[n], mem'[n], job[n])
  <2> DEFINE p == mem[n]
             q == mem'[n]
             late == IF Lagging(n) THEN p.lag + 1 ELSE 0
  <2>1. p \in Process /\ p.lag \in Nat /\ late \in Nat
    BY NodeFacts DEF Process
  <2>2. q = [p EXCEPT !.lag = late]
    BY <1>1
  <2>3. Lagging(n) => p.lag < WatchLag
    BY <1>1
  <2>4. late = IF Lagging(n) THEN p.lag + 1 ELSE 0
    OBVIOUS
  <2> HIDE DEF late, q
  <2>5. q \in Process /\ q.up = p.up /\ q.ring = p.ring /\ q.lag = late /\ q.ready = p.ready
        /\ q.observed = p.observed
    BY <2>1, <2>2 DEF Process
  <2>6. RingInv(shared, file[n], q)
    BY <2>5, NodeFacts DEF RingInv
  <2>7. AckInv(shared, gens, acks[n], live[n], q)
    BY <2>5, NodeFacts DEF AckInv
  <2>8. \A w \in Workers : JobInv(shared, gens, backend, acks[n], file[n], q, job[n][w])
    BY <2>5, NodeFacts DEF JobInv, Selected
  <2>9. SignInv(clock', shared, gens, backend, acks[n], file[n], q, job[n])
    <3>1. SignInv(clock, shared, gens, backend, acks[n], file[n], p, job[n])
      BY NodeFacts
    <3>2. q.lag <= WatchLag
      BY <2>1, <2>3, <2>4, <2>5, Constants
    <3>3. ASSUME Signing(p, job[n]), p.ring.active # shared.active
          PROVE  clock' + Horizon <= gens.after[p.ring.active] + late
      <4>1. Lagging(n)
        <5>1. CASE p.ready
          BY <3>1, <3>3, <5>1 DEF SignInv, Selected, Lagging
        <5>2. CASE \E w \in Workers : job[n][w].pc = "publish"
          BY <3>3, <5>2, NodeFacts DEF JobInv, Selected, Lagging
        <5> QED
          BY <3>3, <5>1, <5>2 DEF Signing
      <4>2. clock + Horizon <= gens.after[p.ring.active] + p.lag
        BY <3>1, <3>3 DEF SignInv
      <4>3. gens.after[p.ring.active] \in Nat
        BY <1>2, <2>1 DEF Generations, Process, Keyring
      <4> HIDE DEF p
      <4> QED
        BY <1>1, <1>2, <2>1, <2>4, <4>1, <4>2, <4>3, Constants
    <3> HIDE DEF p
    <3> QED
      BY <2>5, <3>1, <3>2, <3>3 DEF SignInv, Signing, Selected
  <2> QED
    BY <2>5, <2>6, <2>7, <2>8, <2>9 DEF NodeInv, q
<1>5. mem' \in [Nodes -> Process]
  BY <1>1, <1>4
<1>6. issued' \in [Keys -> Nat]
  BY <1>1, <1>2
<1>7. TypeOK'
  BY <1>1, <1>2, <1>5, <1>6 DEF IInv, TypeOK
<1>8. AuthorityInv'
  BY <1>1 DEF IInv, AuthorityInv
<1>9. NodesInv'
  BY <1>1, <1>4 DEF NodesInv
<1> QED
  BY <1>3, <1>7, <1>8, <1>9 DEF IInv

-----------------------------------------------------------------------------
LEMMA InitInv == Init => IInv
<1> SUFFICES ASSUME Init PROVE IInv
  OBVIOUS
<1>1. FirstKey \in Keys /\ NewKeyring \in Keyring /\ NewKeyring.active = FirstKey
  BY Constants DEF NewKeyring, Keyring
<1>2. Down(0) \in Process /\ ~Down(0).up /\ ~Down(0).ready /\ Down(0).observed = 0 /\ Down(0).lag = 0
      /\ Sound(Down(0).ring)
  BY DownType
<1>3. Sound(NewKeyring)
  BY Constants DEF NewKeyring, Sound, OnePerKid, Top
<1>4. TypeOK
  BY <1>1, <1>2, NoJobType DEF Init, TypeOK, Shared, Generations
<1>5. AuthorityInv
  BY DEF Init, AuthorityInv, OnePerKid
<1>6. IssuedInv
  BY Constants DEF Init, IssuedInv
<1>7. ASSUME NEW n \in Nodes
      PROVE  NodeInv(clock, shared, gens, backend, acks[n], live[n], file[n], mem[n], job[n])
  <2>1. /\ shared.active = FirstKey /\ shared.epoch = 1 /\ acks[n] = {} /\ file[n] = NewKeyring /\ mem[n] = Down(0)
        /\ \A w \in Workers : job[n][w] = NoJob
    BY DEF Init
  <2>2. RingInv(shared, file[n], mem[n])
    BY <1>1, <1>2, <1>3, <2>1, Constants DEF RingInv
  <2>3. AckInv(shared, gens, acks[n], live[n], mem[n])
    BY <1>2, <2>1 DEF AckInv
  <2>4. \A w \in Workers : JobInv(shared, gens, backend, acks[n], file[n], mem[n], job[n][w])
    BY <2>1, NoJobType, QuietJob
  <2>5. ~Signing(mem[n], job[n])
    BY <1>2, <2>1, NoJobType DEF Signing
  <2>6. SignInv(clock, shared, gens, backend, acks[n], file[n], mem[n], job[n])
    BY <1>2, <2>1, <2>5, Constants DEF SignInv
  <2> QED
    BY <2>2, <2>3, <2>4, <2>6 DEF NodeInv
<1> QED
  BY <1>4, <1>5, <1>6, <1>7 DEF IInv, NodesInv

LEMMA NextKeeps == IInv /\ [Next]_vars => IInv'
<1> SUFFICES ASSUME IInv, [Next]_vars PROVE IInv'
  OBVIOUS
<1>1. CASE UNCHANGED vars
  BY <1>1 DEF vars, IInv, TypeOK, AuthorityInv, NodesInv, IssuedInv
<1>2. CASE Tick
  BY <1>2, TickKeeps
<1>3. ASSUME NEW n \in Nodes, PrepareRotation(n) \/ Start(n) \/ Crash(n) \/ Lapse(n) \/ Exit(n)
      PROVE  IInv'
  BY <1>3, PrepareRotationKeeps, StartKeeps, CrashKeeps, LapseKeeps DEF Exit
<1>4. ASSUME NEW n \in Nodes, Issue(n) \/ Watch(n) \/ LoadIdentity(n)
      PROVE  IInv'
  BY <1>4, IssueKeeps, WatchKeeps, LoadIdentityKeeps
<1>5. ASSUME NEW n \in Nodes, AdminAccept(n) \/ AdminActivate(n) \/ AdminRetire(n) \/ AdminWithdraw(n)
      PROVE  IInv'
  BY <1>5, AdminAcceptKeeps, AdminActivateKeeps, AdminRetireKeeps, AdminWithdrawKeeps
<1>6. ASSUME NEW n \in Nodes, NEW w \in Workers, Apply(n, w) \/ ActivatePrepared(n, w) \/ RetireNext(n, w)
      PROVE  IInv'
  BY <1>6, ApplyKeeps, ActivatePreparedKeeps, RetireNextKeeps
<1>7. ASSUME NEW n \in Nodes, NEW w \in Workers, RetireAfter(n, w) \/ Synchronize(n, w) \/ Publish(n, w)
      PROVE  IInv'
  BY <1>7, RetireAfterKeeps, SynchronizeKeeps, PublishKeeps
<1> QED
  BY <1>1, <1>2, <1>3, <1>4, <1>5, <1>6, <1>7 DEF Next

-----------------------------------------------------------------------------
(* Every state the cluster reaches satisfies the inductive invariant.      *)
THEOREM Invariance == Spec => []IInv
<1> QED
  BY InitInv, NextKeeps, PTL DEF Spec

(* The types of keyrings, processes, reconciliations and the authority's   *)
(* rows.                                                                   *)
THEOREM TypeCorrect == Spec => []TypeOK
<1>1. IInv => TypeOK
  BY DEF IInv
<1> QED
  BY <1>1, Invariance, PTL

(* A node in service under the current epoch signs with the key the        *)
(* authority selected, and has it as active key in its file                *)
(* (synchronizeCryptoOnce, saveKeyringLocked).                             *)
THEOREM ServesSelected == Spec => []ServesSelectedKey
<1>1. IInv => ServesSelectedKey
  <2> SUFFICES ASSUME IInv PROVE ServesSelectedKey
    OBVIOUS
  <2> QED
    BY NodeFacts DEF SignInv, Selected, ServesSelectedKey
<1> QED
  BY <1>1, Invariance, PTL

(* The backend can verify every assertion that has not expired: it has the *)
(* key before the first node signs with it and keeps it until the last     *)
(* assertion has expired (AcceptPrepared, SignerRetirementHorizon), as     *)
(* long as a node notices a new epoch within the clock skew the horizon    *)
(* allows for.                                                             *)
THEOREM LiveKeys == Spec => []LiveVerifiable
<1>1. IInv => LiveVerifiable
  BY DEF IInv, IssuedInv, LiveVerifiable
<1> QED
  BY <1>1, Invariance, PTL

(* A rotation never goes back to an older generation, although no call     *)
(* compares kids: whoever activates a key acknowledged the selected one,   *)
(* and acknowledges none above the one it activates.                       *)
NoRollback == shared.active.kid <= shared'.active.kid

THEOREM NeverRolledBack == Spec => [][NoRollback]_vars
<1>1. IInv /\ [Next]_vars => [NoRollback]_vars
  <2> SUFFICES ASSUME IInv, Next PROVE NoRollback
    BY DEF NoRollback
  <2>1. shared.active.kid <= shared.active.kid
    BY Constants DEF IInv, TypeOK, Shared
  <2>2. ASSUME NEW n \in Nodes, AdminActivate(n) PROVE NoRollback
    BY <2>1, <2>2, ActivatedKey DEF AdminActivate, NoRollback
  <2>3. ASSUME NEW n \in Nodes, AdminRetire(n) PROVE NoRollback
    <3>1. shared' = [shared EXCEPT !.epoch = @ + 1]
      BY <2>3 DEF AdminRetire
    <3>2. shared'.active = shared.active
      BY <3>1 DEF IInv, TypeOK, Shared
    <3> QED
      BY <2>1, <3>2 DEF NoRollback
  <2>4. CASE UNCHANGED shared
    BY <2>1, <2>4 DEF NoRollback
  <2>5. ASSUME NEW n \in Nodes, PrepareRotation(n) \/ Start(n) \/ Crash(n) \/ Lapse(n) \/ Exit(n)
        PROVE  UNCHANGED shared
    BY <2>5 DEF PrepareRotation, Start, Crash, Lapse, Exit
  <2>6. ASSUME NEW n \in Nodes, Issue(n) \/ Watch(n) \/ LoadIdentity(n) \/ AdminAccept(n) \/ AdminWithdraw(n)
        PROVE  UNCHANGED shared
    BY <2>6 DEF Issue, Watch, LoadIdentity, AdminAccept, AdminWithdraw
  <2>7. ASSUME NEW n \in Nodes, NEW w \in Workers,
               \/ Apply(n, w) \/ ActivatePrepared(n, w) \/ RetireNext(n, w)
               \/ RetireAfter(n, w) \/ Synchronize(n, w) \/ Publish(n, w)
        PROVE  UNCHANGED shared
    BY <2>7 DEF Apply, ActivatePrepared, RetireNext, RetireAfter, Synchronize, Publish
  <2>8. CASE Tick
    BY <2>4, <2>8 DEF Tick
  <2> QED
    BY <2>2, <2>3, <2>4, <2>5, <2>6, <2>7, <2>8 DEF Next
<1>2. Spec => [][Next]_vars
  BY PTL DEF Spec
<1> QED
  BY <1>1, <1>2, Invariance, PTL
=============================================================================
