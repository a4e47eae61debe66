-------------------------- MODULE PepperGenerations --------------------------
(***************************************************************************)
(* Rotation of the pepper under which credential verifiers are stored, in  *)
(* a cluster that shares one PostgreSQL authority.                         *)
(*                                                                         *)
(*   - The authority (internal/statepg/crypto.go) keeps the active         *)
(*     generation, the retired ones and an epoch; an activation needs the  *)
(*     acknowledgement of every live node, a retirement that no credential *)
(*     is stored under the generation.                                     *)
(*   - A node holds a PepperRing, a ready flag and the authority state it  *)
(*     last acknowledged.  Its reconciler, and the admin handler that made *)
(*     a change, bring the ring in line (cmd/gripline/runtime_crypto.go).  *)
(*   - Requests authenticate against the shared registry with the node's   *)
(*     ring and migrate a verifier found under an older generation         *)
(*     (internal/terminator/admission_support.go).                         *)
(*                                                                         *)
(* All nodes stay members; the signer and pseudonym kinds are left out.    *)
(***************************************************************************)
EXTENDS Integers, FiniteSets, FiniteSetsExt

CONSTANTS
    Nodes,
    Versions,       \* pepper generations, loaded by every node at the start
    FirstActive,    \* the generation active at the start
    Stored,         \* generations the credential may be stored under initially
    Requests,       \* request slots
    Retirable,      \* generations an operator may retire
    MaxEpoch,       \* bound on authority changes
    MaxRevision     \* bound on verifier migrations

ASSUME GenerationAssumption ==
    /\ Versions \subseteq Nat \ {0} /\ IsFiniteSet(Versions)
    /\ FirstActive \in Versions
    /\ Stored \subseteq Versions /\ Retirable \subseteq Versions
    /\ MaxEpoch \in Nat /\ MaxRevision \in Nat

VARIABLES
    shared,     \* gripline_cluster_crypto and the retired generations
    acks,       \* node -> generations it acknowledged
    ring,       \* node -> its PepperRing: loaded generations, selected one
    serving,    \* node -> ready flag and the observation it acknowledged
    job,        \* node -> worker -> reconciliation in progress
    cred,       \* the credential: generation of its verifier, revision
    auth        \* request -> authentication in progress

vars == <<shared, acks, ring, serving, job, cred, auth>>

Workers == {"reconciler", "admin"}

Observation == [active : Versions, epoch : Nat]

observationFor == [active |-> shared.active, epoch |-> shared.epoch]

NoJob == [pc |-> "idle", active |-> FirstActive, retired |-> {}, loaded |-> {},
          epoch |-> 0]

NoAuth(n) == [pc |-> "idle", node |-> n, latest |-> 0, todo |-> {}, revision |-> 0]

Init ==
    /\ shared = [active |-> FirstActive, retired |-> {}, epoch |-> 1]
    /\ acks = [n \in Nodes |-> Versions]
    /\ ring = [n \in Nodes |-> [loaded |-> Versions, active |-> FirstActive]]
    /\ serving = [n \in Nodes |-> [ready |-> TRUE, observed |-> observationFor]]
    /\ job = [n \in Nodes |-> [w \in Workers |-> NoJob]]
    /\ cred \in [pepper : Stored, revision : {1}]
    /\ auth \in [Requests -> {NoAuth(n) : n \in Nodes}]

(* PepperRing.Latest: the selected generation, or the highest loaded when  *)
(* the selected one is gone.                                               *)
Latest(n) == IF ring[n].active \in ring[n].loaded THEN ring[n].active
             ELSE Max(ring[n].loaded)

-----------------------------------------------------------------------------
(***************************************************************************)
(* The operator, through the admin API of node n.                          *)
(***************************************************************************)
StartAdminJob(n, state) ==
    job' = [job EXCEPT ![n]["admin"] =
              [NoJob EXCEPT !.pc = "apply", !.active = state.active, !.retired = state.retired]]

Withdraw(n) == serving' = [serving EXCEPT ![n].ready = FALSE]

(* requireCryptoActivationBarrier: every live node has the generation.     *)
ActivationBarrier(v) == \A m \in Nodes : v \in acks[m]

ActivateGeneration(n, v) ==
    /\ shared.epoch < MaxEpoch
    /\ job[n]["admin"].pc = "idle"
    /\ v \in ring[n].loaded
    /\ serving[n].ready
    /\ v \notin shared.retired
    /\ ActivationBarrier(v)
    /\ shared' = [shared EXCEPT !.active = v, !.epoch = @ + 1]
    /\ Withdraw(n)
    /\ StartAdminJob(n, shared')
    /\ UNCHANGED <<acks, ring, cred, auth>>

(* requireCryptoRetirementSafety: no credential is stored under it.        *)
RetirementSafe(v) == cred.pepper # v

RetireGeneration(n, v) ==
    /\ shared.epoch < MaxEpoch
    /\ job[n]["admin"].pc = "idle"
    /\ serving[n].ready
    /\ v \in Retirable \ shared.retired
    /\ v # shared.active
    /\ RetirementSafe(v)
    /\ shared' = [shared EXCEPT !.retired = @ \cup {v}, !.epoch = @ + 1]
    /\ Withdraw(n)
    /\ StartAdminJob(n, shared')
    /\ UNCHANGED <<acks, ring, cred, auth>>

-----------------------------------------------------------------------------
(***************************************************************************)
(* Reconciliation.                                                         *)
(***************************************************************************)
SetJob(n, w, state) == job' = [job EXCEPT ![n][w] = state]

(* CryptoReady: the acknowledged observation no longer matches.            *)
CryptoReady(n) ==
    /\ serving[n].ready
    /\ serving[n].observed # observationFor
    /\ Withdraw(n)
    /\ UNCHANGED <<shared, acks, ring, job, cred, auth>>

(* LoadCryptoIdentity: the active generation, then, in a second query, the *)
(* retired ones.                                                           *)
LoadActive(n) ==
    /\ job[n]["reconciler"].pc = "idle"
    /\ ~serving[n].ready
    /\ SetJob(n, "reconciler", [NoJob EXCEPT !.pc = "load", !.active = shared.active])
    /\ UNCHANGED <<shared, acks, ring, serving, cred, auth>>

LoadRetired(n) ==
    /\ job[n]["reconciler"].pc = "load"
    /\ SetJob(n, "reconciler",
              [job[n]["reconciler"] EXCEPT !.pc = "apply", !.retired = shared.retired])
    /\ UNCHANGED <<shared, acks, ring, serving, cred, auth>>

(* Mutant: dropping a retired generation keeps only the selected one. *)
DropRetiredAndUnused(n, w) ==
    /\ job[n][w].pc = "apply"
    /\ job[n][w].retired \cap ring[n].loaded # {}
    /\ ring' = [ring EXCEPT ![n].loaded = {Latest(n)}]
    /\ UNCHANGED <<shared, acks, serving, job, cred, auth>>

(* The retire loop: RetireVersion refuses the generation the ring selects, *)
(* and the reconciliation gives up.                                        *)
DropRetired(n, w) ==
    LET todo == job[n][w].retired \cap ring[n].loaded
    IN  /\ job[n][w].pc = "apply"
        /\ todo # {}
        /\ LET v == Min(todo)
           IN  IF v = Latest(n)
               THEN SetJob(n, w, NoJob) /\ UNCHANGED ring
               ELSE ring' = [ring EXCEPT ![n].loaded = @ \ {v}] /\ UNCHANGED job
        /\ UNCHANGED <<shared, acks, serving, cred, auth>>

(* SetActiveVersion, refused for a generation the node has not loaded.     *)
SelectActive(n, w) ==
    /\ job[n][w].pc = "apply"
    /\ job[n][w].retired \cap ring[n].loaded = {}
    /\ \/ /\ job[n][w].active \in ring[n].loaded
          /\ ring' = [ring EXCEPT ![n].active = job[n][w].active]
          /\ SetJob(n, w, [job[n][w] EXCEPT !.pc = "identity"])
       \/ /\ job[n][w].active \notin ring[n].loaded
          /\ SetJob(n, w, NoJob)
          /\ UNCHANGED ring
    /\ UNCHANGED <<shared, acks, serving, cred, auth>>

(* localCryptoIdentity: the generations the node will acknowledge.         *)
LocalIdentity(n, w) ==
    /\ job[n][w].pc = "identity"
    /\ SetJob(n, w, [job[n][w] EXCEPT !.pc = "sync", !.loaded = ring[n].loaded])
    /\ UNCHANGED <<shared, acks, ring, serving, cred, auth>>

(* Mutant: a node that still holds a retired generation may acknowledge. *)
SynchronizeUnchecked(n, w) ==
    /\ job[n][w].pc = "sync"
    /\ shared.active \in job[n][w].loaded
    /\ acks' = [acks EXCEPT ![n] = @ \cup job[n][w].loaded]
    /\ SetJob(n, w, [job[n][w] EXCEPT !.pc = "publish", !.active = shared.active,
                                      !.epoch = shared.epoch])
    /\ UNCHANGED <<shared, ring, serving, cred, auth>>

(* synchronizeCryptoOnce and recordCryptoCapabilities: the node must have  *)
(* loaded the active generation and none that is retired; which generation *)
(* its ring selects is not compared.                                       *)
Synchronize(n, w) ==
    /\ job[n][w].pc = "sync"
    /\ IF shared.active \in job[n][w].loaded /\ job[n][w].loaded \cap shared.retired = {}
       THEN /\ acks' = [acks EXCEPT ![n] = @ \cup job[n][w].loaded]
            /\ SetJob(n, w, [job[n][w] EXCEPT !.pc = "publish", !.active = shared.active,
                                              !.epoch = shared.epoch])
       ELSE /\ SetJob(n, w, NoJob)
            /\ UNCHANGED acks
    /\ UNCHANGED <<shared, ring, serving, cred, auth>>

(* The authority cannot be reached, or gives up after its retries.         *)
SynchronizeFails(n, w) ==
    /\ job[n][w].pc = "sync"
    /\ SetJob(n, w, NoJob)
    /\ UNCHANGED <<shared, acks, ring, serving, cred, auth>>

(* After the commit: remember what was acknowledged, and serve again.      *)
Publish(n, w) ==
    /\ job[n][w].pc = "publish"
    /\ serving' = [serving EXCEPT ![n] =
          [ready |-> TRUE, observed |-> [active |-> job[n][w].active,
                                         epoch |-> job[n][w].epoch]]]
    /\ SetJob(n, w, NoJob)
    /\ UNCHANGED <<shared, acks, ring, cred, auth>>

-----------------------------------------------------------------------------
(***************************************************************************)
(* Authentication of the credential on a node.  A lookup is one read of    *)
(* the shared registry by the verifier derived under one generation.       *)
(***************************************************************************)
Found(n, v) == v \in ring[n].loaded /\ cred.pepper = v

SetAuth(r, state) == auth' = [auth EXCEPT ![r] = state]

(* The verifier under the latest generation is derived at once.            *)
BeginAuth(r) ==
    /\ auth[r].pc \in {"idle", "ok", "unknown"}
    /\ \E n \in Nodes :
          SetAuth(r, [NoAuth(n) EXCEPT !.pc = "latest", !.latest = Latest(n)])
    /\ UNCHANGED <<shared, acks, ring, serving, job, cred>>

(* Miss under the latest generation: fall back to the other loaded ones,   *)
(* which the code takes to be all but the highest.                         *)
LookupLatest(r) ==
    LET n == auth[r].node
    IN  /\ auth[r].pc = "latest"
        /\ SetAuth(r, IF cred.pepper = auth[r].latest THEN [NoAuth(n) EXCEPT !.pc = "ok"]
                      ELSE [auth[r] EXCEPT !.pc = "legacy",
                                           !.todo = ring[n].loaded \ {Max(ring[n].loaded)}])
        /\ UNCHANGED <<shared, acks, ring, serving, job, cred>>

LookupLegacy(r) ==
    LET n == auth[r].node
    IN  /\ auth[r].pc = "legacy"
        /\ \/ /\ auth[r].todo = {}
              /\ SetAuth(r, [NoAuth(n) EXCEPT !.pc = "unknown"])
           \/ /\ auth[r].todo # {}
              /\ LET v == Max(auth[r].todo)
                 IN  SetAuth(r, IF Found(n, v)
                                THEN [auth[r] EXCEPT !.pc = "migrate", !.todo = {},
                                                     !.revision = cred.revision]
                                ELSE [auth[r] EXCEPT !.todo = @ \ {v}])
        /\ UNCHANGED <<shared, acks, ring, serving, job, cred>>

(* RotateVerifierCASContext: only on a ready node, and only at the         *)
(* revision that was read; a failure does not fail the request.            *)
MigrateVerifier(r) ==
    LET n == auth[r].node
    IN  /\ auth[r].pc = "migrate"
        /\ \/ /\ serving[n].ready
              /\ cred.revision = auth[r].revision
              /\ cred.pepper # auth[r].latest
              /\ cred.revision < MaxRevision
              /\ cred' = [pepper |-> auth[r].latest, revision |-> cred.revision + 1]
           \/ UNCHANGED cred
        /\ SetAuth(r, [NoAuth(n) EXCEPT !.pc = "ok"])
        /\ UNCHANGED <<shared, acks, ring, serving, job>>

-----------------------------------------------------------------------------
Reconcile(n) ==
    \/ CryptoReady(n) \/ LoadActive(n) \/ LoadRetired(n)
    \/ \E w \in Workers :
          \/ DropRetired(n, w) \/ SelectActive(n, w) \/ LocalIdentity(n, w)
          \/ Synchronize(n, w) \/ SynchronizeFails(n, w) \/ Publish(n, w)

Next ==
    \/ \E n \in Nodes, v \in Versions : ActivateGeneration(n, v) \/ RetireGeneration(n, v)
    \/ \E n \in Nodes : Reconcile(n)
    \/ \E r \in Requests :
          BeginAuth(r) \/ LookupLatest(r) \/ LookupLegacy(r) \/ MigrateVerifier(r)

Spec == Init /\ [][Next]_vars

(***************************************************************************)
(* The reconciler runs on a ticker for as long as the node lives, and the  *)
(* admin handler runs to its end: no step of theirs waits for ever.  The   *)
(* authority may be unreachable at times, but not every time.              *)
(***************************************************************************)
Fairness ==
    \A n \in Nodes :
        /\ WF_vars(CryptoReady(n)) /\ WF_vars(LoadActive(n)) /\ WF_vars(LoadRetired(n))
        /\ \A w \in Workers :
              /\ WF_vars(DropRetired(n, w)) /\ WF_vars(SelectActive(n, w))
              /\ WF_vars(LocalIdentity(n, w))
              /\ SF_vars(Synchronize(n, w)) /\ WF_vars(Publish(n, w))

FairSpec == Spec /\ Fairness

-----------------------------------------------------------------------------
(***************************************************************************)
(* Properties.                                                             *)
(***************************************************************************)

(* The type invariant of the authority, the nodes and the requests.        *)
TypeOK ==
    /\ shared \in [active : Versions, retired : SUBSET Versions, epoch : Nat]
    /\ acks \in [Nodes -> SUBSET Versions]
    /\ ring \in [Nodes -> [loaded : SUBSET Versions, active : Versions]]
    /\ serving \in [Nodes -> [ready : BOOLEAN, observed : Observation]]
    /\ job \in [Nodes -> [Workers ->
          [pc : {"idle", "load", "apply", "identity", "sync", "publish"}, active : Versions,
           retired : SUBSET Versions, loaded : SUBSET Versions, epoch : Nat]]]
    /\ cred \in [pepper : Versions, revision : Nat]
    /\ auth \in [Requests ->
          [pc : {"idle", "latest", "legacy", "migrate", "ok", "unknown"}, node : Nodes,
           latest : Versions \cup {0}, todo : SUBSET Versions, revision : Nat]]

(* Whatever the order of activations, retirements and lagging reconcilia-  *)
(* tions, the active generation is not retired and no node has dropped it  *)
(* (requireCryptoActivationBarrier, retireCryptoGenerationOnce, and the    *)
(* retire loop of reconcileClusterCryptoWithSigner).                       *)
ActiveIsUsable ==
    /\ shared.active \notin shared.retired
    /\ \A n \in Nodes : shared.active \in ring[n].loaded

(* A node drops only generations the authority retired, so an              *)
(* acknowledgement given once stays true until the generation is retired.  *)
AcksHonoured ==
    \A n \in Nodes : acks[n] \subseteq ring[n].loaded \cup shared.retired

(* A node that serves under the current epoch has dropped every retired    *)
(* generation (recordCryptoCapabilities refuses to acknowledge one).       *)
ServingDroppedRetired ==
    \A n \in Nodes :
        serving[n].ready /\ serving[n].observed = observationFor
        => ring[n].loaded \cap shared.retired = {}

(* A node that serves under the current epoch selects the active           *)
(* generation (CryptoReady: an activation elsewhere "must withdraw an      *)
(* unreconciled node from service").                                       *)
ServingSelectsActive ==
    \A n \in Nodes :
        serving[n].ready /\ serving[n].observed = observationFor
        => Latest(n) = shared.active

(* No credential is left under a retired generation (RetireVersion:        *)
(* "after all credentials have migrated away from it").                    *)
NoCredentialOnRetired == cred.pepper \notin shared.retired

(* A stored credential whose generation the node has loaded is not unknown *)
(* to it (SetActiveVersion: "Retained generations remain valid for         *)
(* authentication").                                                       *)
KnownIsFound ==
    [][\A r \in Requests : auth[r].pc = "legacy" /\ auth'[r].pc = "unknown"
          => cred.pepper \notin ring[auth[r].node].loaded]_vars

(* Once the operator stops changing generations every node comes back into *)
(* service (StartCryptoReconciler).                                        *)
AllServeAgain == <>[](\A n \in Nodes : serving[n].ready)
=============================================================================
