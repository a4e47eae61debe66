---------------------------- MODULE SignerRotation ----------------------------
(***************************************************************************)
(* Rotation of the key that signs internal assertions, in a cluster.       *)
(*                                                                         *)
(*   - A node keeps a keyring in memory and in a file                      *)
(*     (internal/terminator/keyring.go): the active signer, a prepared     *)
(*     one, and the public keys it retains.                                *)
(*   - The authority (internal/statepg/crypto.go) selects the active       *)
(*     generation, sets the time before which the superseded one may not   *)
(*     be retired, and admits to service a node that signs with it.        *)
(*   - The backend verifies assertions with published keys                 *)
(*     (verify/verify.go), published and retired over HTTP                 *)
(*     (cmd/gripline/runtime_crypto_backend.go).                           *)
(*   - The reconciler and the admin handlers of a node bring keyring,      *)
(*     backend and authority together (cmd/gripline/runtime_crypto.go,     *)
(*     admin_crypto.go).                                                   *)
(*                                                                         *)
(* A key is its generation (kid) and its material: two operators may       *)
(* prepare different keys under one kid.  Each call that can fail or whose *)
(* answer can be lost is a step; a process may crash between any two.      *)
(***************************************************************************)
EXTENDS Integers, FiniteSets, Folds

CONSTANTS
    Nodes,
    Keys,           \* [kid, mat]
    NoKey,
    FirstKey,       \* the active key at the start
    TTL,            \* protocollimits.MaxAssertionTTL
    Skew,           \* protocollimits.AssertionClockSkew
    WatchLag,       \* how long a node may serve without noticing a new epoch
    MaxClock, MaxEpoch, MaxStarts       \* bounds

ASSUME SignerAssumption ==
    /\ NoKey \notin Keys /\ FirstKey \in Keys
    /\ \A k \in Keys : k.kid \in Nat
    /\ {TTL, Skew, WatchLag, MaxClock, MaxEpoch, MaxStarts} \subseteq Nat
    /\ WatchLag <= Skew /\ TTL > 0

VARIABLES
    clock,      \* time of the authority
    shared,     \* gripline_cluster_crypto: active key, epoch
    gens,       \* gripline_cluster_crypto_generations: recorded keys, retired ones, retire_after
    acks,       \* node -> keys its current instance acknowledged
    live,       \* node -> its membership row counts as live
    file,       \* node -> the keyring file
    mem,        \* node -> the process: keyring in memory, ready flag, observed epoch
    job,        \* node -> worker -> reconciliation in progress
    backend,    \* keys the backend verifies with
    issued      \* history: key -> when the last assertion it signed expires

vars == <<clock, shared, gens, acks, live, file, mem, job, backend, issued>>

Workers == {"reconciler", "admin"}

Horizon == TTL + Skew           \* SignerRetirementHorizon

NoJob == [pc |-> "idle", why |-> "loop", key |-> NoKey, active |-> NoKey, retired |-> {},
          loaded |-> {}, epoch |-> 0]

NewKeyring == [active |-> FirstKey, pending |-> NoKey, verifiers |-> {FirstKey}]

Down(starts) == [up |-> FALSE, starts |-> starts, ring |-> NewKeyring, ready |-> FALSE,
                 observed |-> 0, lag |-> 0]

(* The cluster is stopped for a rotation, with its first key.              *)
Init ==
    /\ clock = 0
    /\ shared = [active |-> FirstKey, epoch |-> 1]
    /\ gens = [recorded |-> {FirstKey}, retired |-> {}, after |-> [k \in Keys |-> 0]]
    /\ acks = [n \in Nodes |-> {}]
    /\ live = [n \in Nodes |-> FALSE]
    /\ mem = [n \in Nodes |-> Down(0)]
    /\ file = [n \in Nodes |-> NewKeyring]
    /\ job = [n \in Nodes |-> [w \in Workers |-> NoJob]]
    /\ backend = {FirstKey}
    /\ issued = [k \in Keys |-> 0]

Starts == MapThenFoldSet(LAMBDA a, b : a + b, 0, LAMBDA n : mem[n].starts, LAMBDA S : CHOOSE n \in S : TRUE, Nodes)

SameKid(k, l) == k # NoKey /\ l # NoKey /\ k.kid = l.kid

-----------------------------------------------------------------------------
(***************************************************************************)
(* The keyring.                                                            *)
(***************************************************************************)
Prepared(ring, k) == [ring EXCEPT !.pending = k, !.verifiers = @ \cup {k}]

Activated(ring) == [ring EXCEPT !.active = ring.pending, !.pending = NoKey]

Retired(ring, k) == [ring EXCEPT !.verifiers = @ \ {k}]

(* crypto signer-prepare, on a stopped node: the next kid and a new key;   *)
(* or the operator copies the prepared keyring of another node.            *)
PrepareRotation(n) ==
    /\ ~mem[n].up
    /\ \/ /\ file[n].pending = NoKey
          /\ \E k \in Keys : k.kid = file[n].active.kid + 1
                             /\ file' = [file EXCEPT ![n] = Prepared(@, k)]
       \/ \E m \in Nodes \ {n} : file[m].pending # NoKey /\ file' = [file EXCEPT ![n] = file[m]]
    /\ UNCHANGED <<clock, shared, gens, acks, live, mem, job, backend, issued>>

(* Mutant: the memory is changed before the file, and stays changed.       *)
SaveAfterwards(n, ring) ==
    /\ \/ file' = [file EXCEPT ![n] = ring]
       \/ UNCHANGED file
    /\ mem' = [mem EXCEPT ![n].ring = ring]

(* saveKeyringLocked and the assignment after it, successful.              *)
Save(n, ring) ==
    /\ file' = [file EXCEPT ![n] = ring]
    /\ mem' = [mem EXCEPT ![n].ring = ring]

(* It fails before the rename, or after it when the directory cannot be    *)
(* synced: the file is new, the memory is not.                             *)
SaveFails(n, ring) ==
    /\ file' \in {file, [file EXCEPT ![n] = ring]}
    /\ UNCHANGED mem

-----------------------------------------------------------------------------
(***************************************************************************)
(* Processes.                                                              *)
(***************************************************************************)
SetJob(n, w, j) == job' = [job EXCEPT ![n][w] = j]

(* loadKeyringFile, membership, then the agreement on the active key.      *)
Start(n) ==
    /\ ~mem[n].up /\ ~live[n] /\ Starts < MaxStarts
    /\ live' = [live EXCEPT ![n] = TRUE]
    /\ acks' = [acks EXCEPT ![n] = {}]
    /\ mem' = [mem EXCEPT ![n] = [Down(@.starts + 1) EXCEPT !.up = TRUE, !.ring = file[n]]]
    /\ SetJob(n, "reconciler", [NoJob EXCEPT !.pc = "sync", !.why = "boot", !.active = file[n].active,
                                             !.loaded = file[n].verifiers])
    /\ UNCHANGED <<clock, shared, gens, file, backend, issued>>

Crash(n) ==
    /\ mem[n].up
    /\ mem' = [mem EXCEPT ![n] = Down(@.starts)]
    /\ job' = [job EXCEPT ![n] = [w \in Workers |-> NoJob]]
    /\ UNCHANGED <<clock, shared, gens, acks, live, file, backend, issued>>

Lapse(n) ==
    /\ live[n] /\ ~mem[n].up
    /\ live' = [live EXCEPT ![n] = FALSE]
    /\ acks' = [acks EXCEPT ![n] = {}]
    /\ UNCHANGED <<clock, shared, gens, file, mem, job, backend, issued>>

(* An error ends a reconciliation.  At the start the first one is answered *)
(* by a reconciliation with what the authority selects, the second by the  *)
(* end of the process.                                                     *)
Abandon(n, w) ==
    SetJob(n, w, IF job[n][w].why = "boot" THEN [NoJob EXCEPT !.pc = "load", !.why = "reboot"]
                 ELSE IF job[n][w].why = "reboot" THEN [NoJob EXCEPT !.pc = "exit"]
                 ELSE NoJob)

(* Keyring.Issue for an admitted request: with the active key, whatever    *)
(* the authority selects meanwhile.                                        *)
Issue(n) ==
    /\ mem[n].up /\ mem[n].ready
    /\ issued' = [issued EXCEPT ![mem[n].ring.active] = clock + TTL]
    /\ UNCHANGED <<clock, shared, gens, acks, live, file, mem, job, backend>>

(* Time.  A node under an old epoch notices within WatchLag: the watcher   *)
(* polls every reconcile interval, and the answer of the authority is      *)
(* acted upon meanwhile.                                                   *)
Lagging(n) ==
    \/ mem[n].ready /\ mem[n].observed # shared.epoch
    \/ \E w \in Workers : job[n][w].pc = "publish" /\ job[n][w].epoch # shared.epoch

Tick ==
    /\ clock < MaxClock
    /\ \A n \in Nodes : Lagging(n) => mem[n].lag < WatchLag
    /\ clock' = clock + 1
    /\ mem' = [n \in Nodes |-> [mem[n] EXCEPT !.lag = IF Lagging(n) THEN @ + 1 ELSE 0]]
    /\ issued' = [k \in Keys |-> IF issued[k] > clock' THEN issued[k] ELSE 0]
    /\ UNCHANGED <<shared, gens, acks, live, file, job, backend>>

-----------------------------------------------------------------------------
(***************************************************************************)
(* The backend's verifier.                                                 *)
(***************************************************************************)
(* PublishKey: refused when the kid has other material.                    *)
Publishable(k) == \A b \in backend : SameKid(b, k) => b = k

(* RetireKey: refused when the kid has another fingerprint.                *)
Removable(k) == \A b \in backend : SameKid(b, k) => b = k

-----------------------------------------------------------------------------
(***************************************************************************)
(* The operator, through the admin API of node n.                          *)
(***************************************************************************)
(* adminCryptoActivate first has the backend accept the prepared key and a *)
(* canary it signed (AcceptPrepared); the answer may be lost.              *)
AdminAccept(n) ==
    LET k == mem[n].ring.pending IN
    /\ mem[n].up /\ job[n]["admin"].pc = "idle" /\ k # NoKey /\ Publishable(k)
    /\ backend' = backend \cup {k}
    /\ \/ SetJob(n, "admin", [NoJob EXCEPT !.pc = "activate", !.key = k])
       \/ UNCHANGED job
    /\ UNCHANGED <<clock, shared, gens, acks, live, file, mem, issued>>

(* requireCryptoActivationBarrier.                                         *)
ActivationBarrier(k) == \A n \in Nodes : live[n] => k \in acks[n]

(* Mutant: the superseded generation may be retired at once.               *)
SupersededAt(g, k) == [g EXCEPT !.after[k] = clock]

(* The superseded generation is kept until its assertions have expired.    *)
Superseded(g, k) == [g EXCEPT !.after[k] = clock + Horizon]

(* activateCryptoGenerationOnce, then the reconciliation of this node.     *)
AdminActivate(n) ==
    LET k == job[n]["admin"].key IN
    /\ job[n]["admin"].pc = "activate"
    /\ IF /\ mem[n].ready /\ k \in gens.recorded \ gens.retired /\ ActivationBarrier(k)
          /\ shared.epoch < MaxEpoch
       THEN /\ shared' = [active |-> k, epoch |-> shared.epoch + 1]
            /\ gens' = [Superseded(gens, shared.active) EXCEPT !.after[k] = 0]
            /\ mem' = [mem EXCEPT ![n].ready = FALSE, ![n].observed = 0]
            /\ SetJob(n, "admin", [NoJob EXCEPT !.pc = "apply", !.active = k, !.retired = gens.retired])
       ELSE SetJob(n, "admin", NoJob) /\ UNCHANGED <<shared, gens, mem>>
    /\ UNCHANGED <<clock, acks, live, file, backend, issued>>

(* retireCryptoGenerationOnce: not the active one, and not before its      *)
(* time; a generation that never was active has none.                      *)
AdminRetire(n) ==
    /\ mem[n].up /\ mem[n].ready /\ job[n]["admin"].pc = "idle" /\ shared.epoch < MaxEpoch
    /\ \E k \in gens.recorded \ gens.retired :
          /\ ~SameKid(k, mem[n].ring.active) /\ k # shared.active /\ clock >= gens.after[k]
          /\ gens' = [gens EXCEPT !.retired = @ \cup {k}]
          /\ shared' = [shared EXCEPT !.epoch = @ + 1]
          /\ mem' = [mem EXCEPT ![n].ready = FALSE, ![n].observed = 0]
          /\ SetJob(n, "admin", [NoJob EXCEPT !.pc = "withdraw", !.key = k, !.active = shared.active,
                                              !.retired = gens.retired \cup {k}])
    /\ UNCHANGED <<clock, acks, live, file, backend, issued>>

(* adminCryptoRetire asks the backend before it reconciles.                *)
AdminWithdraw(n) ==
    LET j == job[n]["admin"] IN
    /\ j.pc = "withdraw"
    /\ \/ /\ Removable(j.key)
          /\ backend' = backend \ {j.key}
          /\ SetJob(n, "admin", [j EXCEPT !.pc = "apply", !.key = NoKey])
       \/ SetJob(n, "admin", NoJob) /\ UNCHANGED backend
    /\ UNCHANGED <<clock, shared, gens, acks, live, file, mem, issued>>

-----------------------------------------------------------------------------
(***************************************************************************)
(* reconcileClusterCryptoWithSigner.                                       *)
(***************************************************************************)
(* CryptoReady: the observed epoch is no longer the authority's.           *)
Watch(n) ==
    /\ mem[n].up /\ mem[n].ready /\ mem[n].observed # shared.epoch
    /\ mem' = [mem EXCEPT ![n].ready = FALSE, ![n].observed = 0]
    /\ UNCHANGED <<clock, shared, gens, acks, live, file, job, backend, issued>>

(* The selected key and the retired ones, which the code reads in two      *)
(* queries; PepperGenerations has them as two steps.                       *)
LoadIdentity(n) ==
    LET j == job[n]["reconciler"] IN
    /\ mem[n].up /\ ~mem[n].ready /\ j.pc \in {"idle", "load"}
    /\ SetJob(n, "reconciler", [j EXCEPT !.pc = "apply", !.active = shared.active, !.retired = gens.retired])
    /\ UNCHANGED <<clock, shared, gens, acks, live, file, mem, backend, issued>>

(* The locally prepared key is activated when the authority selected it,   *)
(* after the backend accepted it; the callback runs without the lock.      *)
Apply(n, w) ==
    LET j == job[n][w]
        ring == mem[n].ring
    IN
    /\ j.pc = "apply"
    /\ \/ /\ ring.active.kid = j.active.kid
          /\ SetJob(n, w, [j EXCEPT !.pc = "retire", !.active = NoKey])
          /\ UNCHANGED backend
       \/ /\ ring.active.kid # j.active.kid /\ SameKid(ring.pending, j.active) /\ Publishable(ring.pending)
          /\ backend' = backend \cup {ring.pending}
          /\ SetJob(n, w, [j EXCEPT !.pc = "save", !.active = NoKey, !.key = ring.pending])
       \/ /\ ring.active.kid # j.active.kid
          /\ Abandon(n, w)
          /\ backend' \in {backend} \cup
                (IF SameKid(ring.pending, j.active) /\ Publishable(ring.pending)
                 THEN {backend \cup {ring.pending}} ELSE {})
    /\ UNCHANGED <<clock, shared, gens, acks, live, file, mem, issued>>

ActivatePrepared(n, w) ==
    LET j == job[n][w]
        ring == mem[n].ring
    IN
    /\ j.pc = "save"
    /\ IF ~SameKid(ring.pending, j.key) THEN Abandon(n, w) /\ UNCHANGED <<file, mem>>
       ELSE \/ Save(n, Activated(ring)) /\ SetJob(n, w, [j EXCEPT !.pc = "retire", !.key = NoKey])
            \/ SaveFails(n, Activated(ring)) /\ Abandon(n, w)
    /\ UNCHANGED <<clock, shared, gens, acks, live, backend, issued>>

(* localCryptoIdentity, to be agreed with the authority.                   *)
LocalIdentity(n, j) ==
    [NoJob EXCEPT !.pc = "sync", !.why = j.why, !.active = mem[n].ring.active, !.loaded = mem[n].ring.verifiers]

(* The retire loop: the backend first, then the keyring.  A generation     *)
(* that is active or prepared here cannot be dropped.                      *)
RetireNext(n, w) ==
    LET j == job[n][w]
        ring == mem[n].ring
        todo == {k \in j.retired : \E v \in ring.verifiers : SameKid(v, k)}
    IN
    /\ j.pc = "retire"
    /\ \/ /\ todo = {}
          /\ SetJob(n, w, LocalIdentity(n, j))
          /\ UNCHANGED backend
       \/ \E k \in todo :
             \/ /\ ~SameKid(k, ring.active) /\ Removable(k)
                /\ backend' = backend \ {k}
                /\ SetJob(n, w, [j EXCEPT !.pc = "drop", !.key = k])
             \/ Abandon(n, w) /\ UNCHANGED backend
    /\ UNCHANGED <<clock, shared, gens, acks, live, file, mem, issued>>

RetireAfter(n, w) ==
    LET j == job[n][w]
        ring == mem[n].ring
        gone == Retired(ring, CHOOSE v \in ring.verifiers : SameKid(v, j.key))
    IN
    /\ j.pc = "drop"
    /\ IF ~\E v \in ring.verifiers : SameKid(v, j.key) /\ v \notin {ring.active, ring.pending}
       THEN Abandon(n, w) /\ UNCHANGED <<file, mem>>
       ELSE \/ Save(n, gone) /\ SetJob(n, w, [j EXCEPT !.pc = "retire", !.key = NoKey])
            \/ SaveFails(n, gone) /\ Abandon(n, w)
    /\ UNCHANGED <<clock, shared, gens, acks, live, backend, issued>>

(* Mutant: loading the active generation is enough, as it is for peppers.  *)
AgreesLoaded(j) ==
    /\ shared.active \in j.loaded
    /\ \A k \in j.loaded : k \notin gens.retired

(* synchronizeCryptoOnce and recordCryptoCapabilities admit the identity.  *)
Agrees(j) ==
    /\ j.active.kid = shared.active.kid /\ shared.active \in j.loaded
    /\ \A k \in j.loaded : k \notin gens.retired /\ \A g \in gens.recorded : SameKid(g, k) => g = k

Synchronize(n, w) ==
    LET j == job[n][w] IN
    /\ j.pc = "sync"
    /\ \/ /\ Agrees(j)
          /\ gens' = [gens EXCEPT !.recorded = @ \cup j.loaded]
          /\ acks' = [acks EXCEPT ![n] = @ \cup j.loaded]
          /\ SetJob(n, w, [NoJob EXCEPT !.pc = "publish", !.epoch = shared.epoch])
       \/ Abandon(n, w) /\ UNCHANGED <<gens, acks>>
    /\ UNCHANGED <<clock, shared, live, file, mem, backend, issued>>

(* After the commit: serve, under the epoch that was acknowledged.         *)
Publish(n, w) ==
    /\ job[n][w].pc = "publish"
    /\ mem' = [mem EXCEPT ![n].ready = TRUE, ![n].observed = job[n][w].epoch]
    /\ SetJob(n, w, NoJob)
    /\ UNCHANGED <<clock, shared, gens, acks, live, file, backend, issued>>

Exit(n) == job[n]["reconciler"].pc = "exit" /\ Crash(n)

Next ==
    \/ Tick
    \/ \E n \in Nodes :
          \/ PrepareRotation(n) \/ Start(n) \/ Crash(n) \/ Lapse(n) \/ Exit(n) \/ Issue(n) \/ Watch(n)
          \/ AdminAccept(n) \/ AdminActivate(n) \/ AdminRetire(n) \/ AdminWithdraw(n) \/ LoadIdentity(n)
          \/ \E w \in Workers :
                \/ Apply(n, w) \/ ActivatePrepared(n, w) \/ RetireNext(n, w) \/ RetireAfter(n, w)
                \/ Synchronize(n, w) \/ Publish(n, w)

Spec == Init /\ [][Next]_vars

-----------------------------------------------------------------------------
(* An assertion a gateway issued can be verified for as long as it lives:  *)
(* the backend has the key before the first node signs with it, and keeps  *)
(* it until the last assertion has expired, through crashes, lost answers  *)
(* and nodes that lag behind (AcceptPrepared, SignerRetirementHorizon).    *)
LiveVerifiable == \A k \in Keys : clock < issued[k] => k \in backend

(* A node in service under the current epoch signs with the selected key,  *)
(* and would do so after a restart: its file holds that key as active, for *)
(* whatever save failed or crashed on the way (synchronizeCryptoOnce,      *)
(* saveKeyringLocked).                                                     *)
ServesSelectedKey ==
    \A n \in Nodes :
        mem[n].ready /\ mem[n].observed = shared.epoch
        => mem[n].ring.active = shared.active /\ file[n].active = shared.active
=============================================================================
