---------------------------- MODULE SourceIdentity ----------------------------
(***************************************************************************)
(* Who a request comes from.  The trusted ingress takes the client's       *)
(* address out of the connection and the forwarding headers                *)
(* (internal/ingress), the node's ring derives one pseudonym of it per     *)
(* loaded generation (internal/pseudonym), and the shared table of aliases *)
(* maps all of them to one canonical identity (statepg/source_pseudonym),  *)
(* under which the cluster keeps a source's evidence, adaptive state and   *)
(* resource scopes while generations are rotated in, superseded, retired   *)
(* and forgotten by maintenance.                                           *)
(*                                                                         *)
(* The pseudonym of address a under generation g is <<a, g>>: a keyed hash *)
(* neither collides nor depends on anything else.  Nodes stay members of   *)
(* the cluster while they run; PepperGenerations has the reconciliation of *)
(* a ring step by step.                                                    *)
(***************************************************************************)
EXTENDS Integers, Sequences, FiniteSets, FiniteSetsExt, Functions

CONSTANTS
    Clients, Proxies,    \* addresses; the proxies are the trusted ones
    Forged,              \* forwarding headers a client may send, sequences of hops
    Paths,               \* chains of proxies between a client and a node
    Generations,         \* positive integers
    Nodes, RequestIds,
    KeepSuperseded,      \* a configuration keeps a superseded key until it is retired
    MaxLoaded,           \* MaxLoadedGenerations
    MaxIdentities,       \* MaxSourceAliasIdentities
    Retention,           \* SourceAliasRetention
    BatchSize,           \* of maintenance
    MaxClock, MaxEpoch   \* bounds

(* No client has the address of a trusted proxy.                           *)
ASSUME SourceAssumption ==
    /\ Clients \cap Proxies = {} /\ {"malformed", "refused"} \cap (Clients \cup Proxies) = {}
    /\ \A hops \in Forged : hops \in Seq(Range(hops))
    /\ \A path \in Paths : path \in Seq(Proxies)
    /\ Generations \subseteq Nat \ {0} /\ Generations # {} /\ IsFiniteSet(Generations)
    /\ "nobody" \notin RequestIds
    /\ KeepSuperseded \in BOOLEAN

VARIABLES
    clock,
    catalog,    \* generation -> its state in the authority
    epoch,      \* changes of the authority's generations
    ring,       \* node -> loaded generations and the selected one
    alias,      \* gripline_source_aliases: pseudonym -> [owner, seen]
    guard,      \* who holds gripline_source_alias_identity_guard
    refs,       \* identities that source-scoped rows refer to
    touch,      \* aliases whose touch is pending
    request     \* requests in progress

sourceVars == <<clock, catalog, epoch, ring, alias, guard, refs, touch, request>>

Nobody == "nobody"

Malformed == "malformed"

Refused == "refused"

(* The rows of a generation in state 'loaded' are the staged and, with     *)
(* superseded_at set, the superseded ones.                                 *)
Usable == {g \in Generations : catalog[g] \in {"staged", "superseded", "active"}}

Active == CHOOSE g \in Generations : catalog[g] = "active"

------------------------------------------------------------------------------
(* The client's address.                                                   *)

Untrusted(hops) == {i \in DOMAIN hops : hops[i] \notin Proxies}

(* Mutant: the first hop that is not a trusted proxy.                      *)
FirstUntrusted(hops) == IF Untrusted(hops) = {} THEN Head(hops) ELSE hops[Min(Untrusted(hops))]

LastUntrusted(hops) == IF Untrusted(hops) = {} THEN Head(hops) ELSE hops[Max(Untrusted(hops))]

(* canonicalClientIP, strict: headers count only when a proxy sent them,   *)
(* and a chain that cannot be read is an error.                            *)
CanonicalClientIP(peer, hops) ==
    CASE peer \notin Proxies \/ hops = <<>> -> peer
      [] peer \in Proxies /\ Malformed \in Range(hops) -> Refused
      [] OTHER -> LastUntrusted(hops)

------------------------------------------------------------------------------
(* The ring.                                                               *)

(* Ring.latest: the selected generation, or the highest loaded.            *)
latest(n) == IF ring[n].selected \in ring[n].loaded THEN ring[n].selected ELSE Max(ring[n].loaded)

(* DeriveAllVersioned, and Derive.                                         *)
DeriveAll(n, source) == {<<source, g>> : g \in ring[n].loaded}

Derive(n, source) == <<source, latest(n)>>

(* NewRing selects no generation.                                          *)
NewRing(loaded) == [loaded |-> loaded, selected |-> 0]

SetActiveVersion(rng, g) == [rng EXCEPT !.selected = g]

RetireVersion(rng, g) == [rng EXCEPT !.loaded = @ \ {g}]

(* A configuration Config.Validate accepts.                                *)
Valid(loaded) == Cardinality(loaded) <= MaxLoaded

(* One that makes a ring (pseudonymRingFromConfig), and that an operator   *)
(* may start a node with.                                                  *)
Configured(loaded) ==
    /\ loaded # {} /\ Valid(loaded)
    /\ KeepSuperseded => {g \in Generations : catalog[g] = "superseded"} \subseteq loaded

(* BuildRuntime and SynchronizeCrypto: the active generation must be       *)
(* loaded and no retired one; new ones are catalogued.                     *)
Start(n, loaded) ==
    /\ Configured(loaded)
    /\ catalog[Active] = "active" /\ Active \in loaded
    /\ \A g \in loaded : catalog[g] # "retired"
    /\ ring' = [ring EXCEPT ![n] = SetActiveVersion(NewRing(loaded), Active)]
    /\ catalog' = [g \in Generations |-> IF g \in loaded /\ catalog[g] = "absent" THEN "staged" ELSE catalog[g]]
    /\ guard' = IF guard # Nobody /\ request[guard].node = n THEN Nobody ELSE guard
    /\ request' = [r \in RequestIds |-> IF request[r].pc # "idle" /\ request[r].node = n THEN [pc |-> "idle"] ELSE request[r]]
    /\ UNCHANGED <<clock, epoch, alias, refs, touch>>

------------------------------------------------------------------------------
(* The operator and the reconcilers.                                       *)

(* requireCryptoActivationBarrier: every member acknowledged it.           *)
Barrier(g) == \A n \in Nodes : g \in ring[n].loaded

(* ActivateCryptoGeneration.                                               *)
Activate(g) ==
    /\ epoch < MaxEpoch
    /\ catalog[g] \in {"staged", "superseded"}
    /\ Barrier(g)
    /\ catalog' = [catalog EXCEPT ![Active] = "superseded", ![g] = "active"]
    /\ epoch' = epoch + 1
    /\ UNCHANGED <<clock, ring, alias, guard, refs, touch, request>>

Owners(aliases) == {alias[a].owner : a \in aliases \cap DOMAIN alias}

RowsOf(owner) == {a \in DOMAIN alias : alias[a].owner = owner}

(* usableRetainedSourceAliasPredicate.                                     *)
Retained(owner, except) == \E a \in RowsOf(owner) : a[2] # except /\ a[2] \in Usable

(* Mutant: the alias of the generation itself will do.                     *)
RetirementSafeByItself(g) ==
    \A a \in DOMAIN alias : a[2] = g /\ alias[a].owner \in refs => Retained(alias[a].owner, 0)

(* requireCryptoRetirementSafety for pseudonyms: an identity that is       *)
(* referred to keeps an alias that can still be derived.                   *)
RetirementSafe(g) ==
    \A a \in DOMAIN alias : a[2] = g /\ alias[a].owner \in refs => Retained(alias[a].owner, g)

(* RetireCryptoGeneration.  A reference committed between its check and its*)
(* update is in the model one that is written afterwards.                  *)
Retire(g) ==
    /\ epoch < MaxEpoch
    /\ catalog[g] \in {"staged", "superseded"}
    /\ RetirementSafe(g)
    /\ catalog' = [catalog EXCEPT ![g] = "retired"]
    /\ epoch' = epoch + 1
    /\ UNCHANGED <<clock, ring, alias, guard, refs, touch, request>>

(* RetireVersion of the adapter refuses the generation the ring selects.   *)
DropRetired(n, g) ==
    /\ g \in ring[n].loaded /\ catalog[g] = "retired" /\ g # latest(n)
    /\ ring' = [ring EXCEPT ![n] = RetireVersion(@, g)]
    /\ UNCHANGED <<clock, catalog, epoch, alias, guard, refs, touch, request>>

(* SetActiveVersion of the adapter, once the retired generations are gone. *)
SelectActive(n) ==
    /\ ring[n].loaded \subseteq Usable
    /\ Active \in ring[n].loaded /\ ring[n].selected # Active
    /\ ring' = [ring EXCEPT ![n] = SetActiveVersion(@, Active)]
    /\ UNCHANGED <<clock, catalog, epoch, alias, guard, refs, touch, request>>

------------------------------------------------------------------------------
(* A request.                                                              *)

(* normalizeSourceAliases: the candidates, the active one among them.      *)
Candidates(n, source) == DeriveAll(n, source) \cup {Derive(n, source)}

(* ResolveSourceAliases: looked up without writing, an unknown source is   *)
(* provisionally its active pseudonym.                                     *)
Provisional(n, source) ==
    LET known == Owners(Candidates(n, source))
    IN  IF known = {} THEN Derive(n, source) ELSE CHOOSE c \in known : TRUE

(* ResolveSourceContext captures the candidates, the active one and the    *)
(* provisional identity.                                                   *)
Resolution(n, client, source) ==
    [pc |-> "resolved", node |-> n, client |-> client, source |-> source,
     aliases |-> Candidates(n, source), active |-> Derive(n, source), identity |-> Provisional(n, source)]

(* The client connects through a path of proxies, each of which appends    *)
(* the address it was reached from to what the client sent.                *)
Peer(client, path) == IF path = <<>> THEN client ELSE path[Len(path)]

Hops(client, forged, path) ==
    IF path = <<>> THEN forged ELSE forged \o <<client>> \o SubSeq(path, 1, Len(path) - 1)

(* ResolveContext on the node: an address that cannot be read and a source *)
(* with two owners are errors.                                             *)
Arrive(r, n, client, forged, path) ==
    LET source == CanonicalClientIP(Peer(client, path), Hops(client, forged, path))
    IN  /\ request[r].pc = "idle"
        /\ source # Refused /\ Cardinality(Owners(Candidates(n, source))) <= 1
        /\ request' = [request EXCEPT ![r] = Resolution(n, client, source)]
        /\ UNCHANGED <<clock, catalog, epoch, ring, alias, guard, refs, touch>>

(* The credential is unknown: what the detectors record is under the       *)
(* provisional identity, and no alias is written.                          *)
RejectCredential(r) ==
    /\ request[r].pc = "resolved"
    /\ refs' \in {refs, refs \cup {request[r].identity}}
    /\ request' = [request EXCEPT ![r] = [pc |-> "idle"]]
    /\ UNCHANGED <<clock, catalog, epoch, ring, alias, guard, touch>>

(* registerSourceAliases takes the guard and checks the generations of the *)
(* aliases; their rows are not locked against a retirement.                *)
BeginBind(r) ==
    /\ request[r].pc = "resolved" /\ guard = Nobody
    /\ IF \A a \in request[r].aliases : a[2] \in Usable
       THEN guard' = r /\ request' = [request EXCEPT ![r].pc = "binding"]
       ELSE guard' = guard /\ request' = [request EXCEPT ![r] = [pc |-> "idle"]]
    /\ UNCHANGED <<clock, catalog, epoch, ring, alias, refs, touch>>

Identities(rows) == {rows[a].owner : a \in DOMAIN rows}

Without(owners) == Restrict(alias, {a \in DOMAIN alias : alias[a].owner \notin owners})

(* reclaimStaleSourceAliasIdentities: identities nobody refers to, with    *)
(* no alias seen within the retention.                                     *)
Reclaimable ==
    {c \in Identities(alias) :
        c \notin refs /\ \A a \in RowsOf(c) : alias[a].seen < clock - Retention}

(* The rows after making room for one more identity.                       *)
Room ==
    LET surplus == Max({0, Cardinality(Identities(alias)) - MaxIdentities + 1})
    IN  IF Cardinality(Reclaimable) <= surplus THEN {Without(Reclaimable)}
        ELSE {Without(S) : S \in kSubset(surplus, Reclaimable)}

(* claimSourceAliasTouch, which throttles by alias: a row as recent as the *)
(* clock need not be touched.                                              *)
ClaimTouch(aliases) == {a \in aliases \cap DOMAIN alias : alias[a].seen < clock}

(* maybeTouchSourceAliases: an alias claimed within the touch interval, or *)
(* one that finds the queue full, is not touched.                          *)
Touched(aliases) == {touch, touch \cup ClaimTouch(aliases)}

Failed(r) ==
    /\ request' = [request EXCEPT ![r] = [pc |-> "idle"]]
    /\ UNCHANGED <<alias, touch>>

Insert(rows, aliases, owner) ==
    [a \in DOMAIN rows \cup aliases |-> IF a \in DOMAIN rows THEN rows[a] ELSE [owner |-> owner, seen |-> clock]]

(* Mutant: the identity of a bound source is that of its active alias.     *)
RegisterActive(r, rows, owner) ==
    Insert(rows, request[r].aliases,
           IF request[r].active \in DOMAIN rows THEN rows[request[r].active].owner ELSE request[r].active)

(* INSERT ... ON CONFLICT DO NOTHING: a row that exists keeps its time.    *)
Register(r, rows, owner) == Insert(rows, request[r].aliases, owner)

(* The request takes the canonical identity from here on.                  *)
BindAuthenticatedSource(r, owner) ==
    request' = [request EXCEPT ![r] = [@ EXCEPT !.pc = "bound", !.identity = owner]]

(* The rest of the transaction: two owners are a conflict, a new identity  *)
(* needs room.                                                             *)
Bind(r) ==
    LET found == Owners(request[r].aliases)
        owner == IF found = {} THEN request[r].active ELSE CHOOSE c \in found : TRUE
    IN  /\ request[r].pc = "binding"
        /\ guard' = Nobody
        /\ \E rows \in IF found = {} THEN Room ELSE {alias} :
              IF \/ Cardinality(found) > 1
                 \/ found = {} /\ Cardinality(Identities(rows)) >= MaxIdentities
              THEN Failed(r)
              ELSE /\ alias' = Register(r, rows, owner)
                   /\ touch' \in Touched(request[r].aliases)
                   /\ BindAuthenticatedSource(r, owner)
        /\ UNCHANGED <<clock, catalog, epoch, ring, refs>>

(* The rest of the request writes source-scoped state, or is denied        *)
(* before it does.                                                         *)
FinishRequest(r) ==
    /\ request[r].pc = "bound"
    /\ refs' \in {refs, refs \cup {request[r].identity}}
    /\ request' = [request EXCEPT ![r] = [pc |-> "idle"]]
    /\ UNCHANGED <<clock, catalog, epoch, ring, alias, guard, touch>>

------------------------------------------------------------------------------
(* In the background.                                                      *)

(* sourceAliasTouchLoop: the update may fail.                              *)
FlushTouches ==
    /\ touch # {}
    /\ alias' \in {alias, [a \in DOMAIN alias |-> IF a \in touch THEN [alias[a] EXCEPT !.seen = clock] ELSE alias[a]]}
    /\ touch' = {}
    /\ UNCHANGED <<clock, catalog, epoch, ring, guard, refs, request>>

(* Aliases not seen within the retention of an identity nobody refers to,  *)
(* and aliases of retired generations of an identity that keeps one that   *)
(* can be derived.                                                         *)
Doomed ==
    {a \in DOMAIN alias :
        \/ alias[a].seen < clock - Retention /\ alias[a].owner \notin refs
        \/ catalog[a[2]] = "retired" /\ Retained(alias[a].owner, a[2])}

(* maintainSourceAliases deletes the oldest of them under the guard (but   *)
(* passes over a row that a touch has locked).                             *)
MaintainSourceAliases ==
    /\ guard = Nobody /\ Doomed # {}
    /\ \E batch \in kSubset(Min({BatchSize, Cardinality(Doomed)}), Doomed) :
          /\ \A a \in batch, b \in Doomed \ batch : alias[a].seen <= alias[b].seen
          /\ alias' = Restrict(alias, DOMAIN alias \ batch)
    /\ UNCHANGED <<clock, catalog, epoch, ring, guard, refs, touch, request>>

(* The last of the scopes, buckets, evidence and adaptive rows that        *)
(* sourceIdentityReferencePredicate looks for expires.                     *)
Expire(c) ==
    /\ refs' = refs \ {c}
    /\ UNCHANGED <<clock, catalog, epoch, ring, alias, guard, touch, request>>

(* No request lasts as long as the unit of the clock, the retention.       *)
Elapse ==
    /\ clock < MaxClock
    /\ \A r \in RequestIds : request[r].pc \in {"idle", "resolved"}
    /\ clock' = clock + 1
    /\ UNCHANGED <<catalog, epoch, ring, alias, guard, refs, touch, request>>

SourceInit ==
    /\ clock = 0
    /\ catalog = [g \in Generations |-> IF g = Min(Generations) THEN "active" ELSE "absent"]
    /\ epoch = 1
    /\ ring = [n \in Nodes |-> [loaded |-> {Min(Generations)}, selected |-> Min(Generations)]]
    /\ alias = <<>>
    /\ guard = Nobody
    /\ refs = {}
    /\ touch = {}
    /\ request = [r \in RequestIds |-> [pc |-> "idle"]]

SourceNext ==
    \/ \E n \in Nodes :
          \/ \E loaded \in SUBSET Generations : Start(n, loaded)
          \/ \E g \in Generations : DropRetired(n, g)
          \/ SelectActive(n)
    \/ \E g \in Generations : Activate(g) \/ Retire(g)
    \/ \E r \in RequestIds :
          \/ \E n \in Nodes, client \in Clients, forged \in Forged, path \in Paths :
                Arrive(r, n, client, forged, path)
          \/ RejectCredential(r) \/ BeginBind(r) \/ Bind(r) \/ FinishRequest(r)
    \/ \E c \in refs : Expire(c)
    \/ FlushTouches \/ MaintainSourceAliases \/ Elapse

SourceSpec == SourceInit /\ [][SourceNext]_sourceVars

------------------------------------------------------------------------------
(* A client does not choose who it is: whatever it puts into the           *)
(* forwarding headers, a request is the source that connected to the first *)
(* trusted proxy, or to the gateway.                                       *)
SourceIsClient == \A r \in RequestIds : request[r].pc # "idle" => request[r].source = request[r].client

(* The generations that have been active: every node loads them, while a   *)
(* staged one may still be on its way to some.                             *)
Settled == {g \in Generations : catalog[g] \in {"superseded", "active"}}

Rows(source, generations) == {a \in DOMAIN alias : a[1] = source /\ a[2] \in generations}

Identified(source) == \A a, b \in Rows(source, Usable) : alias[a].owner = alias[b].owner

(* However generations are rotated and maintenance and reclamation         *)
(* interleave with binding, no two sources are merged, and a source with   *)
(* one identity is not split: all its aliases that can be derived keep one *)
(* owner, and ErrSourceAliasConflict, which would shut it out for good,    *)
(* does not arise.  Only a source whose every alias of a generation that   *)
(* has been active is gone while one of a staged generation is left may    *)
(* get a second identity.                                                  *)
OneIdentity ==
    [][/\ \A a \in DOMAIN alias' : alias'[a].owner[1] = a[1]
       /\ \A source \in Clients :
             Identified(source) /\ (Rows(source, Usable) # {} => Rows(source, Settled) # {})
             => Identified(source)']_sourceVars

Derivable(c) == \E a \in RowsOf(c) : a[2] \in Usable

(* What is held against a source cannot be shaken off by a rotation: no    *)
(* retirement, maintenance or reclamation, whatever they interleave with,  *)
(* leaves an identity that is referred to without an alias the nodes can   *)
(* derive, when it had one.                                                *)
HistoryReachable == [][\A c \in refs \cap refs' : Derivable(c) => Derivable(c)']_sourceVars

(* "Recency is analytics/retention metadata, not an inference correctness  *)
(* condition" (maybeTouchSourceAliases): a source whose aliases outlived   *)
(* the retention keeps its identity from its binding on.                   *)
BoundIsRegistered == \A r \in RequestIds : request[r].pc = "bound" => RowsOf(request[r].identity) # {}
=============================================================================
