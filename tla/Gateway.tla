------------------------------- MODULE Gateway -------------------------------
(***************************************************************************)
(* The data plane of one process (internal/proxy, cmd/gripline/main.go):   *)
(* the life of a request in ServeHTTP, the guard in front of               *)
(* authentication, the spool of bodies of unknown length, the idle         *)
(* watchdog of a response stream, and the shutdown of the process.         *)
(*                                                                         *)
(* The admission decision is Admission's and the accounting of a           *)
(* reservation is Governor's and ResourceLeases'; here an admission        *)
(* answers yes or no and a reservation is its three flags.  The meter is   *)
(* Usage's: what the pieces of a response say changes no step of the       *)
(* handler, so a request counts the chunks its session observed, and       *)
(* ChargedForUse is about all they may say.  A second is one tick of the   *)
(* clock.                                                                  *)
(***************************************************************************)
EXTENDS Usage, FiniteSets, Functions

CONSTANTS
    Requests,
    SourceOf,            \* request -> its source key
    Answered,            \* the requests that the backend may answer
    Rules,               \* EndpointRules [method, path, scope, profile]
    Heads,               \* of a request: [method, path, encodings]
    ScopeSets,           \* the scopes an assertion may have
    OverflowKey,         \* the shard of the sources without an entry
    MaxConcurrent, RequestsPerSecond, SourceRequestsPS, MaxSources, SourceIdle,
    MaxBodyBytes, SpoolMaxBytes, SpoolMaxFiles,
    WriteTimeout, StreamWriteIdleTimeout,    \* of a response; zero: not configured
    Profiles, BodySizes, Pieces,     \* usage profiles, body sizes, pieces of a response
    MaxChunks, MaxPieces, MaxClock   \* bounds: chunks, pieces of a chunk, time

(* normalizeEndpointRule: a closed set of scopes and profiles, and a       *)
(* profile that reads a request body only on a POST.                       *)
ValidRule(rule) ==
    /\ rule.scope \in {"", "inference", "REQUEST", "LANE", "CREDENTIAL", "ACCOUNT"}
    /\ rule.profile \in {"", "none", "openai-chat", "openai-responses", "openai-embeddings",
                         "openai-models", "anthropic-messages"}
    /\ rule.profile = "openai-models" => rule.method = "GET"
    /\ rule.profile \notin {"", "none", "openai-models"} => rule.method = "POST"

ASSUME GatewayAssumption ==
    /\ IsFiniteSet(Requests)
    /\ WriteTimeout \in Nat /\ StreamWriteIdleTimeout \in Nat
    /\ MaxBodyBytes \in Nat /\ BodySizes \subseteq Nat /\ MaxPieces \in Nat
    /\ \A piece \in Pieces : piece.size \in Nat /\ piece.object \in [Dimensions -> Int]
    /\ \A rule \in Rules : ValidRule(rule)
    /\ \A a, b \in Rules : a.method = b.method /\ a.path = b.path => a = b

VARIABLES
    clock,
    server,     \* "serving", "signalled", "draining", "exited"
    guard,      \* preAuthGuard
    spool,      \* SpoolBudget
    req         \* request -> its handler

vars == <<clock, server, guard, spool, req>>

NewGuard == [active |-> 0, start |-> clock, count |-> 0, sources |-> <<>>]

NewSpool == [bytes |-> 0, files |-> 0]

(* at: the step the handler is about to take.  pre, holds: the guard's     *)
(* slot, the spool reservation is not released yet.  owned: the transport  *)
(* has the body.  reply, written: history, what the backend produced and   *)
(* the client was given.                                                   *)
NewRequest ==
    [at |-> "new", needs |-> "", chunked |-> FALSE, pre |-> FALSE, holds |-> FALSE, owned |-> FALSE,
     record |-> "none", reserved |-> FALSE, forwarded |-> FALSE, settled |-> FALSE,
     cancelled |-> FALSE, sent |-> FALSE,
     reply |-> 0, ended |-> FALSE, written |-> 0, got |-> [n |-> 0, err |-> "none"],
     metered |-> 0,
     timer |-> "nil", firing |-> FALSE, closed |-> FALSE, streamErr |-> FALSE, credit |-> FALSE]

Init ==
    /\ clock = 0
    /\ server = "serving"
    /\ guard = NewGuard
    /\ spool = NewSpool
    /\ req = [r \in Requests |-> NewRequest]

Up == server # "exited"

At(r, step) == Up /\ req[r].at = step

Becomes(r, h) == req' = [req EXCEPT ![r] = h]

(* A step that touches the request alone.                                  *)
Steps(r, h) == Becomes(r, h) /\ UNCHANGED <<clock, server, guard, spool>>

(* observeAdmission: the first record of a request stands.                 *)
ObserveAdmission(h, outcome) ==
    IF h.record = "none" THEN [h EXCEPT !.record = outcome] ELSE h

(* A denial is recorded and answered, and the handler returns.             *)
Deny(h) == [ObserveAdmission(h, "denied") EXCEPT !.at = "return"]

------------------------------------------------------------------------------
(* The guard (preauth.go).                                                 *)

Rolled(window) == IF clock - window.start >= 1 THEN [window EXCEPT !.start = clock, !.count = 0] ELSE window

(* acquireKey: the guard after a request of the source, and whether the    *)
(* request may go on.                                                      *)
AcquireKey(source) ==
    LET g == Rolled(guard)
        table == Restrict(g.sources, {s \in DOMAIN g.sources : clock - g.sources[s].lastSeen < SourceIdle})
        known == source \in DOMAIN table \/ Cardinality(DOMAIN table) < MaxSources
        key == IF known THEN source ELSE OverflowKey
        entry == IF key \in DOMAIN table THEN Rolled(table[key])
                 ELSE [start |-> clock, count |-> 0, lastSeen |-> clock]
        Enter(e) == [g EXCEPT !.sources = [s \in {key} \cup DOMAIN table |-> IF s = key THEN e ELSE table[s]]]
    IN  IF g.active >= MaxConcurrent \/ g.count >= RequestsPerSecond
        THEN [guard |-> g, ok |-> FALSE]
        ELSE IF entry.count >= SourceRequestsPS
        THEN [guard |-> Enter(entry), ok |-> FALSE]
        ELSE [guard |-> [Enter([entry EXCEPT !.count = @ + 1, !.lastSeen = clock])
                            EXCEPT !.active = @ + 1, !.count = @ + 1],
              ok |-> TRUE]

(* Mutant: every call of the returned function gives a slot back.          *)
PreAuthReleaseAlways(h) == [guard EXCEPT !.active = IF @ > 0 THEN @ - 1 ELSE @]

(* The function acquireKey returns: the first call gives the slot back.    *)
PreAuthRelease(h) == [guard EXCEPT !.active = IF h.pre /\ @ > 0 THEN @ - 1 ELSE @]

------------------------------------------------------------------------------
(* The spool (spool_budget.go, spool.go).                                  *)

(* SpoolBudget.Acquire of MaxBodyBytes succeeds.                           *)
Fits ==
    /\ SpoolMaxBytes > 0 =>
         MaxBodyBytes <= SpoolMaxBytes /\ spool.bytes <= SpoolMaxBytes - MaxBodyBytes
    /\ SpoolMaxFiles > 0 => spool.files < SpoolMaxFiles

(* SpoolReservation.Release, once per reservation.                         *)
SpoolRelease(h) ==
    IF h.holds THEN [bytes |-> Max({0, spool.bytes - MaxBodyBytes}), files |-> Max({0, spool.files - 1})]
    ELSE spool

(* spooledBody.Close: removes the file and releases the reservation, which *)
(* stands for both here.                                                   *)
CloseBody(r, h) ==
    /\ spool' = SpoolRelease(req[r])
    /\ Becomes(r, [h EXCEPT !.holds = FALSE])
    /\ UNCHANGED <<clock, server, guard>>

------------------------------------------------------------------------------
(* ServeHTTP.                                                              *)

(* routeStatus: 0 is an endpoint of the gateway.                           *)
RouteStatus(head) ==
    LET known == {rule \in Rules : rule.path = head.path}
    IN  CASE known = {} -> 404
          [] \E rule \in known : rule.method = head.method -> 0
          [] OTHER -> 405

(* routeRule.                                                              *)
RouteRule(head) == CHOOSE rule \in Rules : rule.method = head.method /\ rule.path = head.path

UnsupportedContentEncoding(head) == \E e \in head.encodings : e \notin {"", "identity"}

Arrives(r) == server \in {"serving", "signalled"} /\ At(r, "new")

(* Refused before authentication: an encoding, a path or a method that the *)
(* gateway does not serve.                                                 *)
Refuse(r) ==
    /\ Arrives(r)
    /\ \E head \in Heads : UnsupportedContentEncoding(head) \/ RouteStatus(head) # 0
    /\ Steps(r, Deny(req[r]))

(* No id can be drawn for the request, or the declared length of its body  *)
(* is above the limit.                                                     *)
RefuseBody(r) == Arrives(r) /\ Steps(r, Deny(req[r]))

EnterGuard(r) ==
    /\ Arrives(r)
    /\ \E chunked \in BOOLEAN, head \in Heads :
         LET guarded == AcquireKey(SourceOf[r])
             h == [req[r] EXCEPT !.chunked = chunked, !.needs = RouteRule(head).scope]
         IN  /\ ~UnsupportedContentEncoding(head) /\ RouteStatus(head) = 0
             /\ guard' = guarded.guard
             /\ Becomes(r, IF guarded.ok THEN [h EXCEPT !.at = "admit", !.pre = TRUE] ELSE Deny(h))
    /\ UNCHANGED <<clock, server, spool>>

(* The credential cannot be extracted or the source cannot be resolved.    *)
Unresolved(r) ==
    /\ At(r, "admit")
    /\ Steps(r, Deny(req[r]))

(* assertionHasScope, of a rule that requires one.                         *)
HasScope(scopes, required) == required = "" \/ required \in scopes

(* AdmitUsageContext, the release of the guard's slot, and the scope of    *)
(* the route, which an authorized request may lack.                        *)
Admit(r) ==
    /\ At(r, "admit")
    /\ guard' = PreAuthRelease(req[r])
    /\ LET h == [req[r] EXCEPT !.pre = FALSE]
           held == [h EXCEPT !.reserved = TRUE]
       IN  \/ Becomes(r, Deny(h))
           \/ \E scopes \in ScopeSets :
                Becomes(r, IF HasScope(scopes, h.needs)
                           THEN [held EXCEPT !.at = IF h.chunked THEN "acquire" ELSE "forward"]
                           ELSE Deny(held))
    /\ UNCHANGED <<clock, server, spool>>

AcquireSpool(r) ==
    /\ At(r, "acquire")
    /\ IF Fits
       THEN /\ spool' = [bytes |-> spool.bytes + MaxBodyBytes, files |-> spool.files + 1]
            /\ Becomes(r, [req[r] EXCEPT !.at = "spool", !.chunked = FALSE, !.holds = TRUE])
       ELSE Becomes(r, Deny(req[r])) /\ UNCHANGED spool
    /\ UNCHANGED <<clock, server, guard>>

(* Mutant: a body that is too large is rejected and not closed.            *)
SpoolFailsOpen(r) ==
    /\ At(r, "spool")
    /\ Steps(r, Deny(req[r]))

(* A read or write error, or more than MaxBodyBytes: the body is closed    *)
(* and the request denied.                                                 *)
SpoolFails(r) ==
    /\ At(r, "spool")
    /\ CloseBody(r, Deny(req[r]))

SpoolDone(r) ==
    /\ At(r, "spool")
    /\ Steps(r, [req[r] EXCEPT !.at = "forward"])

(* Mutant: the reservation is marked only when the backend has answered.   *)
MarkForwardedLate(r) ==
    /\ At(r, "forward")
    /\ ~req[r].cancelled
    /\ Steps(r, [ObserveAdmission(req[r], "authorized") EXCEPT !.at = "send"])

(* The admission is recorded, then MarkForwarded.                          *)
MarkForwarded(r) ==
    /\ At(r, "forward")
    /\ ~req[r].cancelled
    /\ Steps(r, [ObserveAdmission(req[r], "authorized") EXCEPT !.forwarded = TRUE, !.at = "send"])

(* MarkForwarded fails: the client is gone or the authority refuses.  The  *)
(* transition may have been committed all the same.                        *)
ForwardRefused(r) ==
    /\ At(r, "forward")
    /\ \E committed \in {req[r].forwarded, ~req[r].cancelled} :
         Steps(r, [ObserveAdmission(req[r], "authorized") EXCEPT !.forwarded = committed, !.at = "return"])

(* RoundTrip takes the body.                                               *)
Send(r) ==
    /\ At(r, "send")
    /\ Steps(r, [req[r] EXCEPT !.sent = TRUE, !.owned = req[r].holds, !.at = "await"])

(* The transport closes the body, in its own time.                         *)
TransportCloses(r) ==
    /\ Up
    /\ req[r].owned
    /\ CloseBody(r, [req[r] EXCEPT !.owned = FALSE])

RoundTripFails(r) ==
    /\ At(r, "await")
    /\ Steps(r, [req[r] EXCEPT !.at = "return"])

(* Response headers.                                                       *)
Respond(r) ==
    /\ At(r, "await")
    /\ r \in Answered
    /\ Steps(r, [req[r] EXCEPT !.at = "stream"])

------------------------------------------------------------------------------
(* The stream (idle_reader.go and the copy loop).                          *)

(* The body of a response is wrapped by the idle reader only when both     *)
(* timeouts are configured; the configuration requires the first alone.    *)
Watched == WriteTimeout > 0 /\ StreamWriteIdleTimeout > 0

(* idleTimeoutReader.Read arms the watchdog and reads; a body that is not  *)
(* wrapped is just read.                                                   *)
StartRead(r) ==
    /\ At(r, "stream")
    /\ Steps(r, [req[r] EXCEPT !.timer = IF Watched /\ ~req[r].closed /\ @ = "nil" THEN "armed" ELSE @,
                              !.at = "reading"])

Returned(h, n, err) == [h EXCEPT !.got = [n |-> n, err |-> err], !.reply = @ + n, !.at = "returned"]

(* The backend produces a chunk or ends its response.                      *)
BackendProduces(r) ==
    /\ At(r, "reading")
    /\ ~req[r].closed
    /\ \E n \in 0..1, err \in {"none", "eof", "error"} :
         /\ n > 0 \/ err # "none"
         /\ req[r].reply + n <= MaxChunks
         /\ Steps(r, [Returned(req[r], n, err) EXCEPT !.ended = err = "eof"])

(* A read of a closed body, or of a cancelled request, fails.              *)
ReadAborted(r) ==
    /\ At(r, "reading")
    /\ req[r].closed \/ req[r].cancelled
    /\ Steps(r, Returned(req[r], 0, "error"))

(* The timer expires: its callback is started and waits for the lock.      *)
TimerExpires(r) ==
    /\ Up
    /\ req[r].timer = "armed" /\ ~req[r].firing /\ ~req[r].closed
    /\ Steps(r, [req[r] EXCEPT !.firing = TRUE])

(* The callback, which a Stop that came too late does not hold back.       *)
WatchdogFires(r) ==
    /\ Up
    /\ req[r].firing
    /\ Steps(r, [req[r] EXCEPT !.firing = FALSE, !.closed = TRUE])

(* Mutant: the stopped timer is kept, so that the next read arms none.     *)
DisarmKeeping(h) == [h EXCEPT !.timer = "stopped"]

(* disarmWatchdog and stopWatchdog.                                        *)
Disarm(h) == [h EXCEPT !.timer = "nil"]

(* The loop ends: nothing reads the idle reader any more.                  *)
LeaveLoop(h, failed) ==
    [h EXCEPT !.streamErr = failed, !.timer = "nil", !.firing = FALSE, !.closed = FALSE,
              !.got = NewRequest.got, !.at = "settle"]

(* The rest of Read and, when it gave no bytes, of the loop.  closed is    *)
(* also timedOut here: the proxy itself closes the body only when the      *)
(* handler returns.                                                        *)
FinishRead(r) ==
    /\ At(r, "returned")
    /\ LET h == req[r]
           failed == h.got.err = "error" \/ (h.got.err # "none" /\ h.closed)
           stop == IF h.closed THEN h ELSE Disarm(h)
       IN  Steps(r, IF h.got.n > 0 THEN [stop EXCEPT !.streamErr = failed, !.at = "write"]
                    ELSE LeaveLoop(h, failed))

(* The chunk is metered and written to the client, who may be gone or      *)
(* beyond the write deadline.                                              *)
WriteChunk(r) ==
    /\ At(r, "write")
    /\ LET h == [req[r] EXCEPT !.metered = @ + 1]
           given == [h EXCEPT !.written = @ + 1]
       IN  \/ /\ ~h.cancelled
              /\ Steps(r, IF h.got.err = "none" THEN [given EXCEPT !.got = NewRequest.got, !.at = "stream"]
                          ELSE LeaveLoop(given, h.streamErr))
           \/ Steps(r, LeaveLoop(h, TRUE))

------------------------------------------------------------------------------
(* The end of a request.                                                   *)

(* SettleContext, detached from the request's context, may fail.           *)
Settle(r) ==
    /\ At(r, "settle")
    /\ \E settled \in BOOLEAN : Steps(r, [req[r] EXCEPT !.settled = settled, !.at = "complete"])

(* Mutant: the status alone earns the baseline credit.                     *)
CompleteByStatus(r) ==
    /\ At(r, "complete")
    /\ \E success \in BOOLEAN : Steps(r, [req[r] EXCEPT !.credit = success, !.at = "return"])

(* Complete and FinalizeBaseline; success is a status of the 200s.         *)
Complete(r) ==
    /\ At(r, "complete")
    /\ \E success \in BOOLEAN :
         Steps(r, [req[r] EXCEPT !.credit = success /\ ~req[r].streamErr, !.at = "return"])

(* A resolver or a meter panics; net/http recovers and the deferred calls  *)
(* run.                                                                    *)
Panic(r) ==
    /\ At(r, "admit") \/ At(r, "write")
    /\ Steps(r, [req[r] EXCEPT !.at = "return"])

(* What Release does with the estimate.                                    *)
Release(h) ==
    CASE ~h.reserved -> "none"
      [] h.settled -> "actual"
      [] h.forwarded /\ ~h.settled -> "estimate"
      [] OTHER -> "refund"

(* The meter's sessions after n pieces of a response.                      *)
SessionsAfter[n \in Nat] ==
    IF n = 0 THEN {Begin(profile, body) : profile \in Profiles, body \in BodySizes}
    ELSE {ObserveChunk(s, piece) : s \in SessionsAfter[n - 1], piece \in Pieces}

(* The sessions after what they may have observed, and what the request is *)
(* charged in the end.                                                     *)
Sessions(h) == UNION {SessionsAfter[n] : n \in h.metered..(MaxPieces * h.metered)}

Charged(h, s) ==
    CASE Release(h) = "actual" -> Finish(s, h.streamErr)
      [] Release(h) = "estimate" -> s.estimate
      [] OTHER -> RequestOnly

(* The deferred calls: the response body is closed, the renewal stops, the *)
(* reservation and the guard's slot are released, and a request without a  *)
(* record gets one.  What is left of the request is its body.              *)
Return(r) ==
    /\ At(r, "return")
    /\ guard' = PreAuthRelease(req[r])
    /\ LET h == ObserveAdmission(req[r], "denied") IN
       Becomes(r, [NewRequest EXCEPT !.at = "done", !.record = h.record, !.sent = h.sent,
                                     !.holds = h.holds, !.owned = h.owned])
    /\ UNCHANGED <<clock, server, spool>>

InFlight(r) == req[r].at \notin {"new", "done"}

(* The client disconnects, or renewReservation fails and cancels.          *)
Cancel(r) ==
    /\ Up
    /\ InFlight(r) /\ ~req[r].cancelled
    /\ Steps(r, [req[r] EXCEPT !.cancelled = TRUE])

------------------------------------------------------------------------------
(* The process (main.go run, runtime_lifecycle.go).                        *)

Lifecycle(from, to) ==
    /\ server = from
    /\ server' = to
    /\ UNCHANGED <<clock, guard, spool, req>>

(* A signal, or the failure of a listener.                                 *)
Signal == Lifecycle("serving", "signalled")

(* MarkDraining, whose error is kept for the exit status; then Shutdown    *)
(* closes the listeners.                                                   *)
MarkDraining == Lifecycle("signalled", "draining")

(* Runtime.Close runs the closers, and the process exits with whatever     *)
(* handlers are left.                                                      *)
Exit ==
    /\ server = "draining"
    /\ server' = "exited"
    /\ guard' = NewGuard
    /\ spool' = NewSpool
    /\ req' = [r \in Requests |-> NewRequest]
    /\ UNCHANGED clock

ShutdownReturns == (\A r \in Requests : ~InFlight(r)) /\ Exit

ShutdownTimesOut == Exit

Tick ==
    /\ Up /\ clock < MaxClock
    /\ clock' = clock + 1
    /\ UNCHANGED <<server, guard, spool, req>>

(* What the process does by itself.                                        *)
Handler(r) ==
    \/ Unresolved(r) \/ Admit(r) \/ AcquireSpool(r) \/ SpoolFails(r) \/ SpoolDone(r)
    \/ MarkForwarded(r) \/ ForwardRefused(r) \/ Send(r) \/ RoundTripFails(r) \/ Respond(r)
    \/ StartRead(r) \/ ReadAborted(r) \/ FinishRead(r) \/ WriteChunk(r)
    \/ Settle(r) \/ Complete(r) \/ Return(r)

Next ==
    \/ \E r \in Requests :
         \/ Refuse(r) \/ RefuseBody(r) \/ EnterGuard(r) \/ TransportCloses(r)
         \/ BackendProduces(r) \/ TimerExpires(r) \/ WatchdogFires(r) \/ Panic(r) \/ Cancel(r)
         \/ Handler(r)
    \/ Signal \/ MarkDraining \/ ShutdownReturns \/ ShutdownTimesOut \/ Tick

Spec == Init /\ [][Next]_vars

(* Go schedules a runnable handler, a timer fires, and every wait of a     *)
(* handler but the read of the stream has a timeout of its own: the        *)
(* deadlines of the connection, the transport and the authority.  Nothing  *)
(* is assumed of the backend, the client or the operator.                  *)
FairSpec ==
    /\ Spec
    /\ \A r \in Requests :
         WF_vars(Handler(r)) /\ WF_vars(TimerExpires(r)) /\ WF_vars(WatchdogFires(r))

------------------------------------------------------------------------------
(* Properties.                                                             *)

(* Refused at MarkForwarded, after the body was spooled.                   *)
RefusedLate(r) == req[r].at = "done" /\ req[r].record = "authorized" /\ ~req[r].sent

(* The budget counts the reservations that are held, and a reservation is  *)
(* held only while the handler or the transport works on the request:      *)
(* every error path of the spool gives it back.  (A request refused at     *)
(* MarkForwarded is the exception that SpoolReturned is about.)            *)
SpoolInUse ==
    Up => /\ spool.files = Cardinality({r \in Requests : req[r].holds})
          /\ spool.bytes = MaxBodyBytes * spool.files
          /\ \A r \in Requests :
               req[r].holds => InFlight(r) \/ req[r].owned \/ RefusedLate(r)

(* spool_budget.go: "Callers must release the returned handle through      *)
(* spooledBody.Close or Release on an error path."                         *)
SpoolReturned ==
    Up => \A r \in Requests : req[r].holds => InFlight(r) \/ req[r].owned

(* The guard's slots are those of the requests between acquireKey and the  *)
(* first of the two releases: a slot is neither lost nor given back twice. *)
PreAuthExact == Up => guard.active = Cardinality({r \in Requests : req[r].pre})

(* A request that the backend may have received is never refunded, however *)
(* it ended: transport error, cancelled stream, failed settlement, panic.  *)
(* It is charged at least its estimate, unless the backend reported all of *)
(* its usage over a stream that nothing broke, and at least the tokens     *)
(* that were reported when the settlement succeeds, however the records    *)
(* were cut into pieces.                                                   *)
ChargedForUse ==
    \A r \in Requests : req[r].at = "return" /\ req[r].sent =>
        /\ Release(req[r]) # "refund"
        /\ \A s \in Sessions(req[r]), d \in {"input", "output", "combined"} :
             LET h == req[r]
                 charged == Charged(h, s).tokens[d]
             IN  /\ \/ charged >= Clamp(s.estimate.tokens[d])
                    \/ h.settled /\ h.ended /\ ~h.streamErr /\ CompleteUsage(s)
                 /\ h.settled /\ Metered(s.profile) => charged >= Clamp(Amount(s.usage, d))

(* provider.go: "Missing, malformed, or partial usage never settles below  *)
(* the admission estimate", of its cost.                                   *)
PartialCostsEstimate ==
    \A r \in Requests : req[r].at = "return" /\ req[r].sent =>
        \A s \in Sessions(req[r]) :
            \/ Charged(req[r], s).cost >= s.estimate.cost
            \/ req[r].settled /\ ~req[r].streamErr /\ CompleteUsage(s)

(* Baseline credit is earned only when the client was given every chunk    *)
(* the backend produced, up to its end, whatever the watchdog, the client  *)
(* and the renewal did meanwhile.                                          *)
CreditWholeResponse ==
    \A r \in Requests : req[r].credit => req[r].ended /\ req[r].written = req[r].reply

(* A silent backend does not hold a handler forever when the idle timeout  *)
(* is configured: the watchdog is armed again after every chunk, and cuts  *)
(* the stream.  Without it (the default) only a client that leaves does.   *)
StreamsEnd ==
    \A r \in Requests :
        /\ req[r].at \in {"stream", "reading", "returned", "write"}
        /\ Watched \/ req[r].cancelled
        ~> req[r].at \in {"settle", "return"} \/ ~Up

(* config.go: "WriteTimeout bounds the response", of every configuration.  *)
ResponseBounded ==
    \A r \in Requests :
        req[r].at \in {"stream", "reading", "returned", "write"} ~> req[r].at \in {"settle", "return"} \/ ~Up
=============================================================================
