----------------------------- MODULE GatewayProofs -----------------------------
(***************************************************************************)
(* Proofs about Gateway, for every finite set of requests, every limit and *)
(* every set of pieces that a response may be made of: the slots of the    *)
(* guard, the reservations of the spool, what a request is charged and     *)
(* when it earns its baseline credit.                                      *)
(***************************************************************************)
EXTENDS Gateway, TLAPS, FiniteSetTheorems, WellFoundedInduction

Opening == {"new", "admit", "acquire", "spool", "forward"}

Streaming == {"stream", "reading", "returned", "write"}

Answering == {"await", "settle", "complete"} \cup Streaming

Scopes == {"", "inference", "REQUEST", "LANE", "CREDENTIAL", "ACCOUNT"}

Request ==
    [at : Opening \cup Answering \cup {"send", "return", "done"}, needs : Scopes,
     chunked : BOOLEAN, pre : BOOLEAN, holds : BOOLEAN, owned : BOOLEAN,
     record : {"none", "denied", "authorized"},
     reserved : BOOLEAN, forwarded : BOOLEAN, settled : BOOLEAN, cancelled : BOOLEAN, sent : BOOLEAN,
     reply : Nat, ended : BOOLEAN, written : Nat,
     got : [n : 0..1, err : {"none", "eof", "error"}], metered : Nat,
     timer : {"nil", "armed"}, firing : BOOLEAN, closed : BOOLEAN, streamErr : BOOLEAN, credit : BOOLEAN]

SourceKeys == {SourceOf[r] : r \in Requests} \cup {OverflowKey}

Window == [start : Nat, count : Nat, lastSeen : Nat]

(* A table of windows, and a guard with one.                               *)
IsTable(t) == DOMAIN t \subseteq SourceKeys /\ t \in [DOMAIN t -> Window]

IsGuard(g) == IsTable(g.sources) /\ g \in [active : Nat, start : Nat, count : Nat, sources : {g.sources}]

TypeOK ==
    /\ clock \in Nat
    /\ server \in {"serving", "signalled", "draining", "exited"}
    /\ IsGuard(guard)
    /\ spool \in [bytes : Nat, files : Nat]
    /\ req \in [Requests -> Request]

(* Where a request that holds a spool reservation is, or was refused.      *)
SpoolInv(h) ==
    /\ h.at \in {"new", "admit", "acquire"} => ~h.holds
    /\ h.owned => h.holds /\ h.sent
    /\ h.holds => \/ h.at \in {"spool", "forward", "send"}
                  \/ h.owned
                  \/ h.at \in {"return", "done"} /\ h.record = "authorized" /\ ~h.sent

(* A request is marked forwarded before it is sent.                        *)
SentInv(h) ==
    /\ h.at = "new" => ~h.pre
    /\ h.at \in Opening => h.record = "none" /\ ~h.sent
    /\ h.at \in {"acquire", "spool", "forward"} => h.reserved
    /\ h.at = "send" => h.record = "authorized" /\ ~h.sent /\ h.reserved /\ h.forwarded
    /\ h.at \in Answering => h.sent
    /\ h.at # "done" /\ h.sent => h.reserved /\ h.forwarded

(* The chunks written are those produced, less the one in hand.            *)
StreamInv(h) ==
    /\ h.at \in Opening \cup {"send", "await", "stream", "reading"} => h.written = h.reply
    /\ h.at \in {"returned", "write"} =>
          h.written + h.got.n = h.reply /\ (h.got.err = "eof" => h.ended)
    /\ h.at = "returned" => h.got.n = 1 \/ h.got.err # "none"
    /\ h.at = "write" => h.got.n = 1 /\ (~h.streamErr => h.got.err # "error")
    /\ h.at \in {"settle", "complete"} /\ ~h.streamErr => h.ended /\ h.written = h.reply
    /\ h.settled => h.at \in {"complete", "return"} /\ (~h.streamErr => h.ended)
    /\ h.credit => h.at = "return" /\ h.ended /\ h.written = h.reply

RequestInv(h) == SpoolInv(h) /\ SentInv(h) /\ StreamInv(h)

RequestsInv == \A r \in Requests : RequestInv(req[r])

Waiting == {r \in Requests : req[r].pre}

Spooled == {r \in Requests : req[r].holds}

CountInv ==
    /\ guard.active = Cardinality(Waiting)
    /\ spool.files = Cardinality(Spooled)
    /\ spool.bytes = MaxBodyBytes * spool.files

(* The inductive invariant.                                                *)
IInv == TypeOK /\ RequestsInv /\ CountInv

-----------------------------------------------------------------------------
(***************************************************************************)
(* Numbers and counts.                                                     *)
(***************************************************************************)
(* Max of FiniteSetsExt, of two numbers.                                   *)
LEMMA MaxOfTwo ==
    ASSUME NEW a \in Int, NEW b \in Int
    PROVE  Max({a, b}) = IF a >= b THEN a ELSE b
<1> DEFINE m == IF a >= b THEN a ELSE b
<1>1. m \in {a, b} /\ \A y \in {a, b} : m >= y
  OBVIOUS
<1>2. \A x \in {a, b} : (\A y \in {a, b} : x >= y) => x = m
  OBVIOUS
<1> QED
  BY <1>1, <1>2 DEF Max

(* Min of FiniteSetsExt, of two numbers.                                   *)
LEMMA MinOfTwo ==
    ASSUME NEW a \in Int, NEW b \in Int
    PROVE  Min({a, b}) = IF a <= b THEN a ELSE b
<1> DEFINE m == IF a <= b THEN a ELSE b
<1>1. m \in {a, b} /\ \A y \in {a, b} : m =< y
  OBVIOUS
<1>2. \A x \in {a, b} : (\A y \in {a, b} : x =< y) => x = m
  OBVIOUS
<1> QED
  BY <1>1, <1>2 DEF Min

(* A body more or less.                                                    *)
LEMMA BodyMore ==
    ASSUME NEW m \in Nat, NEW f \in Nat
    PROVE  /\ m * f \in Nat
           /\ m * (f + 1) = m * f + m
           /\ m * (f - 1) = m * f - m
  OBVIOUS

(* A set of requests is finite, and one request more or less counts one.   *)
LEMMA Counting ==
    ASSUME NEW S \in SUBSET Requests, NEW r \in Requests
    PROVE  /\ Cardinality(S) \in Nat
           /\ r \notin S => Cardinality(S \cup {r}) = Cardinality(S) + 1
           /\ r \in S => Cardinality(S \ {r}) = Cardinality(S) - 1 /\ Cardinality(S) > 0
<1>1. IsFiniteSet(S)
  BY FS_Subset, GatewayAssumption
<1>2. Cardinality(S) \in Nat /\ Cardinality(S \ {r}) \in Nat
  BY <1>1, FS_CardinalityType, FS_RemoveElement
<1>3. r \notin S => Cardinality(S \cup {r}) = Cardinality(S) + 1
  BY <1>1, FS_AddElement
<1>4. r \in S => Cardinality(S \ {r}) = Cardinality(S) - 1
  BY <1>1, FS_RemoveElement
<1> QED
  BY <1>2, <1>3, <1>4

(* What a step that gives request r the record h does to the requests.     *)
LEMMA BecomesKeeps ==
    ASSUME TypeOK, RequestsInv, NEW r \in Requests, NEW h \in Request, RequestInv(h), Becomes(r, h)
    PROVE  /\ req' \in [Requests -> Request]
           /\ RequestsInv'
           /\ Waiting' = IF h.pre THEN Waiting \cup {r} ELSE Waiting \ {r}
           /\ Spooled' = IF h.holds THEN Spooled \cup {r} ELSE Spooled \ {r}
<1>1. req' \in [Requests -> Request]
  BY DEF TypeOK, Becomes
<1>2. \A q \in Requests : req'[q] = IF q = r THEN h ELSE req[q]
  BY DEF TypeOK, Becomes
<1>3. RequestsInv'
  <2> SUFFICES ASSUME NEW q \in Requests PROVE RequestInv(req'[q])
    BY DEF RequestsInv
  <2> QED
    BY <1>2 DEF RequestsInv
<1>4. Waiting' = IF h.pre THEN Waiting \cup {r} ELSE Waiting \ {r}
  BY <1>2 DEF Waiting
<1>5. Spooled' = IF h.holds THEN Spooled \cup {r} ELSE Spooled \ {r}
  BY <1>2 DEF Spooled
<1> QED
  BY <1>1, <1>3, <1>4, <1>5

(* A step of a request alone that keeps its slot and its reservation.      *)
LEMMA StepsKeeps ==
    ASSUME IInv, NEW r \in Requests, NEW h \in Request, RequestInv(h), Steps(r, h),
           h.pre = req[r].pre, h.holds = req[r].holds
    PROVE  IInv'
<1>1. UNCHANGED <<clock, server, guard, spool>> /\ Becomes(r, h)
  BY DEF Steps
<1>2. /\ req' \in [Requests -> Request] /\ RequestsInv'
      /\ Waiting' = IF h.pre THEN Waiting \cup {r} ELSE Waiting \ {r}
      /\ Spooled' = IF h.holds THEN Spooled \cup {r} ELSE Spooled \ {r}
  BY <1>1, BecomesKeeps DEF IInv
<1>3. Waiting' = Waiting /\ Spooled' = Spooled
  BY <1>2 DEF Waiting, Spooled
<1>4. TypeOK'
  BY <1>1, <1>2 DEF IInv, TypeOK, IsGuard, IsTable
<1> QED
  BY <1>1, <1>2, <1>3, <1>4 DEF IInv, CountInv

(* A step that releases the slot of a request, if it has one.              *)
LEMMA SlotReleased ==
    ASSUME IInv, NEW r \in Requests, NEW h \in Request, RequestInv(h), Becomes(r, h),
           guard' = PreAuthRelease(req[r]), UNCHANGED <<clock, server, spool>>,
           ~h.pre, h.holds = req[r].holds
    PROVE  IInv'
<1>1. /\ req' \in [Requests -> Request] /\ RequestsInv'
      /\ Waiting' = Waiting \ {r}
      /\ Spooled' = IF h.holds THEN Spooled \cup {r} ELSE Spooled \ {r}
  BY BecomesKeeps DEF IInv
<1>2. Spooled' = Spooled
  BY <1>1 DEF Spooled
<1>3. Waiting \in SUBSET Requests /\ (req[r].pre <=> r \in Waiting)
  BY DEF Waiting
<1>4. guard.active \in Nat /\ guard.active = Cardinality(Waiting)
  BY DEF IInv, TypeOK, CountInv, IsGuard
<1>5. /\ IsGuard(guard')
      /\ guard'.active = IF req[r].pre /\ guard.active > 0 THEN guard.active - 1 ELSE guard.active
  BY <1>4 DEF IInv, TypeOK, IsGuard, PreAuthRelease
<1>6. guard'.active = Cardinality(Waiting')
  <2>1. CASE r \in Waiting
    BY <2>1, <1>1, <1>3, <1>4, <1>5, Counting
  <2>2. CASE r \notin Waiting
    <3>1. Waiting \ {r} = Waiting
      BY <2>2
    <3> QED
      BY <3>1, <2>2, <1>1, <1>3, <1>4, <1>5
  <2> QED
    BY <2>1, <2>2
<1>7. TypeOK'
  BY <1>1, <1>5 DEF IInv, TypeOK
<1> QED
  BY <1>1, <1>2, <1>6, <1>7 DEF IInv, CountInv

(* A step that closes the body of a request.                               *)
LEMMA BodyClosed ==
    ASSUME IInv, NEW r \in Requests, NEW h \in Request, CloseBody(r, h),
           RequestInv([h EXCEPT !.holds = FALSE]), h.pre = req[r].pre
    PROVE  IInv'
<1> DEFINE g == [h EXCEPT !.holds = FALSE]
<1>1. g \in Request /\ g.pre = h.pre /\ ~g.holds
  BY DEF Request
<1>2. Becomes(r, g) /\ spool' = SpoolRelease(req[r]) /\ UNCHANGED <<clock, server, guard>>
  BY DEF CloseBody
<1>3. RequestInv(g)
  OBVIOUS
<1> HIDE DEF g
<1>4. /\ req' \in [Requests -> Request] /\ RequestsInv'
      /\ Waiting' = IF g.pre THEN Waiting \cup {r} ELSE Waiting \ {r}
      /\ Spooled' = Spooled \ {r}
  BY <1>1, <1>2, <1>3, BecomesKeeps DEF IInv
<1>5. Waiting' = Waiting
  BY <1>1, <1>4 DEF Waiting
<1>6. Spooled \in SUBSET Requests /\ (req[r].holds <=> r \in Spooled)
  BY DEF Spooled
<1>7. /\ spool.files \in Nat /\ spool.bytes \in Nat /\ MaxBodyBytes \in Nat
      /\ spool.files = Cardinality(Spooled) /\ spool.bytes = MaxBodyBytes * spool.files
  BY GatewayAssumption DEF IInv, TypeOK, CountInv
<1>8. /\ spool' \in [bytes : Nat, files : Nat]
      /\ spool'.files = Cardinality(Spooled') /\ spool'.bytes = MaxBodyBytes * spool'.files
  <2>1. CASE r \in Spooled
    <3>1. spool.files > 0 /\ Cardinality(Spooled') = spool.files - 1
      <4>1. Cardinality(Spooled) > 0 /\ Cardinality(Spooled \ {r}) = Cardinality(Spooled) - 1
        BY <2>1, <1>6, Counting
      <4> QED
        BY <4>1, <1>4, <1>7
    <3>2. spool.bytes - MaxBodyBytes = MaxBodyBytes * (spool.files - 1)
      BY <1>7, BodyMore
    <3>3. MaxBodyBytes * (spool.files - 1) \in Nat /\ spool.files - 1 \in Nat
      BY <3>1, <1>7, BodyMore
    <3>4. /\ Max({0, spool.bytes - MaxBodyBytes}) = MaxBodyBytes * (spool.files - 1)
          /\ Max({0, spool.files - 1}) = spool.files - 1
      BY <3>2, <3>3, MaxOfTwo
    <3>5. spool' = [bytes |-> MaxBodyBytes * (spool.files - 1), files |-> spool.files - 1]
      BY <2>1, <1>2, <1>6, <3>4 DEF SpoolRelease
    <3> QED
      BY <3>1, <3>3, <3>5
  <2>2. CASE r \notin Spooled
    <3>1. Spooled' = Spooled /\ spool' = spool
      BY <2>2, <1>2, <1>4, <1>6 DEF SpoolRelease
    <3> QED
      BY <3>1, <1>7 DEF IInv, TypeOK
  <2> QED
    BY <2>1, <2>2
<1>9. TypeOK'
  BY <1>2, <1>4, <1>8 DEF IInv, TypeOK, IsGuard, IsTable
<1> QED
  BY <1>2, <1>4, <1>5, <1>8, <1>9 DEF IInv, CountInv

-----------------------------------------------------------------------------
(***************************************************************************)
(* The steps of a handler before the backend answers.                      *)
(***************************************************************************)
LEMMA RequestTypes ==
    ASSUME IInv, NEW r \in Requests
    PROVE  req[r] \in Request /\ RequestInv(req[r])
  BY DEF IInv, TypeOK, RequestsInv

(* A denied request keeps its slot and has no reservation.                 *)
LEMMA DenyFacts ==
    ASSUME NEW h \in Request, RequestInv(h), h.at \in Opening, ~h.holds
    PROVE  /\ Deny(h) \in Request /\ RequestInv(Deny(h))
           /\ Deny(h).pre = h.pre /\ Deny(h).holds = h.holds
<1> DEFINE g == [h EXCEPT !.record = "denied", !.at = "return"]
<1>1. Deny(h) = g
  BY DEF Deny, ObserveAdmission, Request, RequestInv, SentInv
<1>2. g \in Request /\ g.pre = h.pre /\ g.holds = h.holds
  BY DEF Request
<1>3. SpoolInv(g)
  BY DEF Request, RequestInv, SpoolInv
<1>4. SentInv(g)
  BY DEF Request, RequestInv, SentInv, Opening, Answering, Streaming
<1>5. StreamInv(g)
  BY DEF Request, RequestInv, StreamInv, Opening
<1> QED
  BY <1>1, <1>2, <1>3, <1>4, <1>5 DEF RequestInv

LEMMA RefuseKeeps ==
    ASSUME IInv, NEW r \in Requests, Refuse(r) \/ RefuseBody(r) \/ Unresolved(r)
    PROVE  IInv'
<1>1. req[r].at \in {"new", "admit"} /\ Steps(r, Deny(req[r]))
  BY DEF Refuse, RefuseBody, Unresolved, Arrives, At
<1>2. req[r] \in Request /\ RequestInv(req[r])
  BY RequestTypes
<1>3. ~req[r].holds
  BY <1>1, <1>2 DEF RequestInv, SpoolInv
<1>4. /\ Deny(req[r]) \in Request /\ RequestInv(Deny(req[r]))
      /\ Deny(req[r]).pre = req[r].pre /\ Deny(req[r]).holds = req[r].holds
  BY <1>1, <1>2, <1>3, DenyFacts DEF Opening
<1> QED
  BY <1>1, <1>4, StepsKeeps

LEMMA AdmitKeeps ==
    ASSUME IInv, NEW r \in Requests, Admit(r)
    PROVE  IInv'
<1> DEFINE q == req[r]
           h == [q EXCEPT !.pre = FALSE]
           held == [h EXCEPT !.reserved = TRUE]
           on == [held EXCEPT !.at = IF h.chunked THEN "acquire" ELSE "forward"]
<1>1. /\ q.at = "admit" /\ guard' = PreAuthRelease(q) /\ UNCHANGED <<clock, server, spool>>
      /\ Becomes(r, Deny(h)) \/ Becomes(r, on) \/ Becomes(r, Deny(held))
  BY DEF Admit, At
<1>2. q \in Request /\ RequestInv(q)
  BY RequestTypes
<1>3. ~q.holds /\ ~q.sent /\ ~q.owned
  BY <1>1, <1>2 DEF RequestInv, SpoolInv, SentInv, Opening
<1> HIDE DEF q
<1>4. /\ h \in Request /\ h.at = "admit" /\ ~h.pre /\ ~h.holds
      /\ RequestInv(h)
  BY <1>1, <1>2, <1>3 DEF Request, RequestInv, SpoolInv, SentInv, StreamInv, Opening, Answering, Streaming
<1>5. held \in Request /\ held.at = "admit" /\ ~held.pre /\ ~held.holds /\ RequestInv(held)
  BY <1>1, <1>2, <1>3 DEF Request, RequestInv, SpoolInv, SentInv, StreamInv, Opening, Answering, Streaming
<1>6. on \in Request /\ ~on.pre /\ ~on.holds /\ RequestInv(on)
  BY <1>1, <1>2, <1>3 DEF Request, RequestInv, SpoolInv, SentInv, StreamInv, Opening, Answering, Streaming
<1>7. /\ Deny(h) \in Request /\ RequestInv(Deny(h)) /\ ~Deny(h).pre /\ ~Deny(h).holds
      /\ Deny(held) \in Request /\ RequestInv(Deny(held)) /\ ~Deny(held).pre /\ ~Deny(held).holds
  BY <1>4, <1>5, DenyFacts DEF Opening
<1> HIDE DEF h, held, on
<1>8. PICK g \in {Deny(h), on, Deny(held)} : Becomes(r, g)
  BY <1>1
<1>9. g \in Request /\ RequestInv(g) /\ ~g.pre /\ g.holds = q.holds
  BY <1>2, <1>3, <1>6, <1>7 DEF Request
<1> QED
  BY <1>1, <1>8, <1>9, SlotReleased DEF q

LEMMA SpoolKeeps ==
    ASSUME IInv, NEW r \in Requests, SpoolFails(r) \/ SpoolDone(r)
    PROVE  IInv'
<1>1. req[r] \in Request /\ RequestInv(req[r]) /\ req[r].at = "spool"
  BY RequestTypes DEF SpoolFails, SpoolDone, At
<1>2. CASE SpoolFails(r)
  <2> DEFINE d == Deny(req[r])
             g == [req[r] EXCEPT !.record = "denied", !.at = "return"]
  <2>1. d = g
    BY <1>1 DEF Deny, ObserveAdmission, Request, RequestInv, SentInv, Opening
  <2>2. g \in Request /\ g.pre = req[r].pre
    BY <1>1 DEF Request
  <2>3. RequestInv([g EXCEPT !.holds = FALSE])
    BY <1>1 DEF Request, RequestInv, SpoolInv, SentInv, StreamInv, Opening, Answering, Streaming
  <2>4. CloseBody(r, d)
    BY <1>2 DEF SpoolFails
  <2> HIDE DEF d, g
  <2> QED
    BY <2>1, <2>2, <2>3, <2>4, BodyClosed
<1>3. CASE SpoolDone(r)
  <2> DEFINE g == [req[r] EXCEPT !.at = "forward"]
  <2>1. g \in Request /\ g.pre = req[r].pre /\ g.holds = req[r].holds
    BY <1>1 DEF Request, Opening
  <2>2. RequestInv(g)
    BY <1>1 DEF Request, RequestInv, SpoolInv, SentInv, StreamInv, Opening, Answering, Streaming
  <2>3. Steps(r, g)
    BY <1>3 DEF SpoolDone
  <2> QED
    BY <2>1, <2>2, <2>3, StepsKeeps
<1> QED
  BY <1>2, <1>3

(* The guard g after a request of source k: its window, and its slot.      *)
WithWindow(g, k, e, t) == [g EXCEPT !.sources = [s \in {k} \cup DOMAIN t |-> IF s = k THEN e ELSE t[s]]]

WithSlot(g) == [g EXCEPT !.active = @ + 1, !.count = @ + 1]

LEMMA WithWindowFacts ==
    ASSUME NEW g, IsGuard(g), NEW t, IsTable(t), NEW k \in SourceKeys, NEW e \in Window
    PROVE  IsGuard(WithWindow(g, k, e, t)) /\ WithWindow(g, k, e, t).active = g.active
<1> DEFINE u == [s \in {k} \cup DOMAIN t |-> IF s = k THEN e ELSE t[s]]
<1>1. IsTable(u)
  BY DEF IsTable
<1>2. WithWindow(g, k, e, t) = [g EXCEPT !.sources = u]
  BY DEF WithWindow
<1> HIDE DEF u
<1> QED
  BY <1>1, <1>2 DEF IsGuard

LEMMA WithSlotFacts ==
    ASSUME NEW g, IsGuard(g)
    PROVE  IsGuard(WithSlot(g)) /\ WithSlot(g).active = g.active + 1
<1>1. \A a, c \in Nat : LET f == [g EXCEPT !.active = a, !.count = c] IN IsGuard(f) /\ f.active = a
  BY DEF IsGuard
<1>2. g.active + 1 \in Nat /\ g.count + 1 \in Nat
  BY DEF IsGuard
<1>3. WithSlot(g) = [g EXCEPT !.active = g.active + 1, !.count = g.count + 1]
  BY DEF WithSlot
<1> QED
  BY <1>1, <1>2, <1>3

LEMMA WindowFacts ==
    ASSUME clock \in Nat, NEW w \in Window
    PROVE  Rolled(w) \in Window /\ [w EXCEPT !.count = @ + 1, !.lastSeen = clock] \in Window
<1>1. Rolled(w) \in Window
  BY DEF Window, Rolled
<1>2. w.count + 1 \in Nat
  BY DEF Window
<1>3. [w EXCEPT !.count = w.count + 1, !.lastSeen = clock] \in Window
  BY <1>2 DEF Window
<1> QED
  BY <1>1, <1>3

LEMMA AcquireKeyFacts ==
    ASSUME clock \in Nat, IsGuard(guard), NEW s \in SourceKeys
    PROVE  /\ IsGuard(AcquireKey(s).guard)
           /\ AcquireKey(s).ok \in BOOLEAN
           /\ AcquireKey(s).guard.active = IF AcquireKey(s).ok THEN guard.active + 1 ELSE guard.active
<1> DEFINE g == Rolled(guard)
           table == Restrict(g.sources, {x \in DOMAIN g.sources : clock - g.sources[x].lastSeen < SourceIdle})
           known == s \in DOMAIN table \/ Cardinality(DOMAIN table) < MaxSources
           key == IF known THEN s ELSE OverflowKey
           entry == IF key \in DOMAIN table THEN Rolled(table[key])
                    ELSE [start |-> clock, count |-> 0, lastSeen |-> clock]
           counted == [entry EXCEPT !.count = @ + 1, !.lastSeen = clock]
           once == WithWindow(g, key, entry, table)
           twice == WithWindow(g, key, counted, table)
<1>1. IsGuard(g) /\ g.active = guard.active
  BY DEF Rolled, IsGuard, IsTable
<1>2. IsTable(table)
  <2> HIDE DEF g
  <2>1. IsTable(g.sources)
    BY <1>1 DEF IsGuard
  <2> QED
    BY <2>1 DEF IsTable, Restrict
<1>3. key \in SourceKeys
  BY DEF SourceKeys
<1>4. entry \in Window /\ counted \in Window
  <2> HIDE DEF table, key
  <2>1. key \in DOMAIN table => table[key] \in Window
    BY <1>2 DEF IsTable
  <2>2. [start |-> clock, count |-> 0, lastSeen |-> clock] \in Window
    BY DEF Window
  <2>3. entry \in Window
    BY <2>1, <2>2, WindowFacts
  <2> HIDE DEF entry
  <2> QED
    BY <2>3, WindowFacts
<1>5. AcquireKey(s) \in {[guard |-> g, ok |-> FALSE], [guard |-> once, ok |-> FALSE],
                         [guard |-> WithSlot(twice), ok |-> TRUE]}
  BY DEF AcquireKey, WithWindow, WithSlot
<1> HIDE DEF g, table, key, entry, counted
<1>6. IsGuard(once) /\ once.active = g.active /\ IsGuard(twice) /\ twice.active = g.active
  BY <1>1, <1>2, <1>3, <1>4, WithWindowFacts
<1> HIDE DEF once, twice
<1>7. IsGuard(WithSlot(twice)) /\ WithSlot(twice).active = g.active + 1
  BY <1>6, WithSlotFacts
<1>8. CASE AcquireKey(s) = [guard |-> g, ok |-> FALSE]
  BY <1>1, <1>8
<1>9. CASE AcquireKey(s) = [guard |-> once, ok |-> FALSE]
  BY <1>1, <1>6, <1>9
<1>10. CASE AcquireKey(s) = [guard |-> WithSlot(twice), ok |-> TRUE]
  BY <1>1, <1>7, <1>10
<1> QED
  BY <1>5, <1>8, <1>9, <1>10

LEMMA EnterGuardKeeps ==
    ASSUME IInv, NEW r \in Requests, EnterGuard(r)
    PROVE  IInv'
<1> DEFINE a == AcquireKey(SourceOf[r])
<1>0. /\ req[r].at = "new" /\ UNCHANGED <<clock, server, spool>>
      /\ req[r] \in Request /\ RequestInv(req[r])
  BY RequestTypes DEF EnterGuard, Arrives, At
<1>1. PICK chunked \in BOOLEAN, head \in Heads :
         LET h == [req[r] EXCEPT !.chunked = chunked, !.needs = RouteRule(head).scope] IN
         /\ RouteStatus(head) = 0
         /\ guard' = a.guard
         /\ Becomes(r, IF a.ok THEN [h EXCEPT !.at = "admit", !.pre = TRUE] ELSE Deny(h))
  BY DEF EnterGuard
<1>2. RouteRule(head).scope \in Scopes
  <2>1. \E rule \in Rules : rule.method = head.method /\ rule.path = head.path
    BY <1>1 DEF RouteStatus
  <2>2. RouteRule(head) \in Rules
    BY <2>1 DEF RouteRule
  <2> QED
    BY <2>2, GatewayAssumption DEF ValidRule, Scopes
<1> DEFINE h == [req[r] EXCEPT !.chunked = chunked, !.needs = RouteRule(head).scope]
           on == [h EXCEPT !.at = "admit", !.pre = TRUE]
<1>3. ~req[r].pre /\ ~req[r].holds
  BY <1>0 DEF RequestInv, SpoolInv, SentInv
<1>4. h \in Request /\ RequestInv(h) /\ h.at = "new" /\ ~h.pre /\ ~h.holds
  BY <1>0, <1>2, <1>3 DEF Request, RequestInv, SpoolInv, SentInv, StreamInv, Opening, Answering, Streaming
<1>5. on \in Request /\ RequestInv(on) /\ on.pre /\ ~on.holds
  BY <1>0, <1>2, <1>3 DEF Request, RequestInv, SpoolInv, SentInv, StreamInv, Opening, Answering, Streaming
<1>6. Deny(h) \in Request /\ RequestInv(Deny(h)) /\ ~Deny(h).pre /\ ~Deny(h).holds
  BY <1>4, DenyFacts DEF Opening
<1> DEFINE g == IF a.ok THEN on ELSE Deny(h)
<1>7. g \in Request /\ RequestInv(g) /\ ~g.holds /\ (g.pre <=> a.ok)
  <2> HIDE DEF h, on, a
  <2> QED
    BY <1>5, <1>6
<1>8. /\ IsGuard(a.guard) /\ a.ok \in BOOLEAN
      /\ a.guard.active = IF a.ok THEN guard.active + 1 ELSE guard.active
  BY AcquireKeyFacts DEF IInv, TypeOK, SourceKeys
<1>9. guard' = a.guard /\ Becomes(r, g)
  BY <1>1
<1> HIDE DEF a, g
<1>10. /\ req' \in [Requests -> Request] /\ RequestsInv'
       /\ Waiting' = IF g.pre THEN Waiting \cup {r} ELSE Waiting \ {r}
       /\ Spooled' = IF g.holds THEN Spooled \cup {r} ELSE Spooled \ {r}
  BY <1>7, <1>9, BecomesKeeps DEF IInv
<1>11. r \notin Waiting /\ r \notin Spooled /\ Waiting \in SUBSET Requests
  BY <1>3 DEF Waiting, Spooled
<1>12. Spooled' = Spooled /\ Waiting' = IF a.ok THEN Waiting \cup {r} ELSE Waiting
  BY <1>7, <1>10, <1>11
<1>13. Cardinality(Waiting') = IF a.ok THEN Cardinality(Waiting) + 1 ELSE Cardinality(Waiting)
  BY <1>11, <1>12, Counting
<1>14. guard'.active = Cardinality(Waiting')
  BY <1>8, <1>9, <1>13 DEF IInv, CountInv
<1>15. TypeOK'
  BY <1>0, <1>8, <1>9, <1>10 DEF IInv, TypeOK
<1> QED
  BY <1>0, <1>10, <1>12, <1>14, <1>15 DEF IInv, CountInv

LEMMA AcquireSpoolKeeps ==
    ASSUME IInv, NEW r \in Requests, AcquireSpool(r)
    PROVE  IInv'
<1> DEFINE g == [req[r] EXCEPT !.at = "spool", !.chunked = FALSE, !.holds = TRUE]
<1>0. /\ req[r].at = "acquire" /\ UNCHANGED <<clock, server, guard>>
      /\ req[r] \in Request /\ RequestInv(req[r])
  BY RequestTypes DEF AcquireSpool, At
<1>1. ~req[r].holds
  BY <1>0 DEF RequestInv, SpoolInv
<1>2. CASE ~Fits
  <2>1. Steps(r, Deny(req[r]))
    BY <1>0, <1>2 DEF AcquireSpool, Steps
  <2>2. /\ Deny(req[r]) \in Request /\ RequestInv(Deny(req[r]))
        /\ Deny(req[r]).pre = req[r].pre /\ Deny(req[r]).holds = req[r].holds
    BY <1>0, <1>1, DenyFacts DEF Opening
  <2> QED
    BY <2>1, <2>2, StepsKeeps
<1>3. CASE Fits
  <2>1. Becomes(r, g) /\ spool' = [bytes |-> spool.bytes + MaxBodyBytes, files |-> spool.files + 1]
    BY <1>3 DEF AcquireSpool
  <2>2. g \in Request /\ g.pre = req[r].pre /\ g.holds
    BY <1>0 DEF Request, Opening
  <2>3. RequestInv(g)
    BY <1>0 DEF Request, RequestInv, SpoolInv, SentInv, StreamInv, Opening, Answering, Streaming
  <2> HIDE DEF g
  <2>4. /\ req' \in [Requests -> Request] /\ RequestsInv'
        /\ Waiting' = IF g.pre THEN Waiting \cup {r} ELSE Waiting \ {r}
        /\ Spooled' = Spooled \cup {r}
    BY <2>1, <2>2, <2>3, BecomesKeeps DEF IInv
  <2>5. Waiting' = Waiting /\ r \notin Spooled /\ Spooled \in SUBSET Requests
    BY <1>1, <2>2, <2>4 DEF Waiting, Spooled
  <2>6. Cardinality(Spooled') = Cardinality(Spooled) + 1
    BY <2>4, <2>5, Counting
  <2>7. /\ spool.files \in Nat /\ spool.bytes \in Nat /\ MaxBodyBytes \in Nat
        /\ spool.bytes = MaxBodyBytes * spool.files
    BY GatewayAssumption DEF IInv, TypeOK, CountInv
  <2>8. spool.bytes + MaxBodyBytes = MaxBodyBytes * (spool.files + 1)
    BY <2>7, BodyMore
  <2>9. /\ spool' \in [bytes : Nat, files : Nat]
        /\ spool'.files = spool.files + 1 /\ spool'.bytes = MaxBodyBytes * spool'.files
    <3>1. spool' = [bytes |-> MaxBodyBytes * (spool.files + 1), files |-> spool.files + 1]
      BY <2>1, <2>8
    <3>2. MaxBodyBytes * (spool.files + 1) \in Nat /\ spool.files + 1 \in Nat
      BY <2>7, BodyMore
    <3> QED
      BY <3>1, <3>2
  <2>10. TypeOK'
    BY <1>0, <2>4, <2>9 DEF IInv, TypeOK, IsGuard, IsTable
  <2>11. spool'.files = Cardinality(Spooled')
    BY <2>6, <2>9 DEF IInv, CountInv
  <2> QED
    BY <1>0, <2>4, <2>5, <2>9, <2>10, <2>11 DEF IInv, CountInv
<1> QED
  BY <1>2, <1>3

-----------------------------------------------------------------------------
(***************************************************************************)
(* Forwarding and the response.                                            *)
(***************************************************************************)
LEMMA MarkForwardedKeeps ==
    ASSUME IInv, NEW r \in Requests, MarkForwarded(r)
    PROVE  IInv'
<1>1. req[r] \in Request /\ RequestInv(req[r]) /\ req[r].at = "forward"
  BY RequestTypes DEF MarkForwarded, At
<1> DEFINE g == [req[r] EXCEPT !.record = "authorized", !.forwarded = TRUE, !.at = "send"]
<1>2. req[r].record = "none"
  BY <1>1 DEF RequestInv, SentInv, Opening
<1>3. Steps(r, g)
  BY <1>1, <1>2 DEF MarkForwarded, ObserveAdmission, Request
<1>4. g \in Request /\ g.pre = req[r].pre /\ g.holds = req[r].holds
  BY <1>1 DEF Request
<1>5. RequestInv(g)
  BY <1>1 DEF Request, RequestInv, SpoolInv, SentInv, StreamInv, Opening, Answering, Streaming
<1> QED
  BY <1>3, <1>4, <1>5, StepsKeeps

LEMMA ForwardRefusedKeeps ==
    ASSUME IInv, NEW r \in Requests, ForwardRefused(r)
    PROVE  IInv'
<1>1. req[r] \in Request /\ RequestInv(req[r]) /\ req[r].at = "forward"
  BY RequestTypes DEF ForwardRefused, At
<1>2. req[r].record = "none"
  BY <1>1 DEF RequestInv, SentInv, Opening
<1>3. PICK committed \in BOOLEAN :
         Steps(r, [ObserveAdmission(req[r], "authorized") EXCEPT !.forwarded = committed, !.at = "return"])
  BY <1>1 DEF ForwardRefused, Request
<1> DEFINE g == [req[r] EXCEPT !.record = "authorized", !.forwarded = committed, !.at = "return"]
<1>4. Steps(r, g)
  BY <1>1, <1>2, <1>3 DEF ObserveAdmission, Request
<1>5. g \in Request /\ g.pre = req[r].pre /\ g.holds = req[r].holds
  BY <1>1 DEF Request
<1>6. RequestInv(g)
  BY <1>1 DEF Request, RequestInv, SpoolInv, SentInv, StreamInv, Opening, Answering, Streaming
<1> QED
  BY <1>4, <1>5, <1>6, StepsKeeps

LEMMA SendKeeps ==
    ASSUME IInv, NEW r \in Requests, Send(r)
    PROVE  IInv'
<1>1. req[r] \in Request /\ RequestInv(req[r]) /\ req[r].at = "send"
  BY RequestTypes DEF Send, At
<1> DEFINE g == [req[r] EXCEPT !.sent = TRUE, !.owned = req[r].holds, !.at = "await"]
<1>3. g \in Request /\ g.pre = req[r].pre /\ g.holds = req[r].holds
  BY <1>1 DEF Request, Opening, Answering, Streaming
<1>4. RequestInv(g)
  BY <1>1 DEF Request, RequestInv, SpoolInv, SentInv, StreamInv, Opening, Answering, Streaming
<1>5. Steps(r, g)
  BY DEF Send
<1> QED
  BY <1>3, <1>4, <1>5, StepsKeeps

LEMMA TransportClosesKeeps ==
    ASSUME IInv, NEW r \in Requests, TransportCloses(r)
    PROVE  IInv'
<1>1. req[r] \in Request /\ RequestInv(req[r]) /\ req[r].owned
  BY RequestTypes DEF TransportCloses
<1> DEFINE g == [req[r] EXCEPT !.owned = FALSE]
<1>2. g \in Request /\ g.pre = req[r].pre
  BY <1>1 DEF Request
<1>3. RequestInv([g EXCEPT !.holds = FALSE])
  BY <1>1 DEF Request, RequestInv, SpoolInv, SentInv, StreamInv, Opening, Answering, Streaming
<1>4. CloseBody(r, g)
  BY DEF TransportCloses
<1> HIDE DEF g
<1> QED
  BY <1>2, <1>3, <1>4, BodyClosed

LEMMA RoundTripFailsKeeps ==
    ASSUME IInv, NEW r \in Requests, RoundTripFails(r)
    PROVE  IInv'
<1>1. req[r] \in Request /\ RequestInv(req[r]) /\ req[r].at = "await"
  BY RequestTypes DEF RoundTripFails, At
<1> DEFINE g == [req[r] EXCEPT !.at = "return"]
<1>3. g \in Request /\ g.pre = req[r].pre /\ g.holds = req[r].holds
  BY <1>1 DEF Request, Opening, Answering, Streaming
<1>4. RequestInv(g)
  BY <1>1 DEF Request, RequestInv, SpoolInv, SentInv, StreamInv, Opening, Answering, Streaming
<1>5. Steps(r, g)
  BY DEF RoundTripFails
<1> QED
  BY <1>3, <1>4, <1>5, StepsKeeps

LEMMA RespondKeeps ==
    ASSUME IInv, NEW r \in Requests, Respond(r)
    PROVE  IInv'
<1>1. req[r] \in Request /\ RequestInv(req[r]) /\ req[r].at = "await"
  BY RequestTypes DEF Respond, At
<1> DEFINE g == [req[r] EXCEPT !.at = "stream"]
<1>3. g \in Request /\ g.pre = req[r].pre /\ g.holds = req[r].holds
  BY <1>1 DEF Request, Opening, Answering, Streaming
<1>4. RequestInv(g)
  BY <1>1 DEF Request, RequestInv, SpoolInv, SentInv, StreamInv, Opening, Answering, Streaming
<1>5. Steps(r, g)
  BY DEF Respond
<1> QED
  BY <1>3, <1>4, <1>5, StepsKeeps

LEMMA StartReadKeeps ==
    ASSUME IInv, NEW r \in Requests, StartRead(r)
    PROVE  IInv'
<1>1. req[r] \in Request /\ RequestInv(req[r]) /\ req[r].at = "stream"
  BY RequestTypes DEF StartRead, At
<1> DEFINE g == [req[r] EXCEPT !.timer = IF Watched /\ ~req[r].closed /\ @ = "nil" THEN "armed" ELSE @,
                              !.at = "reading"]
<1>3. g \in Request /\ g.pre = req[r].pre /\ g.holds = req[r].holds
  BY <1>1 DEF Request, Opening, Answering, Streaming
<1>4. RequestInv(g)
  BY <1>1 DEF Request, RequestInv, SpoolInv, SentInv, StreamInv, Opening, Answering, Streaming
<1>5. Steps(r, g)
  BY DEF StartRead
<1> QED
  BY <1>3, <1>4, <1>5, StepsKeeps

LEMMA TimerExpiresKeeps ==
    ASSUME IInv, NEW r \in Requests, TimerExpires(r)
    PROVE  IInv'
<1>1. req[r] \in Request /\ RequestInv(req[r])
  BY RequestTypes DEF TimerExpires
<1> DEFINE g == [req[r] EXCEPT !.firing = TRUE]
<1>3. g \in Request /\ g.pre = req[r].pre /\ g.holds = req[r].holds
  BY <1>1 DEF Request, Opening, Answering, Streaming
<1>4. RequestInv(g)
  BY <1>1 DEF Request, RequestInv, SpoolInv, SentInv, StreamInv, Opening, Answering, Streaming
<1>5. Steps(r, g)
  BY DEF TimerExpires
<1> QED
  BY <1>3, <1>4, <1>5, StepsKeeps

LEMMA WatchdogFiresKeeps ==
    ASSUME IInv, NEW r \in Requests, WatchdogFires(r)
    PROVE  IInv'
<1>1. req[r] \in Request /\ RequestInv(req[r])
  BY RequestTypes DEF WatchdogFires
<1> DEFINE g == [req[r] EXCEPT !.firing = FALSE, !.closed = TRUE]
<1>3. g \in Request /\ g.pre = req[r].pre /\ g.holds = req[r].holds
  BY <1>1 DEF Request, Opening, Answering, Streaming
<1>4. RequestInv(g)
  BY <1>1 DEF Request, RequestInv, SpoolInv, SentInv, StreamInv, Opening, Answering, Streaming
<1>5. Steps(r, g)
  BY DEF WatchdogFires
<1> QED
  BY <1>3, <1>4, <1>5, StepsKeeps

LEMMA CancelKeeps ==
    ASSUME IInv, NEW r \in Requests, Cancel(r)
    PROVE  IInv'
<1>1. req[r] \in Request /\ RequestInv(req[r])
  BY RequestTypes DEF Cancel
<1> DEFINE g == [req[r] EXCEPT !.cancelled = TRUE]
<1>3. g \in Request /\ g.pre = req[r].pre /\ g.holds = req[r].holds
  BY <1>1 DEF Request, Opening, Answering, Streaming
<1>4. RequestInv(g)
  BY <1>1 DEF Request, RequestInv, SpoolInv, SentInv, StreamInv, Opening, Answering, Streaming
<1>5. Steps(r, g)
  BY DEF Cancel
<1> QED
  BY <1>3, <1>4, <1>5, StepsKeeps

LEMMA ReturnedFacts ==
    ASSUME NEW h \in Request, RequestInv(h), h.at = "reading", NEW n \in 0..1,
           NEW err \in {"none", "eof", "error"}, n > 0 \/ err # "none",
           NEW ended \in BOOLEAN, err = "eof" => ended
    PROVE  LET g == [Returned(h, n, err) EXCEPT !.ended = ended]
           IN  g \in Request /\ RequestInv(g) /\ g.pre = h.pre /\ g.holds = h.holds
<1> DEFINE g == [h EXCEPT !.got = [n |-> n, err |-> err], !.reply = h.reply + n, !.at = "returned", !.ended = ended]
<1>1. [Returned(h, n, err) EXCEPT !.ended = ended] = g
  BY DEF Returned, Request
<1>2. h.reply + n \in Nat /\ h.reply = h.written
  BY DEF Request, RequestInv, StreamInv, Opening
<1>3. g \in Request /\ g.pre = h.pre /\ g.holds = h.holds
  BY <1>2 DEF Request, Answering, Streaming
<1>4. SpoolInv(g) /\ SentInv(g)
  BY DEF Request, RequestInv, SpoolInv, SentInv, Opening, Answering, Streaming
<1>5. StreamInv(g)
  <2>1. /\ g.at = "returned" /\ g.got.n = n /\ g.got.err = err /\ g.reply = h.reply + n
        /\ g.written = h.written /\ g.ended = ended /\ g.settled = h.settled /\ g.credit = h.credit
    BY DEF Request
  <2>2. ~h.settled /\ ~h.credit
    BY DEF RequestInv, StreamInv
  <2>3. g.written + g.got.n = g.reply
    BY <1>2, <2>1
  <2>4. n = 1 \/ err # "none"
    OBVIOUS
  <2> HIDE DEF g
  <2> QED
    BY <2>1, <2>2, <2>3, <2>4 DEF StreamInv, Opening
<1> QED
  BY <1>1, <1>3, <1>4, <1>5 DEF RequestInv

LEMMA ReadReturnsKeeps ==
    ASSUME IInv, NEW r \in Requests, BackendProduces(r) \/ ReadAborted(r)
    PROVE  IInv'
<1>1. req[r] \in Request /\ RequestInv(req[r]) /\ req[r].at = "reading"
  BY RequestTypes DEF BackendProduces, ReadAborted, At
<1>2. CASE BackendProduces(r)
  <2>1. PICK n \in 0..1, err \in {"none", "eof", "error"} :
           /\ n > 0 \/ err # "none"
           /\ Steps(r, [Returned(req[r], n, err) EXCEPT !.ended = err = "eof"])
    BY <1>2 DEF BackendProduces
  <2> DEFINE e == err = "eof"
             g == [Returned(req[r], n, err) EXCEPT !.ended = e]
  <2>2. e \in BOOLEAN /\ (err = "eof" => e) /\ Steps(r, g)
    BY <2>1
  <2> HIDE DEF e
  <2>3. g \in Request /\ RequestInv(g) /\ g.pre = req[r].pre /\ g.holds = req[r].holds
    BY <1>1, <2>1, <2>2, ReturnedFacts
  <2> QED
    BY <2>2, <2>3, StepsKeeps
<1>3. CASE ReadAborted(r)
  <2> DEFINE g == [Returned(req[r], 0, "error") EXCEPT !.ended = req[r].ended]
  <2>1. Steps(r, Returned(req[r], 0, "error"))
    BY <1>3 DEF ReadAborted
  <2>2. Returned(req[r], 0, "error") = g
    BY <1>1 DEF Returned, Request
  <2>3. g \in Request /\ RequestInv(g) /\ g.pre = req[r].pre /\ g.holds = req[r].holds
    <3>1. req[r].ended \in BOOLEAN /\ 0 \in 0..1
      BY <1>1 DEF Request
    <3> QED
      BY <1>1, <3>1, ReturnedFacts
  <2> HIDE DEF g
  <2> QED
    BY <2>1, <2>2, <2>3, StepsKeeps
<1> QED
  BY <1>2, <1>3

LEMMA NothingGot == NewRequest.got \in [n : 0..1, err : {"none", "eof", "error"}]
  BY DEF NewRequest

(* The loop is left without an error only at the end of the response.      *)
LEMMA LeaveLoopFacts ==
    ASSUME NEW h \in Request, SpoolInv(h), SentInv(h), h.at \in {"returned", "write"},
           ~h.settled, ~h.credit,
           NEW failed \in BOOLEAN, ~failed => h.ended /\ h.written = h.reply
    PROVE  LET g == LeaveLoop(h, failed)
           IN  g \in Request /\ RequestInv(g) /\ g.pre = h.pre /\ g.holds = h.holds
<1> DEFINE g == LeaveLoop(h, failed)
<1>1. g \in Request /\ g.pre = h.pre /\ g.holds = h.holds
  BY ZenonT(60), NothingGot DEF LeaveLoop, Request, Answering, Streaming
<1>2. SpoolInv(g) /\ SentInv(g)
  BY DEF LeaveLoop, Request, SpoolInv, SentInv, Opening, Answering, Streaming
<1>3. StreamInv(g)
  BY DEF LeaveLoop, Request, StreamInv, Opening
<1> QED
  BY <1>1, <1>2, <1>3 DEF RequestInv

LEMMA FinishReadKeeps ==
    ASSUME IInv, NEW r \in Requests, FinishRead(r)
    PROVE  IInv'
<1> DEFINE h == req[r]
           failed == h.got.err = "error" \/ (h.got.err # "none" /\ h.closed)
           stop == IF h.closed THEN h ELSE Disarm(h)
           more == [stop EXCEPT !.streamErr = failed, !.at = "write"]
<1>1. h \in Request /\ RequestInv(h) /\ h.at = "returned"
  BY RequestTypes DEF FinishRead, At
<1>2. Steps(r, IF h.got.n > 0 THEN more ELSE LeaveLoop(h, failed))
  BY DEF FinishRead
<1> HIDE DEF h
<1>3. CASE h.got.n > 0
  <2>1. stop \in {h, [h EXCEPT !.timer = "nil"]}
    BY DEF Disarm
  <2>2. failed \in BOOLEAN
    OBVIOUS
  <2>3. more \in Request /\ more.pre = h.pre /\ more.holds = h.holds
    <3>1. stop \in Request /\ stop.pre = h.pre /\ stop.holds = h.holds
      BY <1>1, <2>1 DEF Request
    <3> HIDE DEF stop, failed
    <3> QED
      BY <2>2, <3>1 DEF Request, Answering, Streaming
  <2>4. RequestInv(more)
    BY <1>1, <1>3, <2>1 DEF Request, RequestInv, SpoolInv, SentInv, StreamInv, Opening, Answering, Streaming
  <2>5. Steps(r, more)
    BY <1>2, <1>3
  <2> HIDE DEF more
  <2> QED
    BY <2>3, <2>4, <2>5, StepsKeeps DEF h
<1>4. CASE ~(h.got.n > 0)
  <2>1. h.got.n = 0 /\ h.got.err # "none"
    BY <1>1, <1>4 DEF Request, RequestInv, StreamInv
  <2>2. ~h.settled /\ ~h.credit /\ (~failed => h.ended /\ h.written = h.reply)
    BY <1>1, <2>1 DEF Request, RequestInv, StreamInv
  <2>3. /\ LeaveLoop(h, failed) \in Request /\ RequestInv(LeaveLoop(h, failed))
        /\ LeaveLoop(h, failed).pre = h.pre /\ LeaveLoop(h, failed).holds = h.holds
    BY <1>1, <2>2, LeaveLoopFacts DEF RequestInv
  <2>4. Steps(r, LeaveLoop(h, failed))
    BY <1>2, <1>4
  <2> QED
    BY <2>3, <2>4, StepsKeeps DEF h
<1> QED
  BY <1>3, <1>4

LEMMA WriteChunkKeeps ==
    ASSUME IInv, NEW r \in Requests, WriteChunk(r)
    PROVE  IInv'
<1> DEFINE q == req[r]
           h == [q EXCEPT !.metered = @ + 1]
           given == [h EXCEPT !.written = @ + 1]
           on == [given EXCEPT !.got = NewRequest.got, !.at = "stream"]
<1>1. q \in Request /\ RequestInv(q) /\ q.at = "write"
  BY RequestTypes DEF WriteChunk, At
<1>2. \/ Steps(r, IF h.got.err = "none" THEN on ELSE LeaveLoop(given, h.streamErr))
      \/ Steps(r, LeaveLoop(h, TRUE))
  BY DEF WriteChunk
<1> HIDE DEF q
<1>3. /\ q.metered + 1 \in Nat /\ q.written + 1 \in Nat /\ q.written + 1 = q.reply
      /\ ~q.settled /\ ~q.credit /\ (q.got.err = "eof" => q.ended)
      /\ ~q.streamErr => q.got.err # "error"
      /\ q.got.err \in {"none", "eof", "error"} /\ q.streamErr \in BOOLEAN
  BY <1>1 DEF Request, RequestInv, StreamInv
<1>4. /\ h \in Request /\ h.pre = q.pre /\ h.holds = q.holds /\ h.at = "write" /\ ~h.settled /\ ~h.credit
      /\ h.streamErr = q.streamErr /\ h.got = q.got
  BY <1>1, <1>3 DEF Request
<1>5. /\ given \in Request /\ given.pre = q.pre /\ given.holds = q.holds /\ given.at = "write"
      /\ ~given.settled /\ ~given.credit /\ given.ended = q.ended /\ given.written = given.reply
  BY <1>1, <1>3 DEF Request
<1>6. SpoolInv(h) /\ SentInv(h) /\ SpoolInv(given) /\ SentInv(given)
  BY <1>1, <1>3 DEF Request, RequestInv, SpoolInv, SentInv, Opening, Answering, Streaming
<1>7. /\ on \in Request /\ on.pre = q.pre /\ on.holds = q.holds /\ RequestInv(on)
  <2> HIDE DEF given
  <2>1. on \in Request /\ on.pre = given.pre /\ on.holds = given.holds
    BY <1>5, NothingGot DEF Request, Answering, Streaming
  <2>2. RequestInv(on)
    BY <1>5, <1>6 DEF Request, RequestInv, SpoolInv, SentInv, StreamInv, Opening, Answering, Streaming
  <2> QED
    BY <1>5, <2>1, <2>2
<1> HIDE DEF h, given, on
<1>8. /\ LeaveLoop(h, TRUE) \in Request /\ RequestInv(LeaveLoop(h, TRUE))
      /\ LeaveLoop(h, TRUE).pre = q.pre /\ LeaveLoop(h, TRUE).holds = q.holds
  BY <1>4, <1>6, LeaveLoopFacts
<1>9. ASSUME h.got.err # "none"
      PROVE  LET g == LeaveLoop(given, h.streamErr)
             IN  g \in Request /\ RequestInv(g) /\ g.pre = q.pre /\ g.holds = q.holds
  <2>1. ~h.streamErr => given.ended /\ given.written = given.reply
    BY <1>3, <1>4, <1>5, <1>9
  <2> QED
    BY <1>3, <1>4, <1>5, <1>6, <2>1, LeaveLoopFacts
<1>10. CASE Steps(r, LeaveLoop(h, TRUE))
  BY <1>8, <1>10, StepsKeeps DEF q
<1>11. CASE Steps(r, on) /\ h.got.err = "none"
  BY <1>7, <1>11, StepsKeeps DEF q
<1>12. CASE Steps(r, LeaveLoop(given, h.streamErr)) /\ h.got.err # "none"
  BY <1>9, <1>12, StepsKeeps DEF q
<1> QED
  BY <1>2, <1>10, <1>11, <1>12
-----------------------------------------------------------------------------
(***************************************************************************)
(* The end of a request, and the process.                                  *)
(***************************************************************************)
LEMMA SettleKeeps ==
    ASSUME IInv, NEW r \in Requests, Settle(r)
    PROVE  IInv'
<1>1. req[r] \in Request /\ RequestInv(req[r]) /\ req[r].at = "settle"
  BY RequestTypes DEF Settle, At
<1>2. PICK settled \in BOOLEAN : Steps(r, [req[r] EXCEPT !.settled = settled, !.at = "complete"])
  BY DEF Settle
<1> DEFINE g == [req[r] EXCEPT !.settled = settled, !.at = "complete"]
<1>3. g \in Request /\ g.pre = req[r].pre /\ g.holds = req[r].holds
  BY <1>1, <1>2 DEF Request, Opening, Answering, Streaming
<1>4. RequestInv(g)
  BY <1>1, <1>2 DEF Request, RequestInv, SpoolInv, SentInv, StreamInv, Opening, Answering, Streaming
<1>5. Steps(r, g)
  BY <1>2
<1> QED
  BY <1>3, <1>4, <1>5, StepsKeeps

LEMMA CompleteKeeps ==
    ASSUME IInv, NEW r \in Requests, Complete(r)
    PROVE  IInv'
<1>1. req[r] \in Request /\ RequestInv(req[r]) /\ req[r].at = "complete"
  BY RequestTypes DEF Complete, At
<1>2. PICK success \in BOOLEAN :
         Steps(r, [req[r] EXCEPT !.credit = success /\ ~req[r].streamErr, !.at = "return"])
  BY DEF Complete
<1> DEFINE g == [req[r] EXCEPT !.credit = success /\ ~req[r].streamErr, !.at = "return"]
<1>3. g \in Request /\ g.pre = req[r].pre /\ g.holds = req[r].holds
  BY <1>1, <1>2 DEF Request, Opening, Answering, Streaming
<1>4. RequestInv(g)
  BY <1>1, <1>2 DEF Request, RequestInv, SpoolInv, SentInv, StreamInv, Opening, Answering, Streaming
<1>5. Steps(r, g)
  BY <1>2
<1> QED
  BY <1>3, <1>4, <1>5, StepsKeeps

LEMMA PanicKeeps ==
    ASSUME IInv, NEW r \in Requests, Panic(r)
    PROVE  IInv'
<1>1. req[r] \in Request /\ RequestInv(req[r]) /\ req[r].at \in {"admit", "write"}
  BY RequestTypes DEF Panic, At
<1> DEFINE g == [req[r] EXCEPT !.at = "return"]
<1>2. g \in Request /\ g.pre = req[r].pre /\ g.holds = req[r].holds
  BY <1>1 DEF Request
<1>3. RequestInv(g)
  BY <1>1 DEF Request, RequestInv, SpoolInv, SentInv, StreamInv, Opening, Answering, Streaming
<1>4. Steps(r, g)
  BY DEF Panic
<1> QED
  BY <1>2, <1>3, <1>4, StepsKeeps

LEMMA NewRequestFacts ==
    /\ NewRequest \in Request /\ ~NewRequest.pre /\ ~NewRequest.holds
    /\ RequestInv(NewRequest)
<1>1. NewRequest \in Request /\ ~NewRequest.pre /\ ~NewRequest.holds
  BY DEF NewRequest, Request, Opening, Scopes
<1>2. RequestInv(NewRequest)
  BY DEF NewRequest, RequestInv, SpoolInv, SentInv, StreamInv, Opening, Answering, Streaming
<1> QED
  BY <1>1, <1>2

LEMMA ReturnKeeps ==
    ASSUME IInv, NEW r \in Requests, Return(r)
    PROVE  IInv'
<1> DEFINE q == req[r]
           h == ObserveAdmission(q, "denied")
           g == [NewRequest EXCEPT !.at = "done", !.record = h.record, !.sent = h.sent,
                                   !.holds = h.holds, !.owned = h.owned]
           f == [NewRequest EXCEPT !.at = "done", !.record = IF q.record = "none" THEN "denied" ELSE q.record,
                                   !.sent = q.sent, !.holds = q.holds, !.owned = q.owned]
<1>1. q \in Request /\ RequestInv(q) /\ q.at = "return"
  BY RequestTypes DEF Return, At
<1>2. guard' = PreAuthRelease(q) /\ Becomes(r, g) /\ UNCHANGED <<clock, server, spool>>
  BY DEF Return
<1> HIDE DEF q
<1>3. g = f
  BY <1>1 DEF ObserveAdmission, Request
<1>4. f \in Request /\ ~f.pre /\ f.holds = q.holds
  <2> DEFINE record == IF q.record = "none" THEN "denied" ELSE q.record
  <2>1. /\ record \in {"none", "denied", "authorized"}
        /\ q.sent \in BOOLEAN /\ q.holds \in BOOLEAN /\ q.owned \in BOOLEAN
    BY <1>1 DEF Request
  <2> DEFINE f1 == [NewRequest EXCEPT !.at = "done", !.record = record]
             f2 == [f1 EXCEPT !.sent = q.sent, !.holds = q.holds, !.owned = q.owned]
  <2>2. f = f2
    OBVIOUS
  <2> HIDE DEF record, f, g, h
  <2>3. f1 \in Request /\ ~f1.pre
    BY <2>1, NewRequestFacts DEF Request
  <2> HIDE DEF f1
  <2>4. f2 \in Request /\ ~f2.pre /\ f2.holds = q.holds
    BY <2>1, <2>3 DEF Request
  <2> QED
    BY <2>2, <2>4
<1>5. RequestInv(f)
  BY <1>1 DEF NewRequest, Request, RequestInv, SpoolInv, SentInv, StreamInv, Opening, Answering, Streaming
<1> HIDE DEF f, g
<1> QED
  BY <1>2, <1>3, <1>4, <1>5, SlotReleased DEF q

LEMMA InitInv == Init => IInv
<1> SUFFICES ASSUME Init PROVE IInv
  OBVIOUS
<1>0. /\ clock \in Nat /\ server \in {"serving", "signalled", "draining", "exited"}
      /\ guard = [active |-> 0, start |-> clock, count |-> 0, sources |-> <<>>]
      /\ spool = NewSpool /\ req = [r \in Requests |-> NewRequest]
  BY DEF Init, NewGuard
<1>1. \A r \in Requests : req[r] = NewRequest
  BY <1>0
<1>2. Waiting = {} /\ Spooled = {}
  BY <1>1, NewRequestFacts DEF Waiting, Spooled
<1>3. RequestsInv
  BY <1>1, NewRequestFacts DEF RequestsInv
<1>4. IsGuard(guard)
  BY <1>0 DEF IsGuard, IsTable
<1>5. TypeOK
  BY <1>0, <1>4, NewRequestFacts DEF TypeOK, NewSpool
<1>6. CountInv
  <2>1. Cardinality({}) = 0 /\ MaxBodyBytes * 0 = 0
    BY FS_EmptySet, GatewayAssumption
  <2> QED
    BY <1>0, <1>2, <2>1 DEF CountInv, NewSpool
<1> QED
  BY <1>3, <1>5, <1>6 DEF IInv

LEMMA ExitKeeps ==
    ASSUME IInv, Exit
    PROVE  IInv'
<1>0. /\ clock' \in Nat /\ server' \in {"serving", "signalled", "draining", "exited"}
      /\ guard' = [active |-> 0, start |-> clock', count |-> 0, sources |-> <<>>]
      /\ spool' = NewSpool /\ req' = [r \in Requests |-> NewRequest]
  BY DEF IInv, TypeOK, Exit, NewGuard
<1>1. \A r \in Requests : req'[r] = NewRequest
  BY <1>0
<1>2. Waiting' = {} /\ Spooled' = {}
  BY <1>1, NewRequestFacts DEF Waiting, Spooled
<1>3. RequestsInv'
  BY <1>1, NewRequestFacts DEF RequestsInv
<1>4. IsGuard(guard')
  BY <1>0 DEF IsGuard, IsTable
<1>5. TypeOK'
  BY <1>0, <1>4, NewRequestFacts DEF TypeOK, NewSpool
<1>6. CountInv'
  <2>1. Cardinality({}) = 0 /\ MaxBodyBytes * 0 = 0
    BY FS_EmptySet, GatewayAssumption
  <2> QED
    BY <1>0, <1>2, <2>1 DEF CountInv, NewSpool
<1> QED
  BY <1>3, <1>5, <1>6 DEF IInv

LEMMA ProcessKeeps ==
    ASSUME IInv, Signal \/ MarkDraining \/ Tick
    PROVE  IInv'
<1>1. clock' \in Nat /\ server' \in {"serving", "signalled", "draining", "exited"} /\ UNCHANGED <<guard, spool, req>>
  BY DEF Signal, MarkDraining, Lifecycle, Tick, IInv, TypeOK
<1>2. TypeOK'
  BY <1>1 DEF IInv, TypeOK, IsGuard, IsTable
<1>3. RequestsInv' /\ CountInv'
  BY <1>1 DEF IInv, RequestsInv, CountInv, Waiting, Spooled
<1> QED
  BY <1>2, <1>3 DEF IInv

LEMMA NextInv ==
    ASSUME IInv, [Next]_vars
    PROVE  IInv'
<1>1. CASE UNCHANGED vars
  BY <1>1 DEF vars, IInv, TypeOK, IsGuard, IsTable, RequestsInv, CountInv, Waiting, Spooled
<1>2. ASSUME NEW r \in Requests,
             \/ Refuse(r) \/ RefuseBody(r) \/ EnterGuard(r) \/ TransportCloses(r)
             \/ BackendProduces(r) \/ TimerExpires(r) \/ WatchdogFires(r) \/ Panic(r) \/ Cancel(r)
      PROVE  IInv'
  BY <1>2, RefuseKeeps, EnterGuardKeeps, TransportClosesKeeps, ReadReturnsKeeps, TimerExpiresKeeps,
     WatchdogFiresKeeps, PanicKeeps, CancelKeeps
<1>3. ASSUME NEW r \in Requests, Handler(r)
      PROVE  IInv'
  BY <1>3, RefuseKeeps, AdmitKeeps, AcquireSpoolKeeps, SpoolKeeps, MarkForwardedKeeps, ForwardRefusedKeeps,
     SendKeeps, RoundTripFailsKeeps, RespondKeeps, StartReadKeeps, ReadReturnsKeeps, FinishReadKeeps,
     WriteChunkKeeps, SettleKeeps, CompleteKeeps, ReturnKeeps DEF Handler
<1>4. CASE Signal \/ MarkDraining \/ Tick
  BY <1>4, ProcessKeeps
<1>5. CASE ShutdownReturns \/ ShutdownTimesOut
  BY <1>5, ExitKeeps DEF ShutdownReturns, ShutdownTimesOut
<1> QED
  BY <1>1, <1>2, <1>3, <1>4, <1>5 DEF Next

(* The inductive invariant holds throughout every behaviour of a process.  *)
THEOREM Invariance == Spec => []IInv
<1>1. IInv /\ [Next]_vars => IInv'
  BY NextInv
<1> QED
  BY InitInv, <1>1, PTL DEF Spec

(* Every variable of the data plane keeps its type: the guard's table has  *)
(* entries for sources and for the overflow shard only.                    *)
THEOREM TypeCorrect == Spec => []TypeOK
<1>1. IInv => TypeOK
  BY DEF IInv
<1> QED
  BY Invariance, <1>1, PTL

(* The guard's slots are those of the requests between acquireKey and its  *)
(* release, through denials, panics and the shutdown (preauth.go).         *)
THEOREM SlotsExact == Spec => []PreAuthExact
<1>1. IInv => PreAuthExact
  BY DEF IInv, CountInv, Waiting, PreAuthExact
<1> QED
  BY Invariance, <1>1, PTL

(* The spool budget counts the reservations that are held, and one is held *)
(* only while the handler or the transport works on the request, or after  *)
(* MarkForwarded was refused (spool_budget.go).                            *)
THEOREM SpoolExact == Spec => []SpoolInUse
<1>1. ASSUME IInv, NEW r \in Requests, req[r].holds
      PROVE  InFlight(r) \/ req[r].owned \/ RefusedLate(r)
  BY <1>1, RequestTypes DEF RequestInv, SpoolInv, InFlight, RefusedLate
<1>2. IInv => SpoolInUse
  BY <1>1 DEF IInv, CountInv, Spooled, SpoolInUse
<1> QED
  BY Invariance, <1>2, PTL

(* A request earns baseline credit only when its client was given every    *)
(* chunk the backend produced, to its end (the copy loop and Complete).    *)
THEOREM CreditEarned == Spec => []CreditWholeResponse
<1>1. IInv => CreditWholeResponse
  BY RequestTypes DEF RequestInv, StreamInv, CreditWholeResponse
<1> QED
  BY Invariance, <1>1, PTL

-----------------------------------------------------------------------------
(***************************************************************************)
(* What a session settles.                                                 *)
(***************************************************************************)
LEMMA UsageNumbers ==
    /\ MaxInt \in Nat /\ MaxEstimatedTokens \in Nat /\ MaxOutputTokens \in Nat
    /\ MaxEstimatedTokens <= MaxInt
  BY UsageAssumption

LEMMA ClampValue ==
    ASSUME NEW n \in Int
    PROVE  Clamp(n) = IF n <= 0 THEN 0 ELSE IF n <= MaxEstimatedTokens THEN n ELSE MaxEstimatedTokens
<1>1. Max({0, n}) = (IF 0 >= n THEN 0 ELSE n) /\ Max({0, n}) \in Int
  BY MaxOfTwo
<1>2. Clamp(n) = IF Max({0, n}) <= MaxEstimatedTokens THEN Max({0, n}) ELSE MaxEstimatedTokens
  BY <1>1, UsageNumbers, MinOfTwo DEF Clamp
<1> QED
  BY <1>1, <1>2, UsageNumbers

LEMMA ClampFacts ==
    ASSUME NEW m \in Int, NEW n \in Int
    PROVE  /\ Clamp(n) \in Nat
           /\ m <= n \/ MaxInt <= n => Clamp(m) <= Clamp(n)
           /\ n >= 0 => Clamp(n) <= n
  BY ClampValue, UsageNumbers

LEMMA SafeAddFacts ==
    ASSUME NEW a \in Nat, NEW b \in Nat
    PROVE  /\ SafeAdd(a, b) = IF a + b <= MaxInt THEN a + b ELSE MaxInt
           /\ SafeAdd(a, b) \in Nat
           /\ a <= SafeAdd(a, b) \/ MaxInt <= SafeAdd(a, b)
<1>1. SafeAdd(a, b) = IF a + b <= MaxInt THEN a + b ELSE MaxInt
  BY MinOfTwo, UsageNumbers DEF SafeAdd
<1> QED
  BY <1>1, UsageNumbers

LEMMA AmountFacts ==
    ASSUME NEW rec \in [Dimensions -> Int], NEW d \in Dimensions
    PROVE  Amount(rec, d) = (IF 0 >= rec[d] THEN 0 ELSE rec[d]) /\ Amount(rec, d) \in Nat
<1>1. rec[d] \in Int
  OBVIOUS
<1>2. Amount(rec, d) = IF 0 >= rec[d] THEN 0 ELSE rec[d]
  BY <1>1, MaxOfTwo DEF Amount
<1> QED
  BY <1>1, <1>2

LEMMA SomeDimensions ==
    /\ "input" \in Dimensions /\ "output" \in Dimensions /\ "combined" \in Dimensions
    /\ \A d \in Caches : d \in Dimensions
    /\ "cacheRead" \in Caches /\ "cacheCreate" \in Caches /\ "cache5m" \in Caches /\ "cache1h" \in Caches
    /\ "input" # "output" /\ "input" # "combined" /\ "output" # "combined"
  BY DEF Dimensions, Caches

(* A session: the profile, what admission reserved for a request of the    *)
(* profile, and the usage observed.                                        *)
IsSession(s) ==
    /\ s \in [profile : {s.profile}, estimate : {s.estimate}, usage : [Dimensions -> Int],
              carry : {s.carry}, cut : {s.cut}, overflow : {s.overflow}]
    /\ \E body \in Nat : s.estimate = Estimate(s.profile, body)

LEMMA ClampedFacts ==
    ASSUME NEW t, DOMAIN t = Dimensions, NEW profile, NEW conservative,
           NEW d \in {"input", "output", "combined"}
    PROVE  WithCost(Clamped(t), profile, conservative).tokens[d] = Clamp(t[d])
<1>1. WithCost(Clamped(t), profile, conservative).tokens = Clamped(t)
  BY DEF WithCost
<1>2. Clamped(t)[d] = Clamp(t[d])
  BY SomeDimensions DEF Clamped
<1> QED
  BY <1>1, <1>2

(* What admission reserves: input and output within the clamp.             *)
LEMMA EstimateFacts ==
    ASSUME NEW profile, NEW body \in Nat
    PROVE  LET e == Estimate(profile, body).tokens
           IN  /\ e \in [Dimensions -> Nat]
               /\ ~Metered(profile) => e = Zero
               /\ Metered(profile) => e.combined = SafeAdd(e.input, e.output)
<1> DEFINE input == Clamp(body)
           output == IF profile = "embeddings" THEN 0 ELSE Clamp(MaxOutputTokens)
           tokens == [Zero EXCEPT !.input = input, !.output = output, !.combined = SafeAdd(input, output)]
<1>1. Zero \in [Dimensions -> Nat]
  BY DEF Zero
<1>2. input \in Nat /\ output \in Nat
  BY ClampFacts, UsageNumbers
<1>3. CASE ~Metered(profile)
  BY <1>1, <1>3 DEF Estimate, RequestOnly
<1>4. CASE Metered(profile)
  <2>1. Estimate(profile, body).tokens = tokens
    BY <1>4 DEF Estimate, WithCost
  <2> HIDE DEF input, output
  <2>2. SafeAdd(input, output) \in Nat
    BY <1>2, SafeAddFacts
  <2>3. tokens \in [Dimensions -> Nat]
    BY <1>1, <1>2, <2>2, SomeDimensions
  <2>4. tokens.input = input /\ tokens.output = output /\ tokens.combined = SafeAdd(input, output)
    BY <1>1, SomeDimensions
  <2> QED
    BY <1>4, <2>1, <2>3, <2>4
<1> QED
  BY <1>3, <1>4

(* Input observed is at least the plain input, up to the largest integer.  *)
LEMMA ObservedInputFacts ==
    ASSUME NEW s, s.usage \in [Dimensions -> Int]
    PROVE  /\ ObservedInput(s) \in Nat
           /\ Amount(s.usage, "input") <= ObservedInput(s) \/ MaxInt <= ObservedInput(s)
<1> DEFINE created == IF Seen(s.usage, {"cache5m", "cache1h"})
                      THEN SafeAdd(Amount(s.usage, "cache5m"), Amount(s.usage, "cache1h"))
                      ELSE Amount(s.usage, "cacheCreate")
           i == Amount(s.usage, "input")
           c == Amount(s.usage, "cacheRead")
<1>1. \A d \in Dimensions : Amount(s.usage, d) \in Nat
  BY AmountFacts
<1>2. created \in Nat
  <2>1. SafeAdd(Amount(s.usage, "cache5m"), Amount(s.usage, "cache1h")) \in Nat
    BY <1>1, SafeAddFacts, SomeDimensions
  <2> QED
    BY <1>1, <2>1, SomeDimensions
<1>3. i \in Nat /\ c \in Nat
  BY <1>1, SomeDimensions
<1>4. ObservedInput(s) = IF IsMessages(s.profile) THEN SafeAdd(SafeAdd(i, c), created) ELSE i
  BY DEF ObservedInput
<1> HIDE DEF created, i, c
<1>5. SafeAdd(i, c) \in Nat /\ (i <= SafeAdd(i, c) \/ MaxInt <= SafeAdd(i, c))
  BY <1>3, SafeAddFacts
<1> DEFINE a == SafeAdd(i, c)
<1> HIDE DEF a
<1>6. SafeAdd(a, created) \in Nat /\ (a <= SafeAdd(a, created) \/ MaxInt <= SafeAdd(a, created))
  BY <1>2, <1>5, SafeAddFacts DEF a
<1>7. i <= SafeAdd(a, created) \/ MaxInt <= SafeAdd(a, created)
  BY <1>3, <1>5, <1>6, UsageNumbers DEF a
<1> QED
  BY <1>3, <1>4, <1>6, <1>7 DEF a, i

(* Settled by the estimate: not less than it, nor than what was reported.  *)
LEMMA ByEstimate ==
    ASSUME NEW s, IsSession(s), Metered(s.profile), NEW d \in {"input", "output", "combined"}
    PROVE  /\ SettleByEstimate(s).tokens[d] >= Clamp(s.estimate.tokens[d])
           /\ SettleByEstimate(s).tokens[d] >= Clamp(Amount(s.usage, d))
<1> DEFINE e == s.estimate.tokens
           u == s.usage
           input == Max({e.input, ObservedInput(s)})
           output == Max({e.output, u.output})
           caches == [x \in Dimensions |-> IF x \in Caches THEN Amount(u, x) ELSE 0]
           base == IF IsMessages(s.profile) THEN caches ELSE e
           both == SafeAdd(input, output)
           tokens == [base EXCEPT !.input = input, !.output = output, !.combined = Max({both, u.combined})]
<1>1. u \in [Dimensions -> Int]
  BY DEF IsSession
<1>2. e \in [Dimensions -> Nat] /\ e.combined = SafeAdd(e.input, e.output)
  BY EstimateFacts DEF IsSession
<1>3. SettleByEstimate(s).tokens =
         WithCost(Clamped(tokens), s.profile,
                  IF IsMessages(s.profile) THEN RateUnknown(s) ELSE s.estimate.conservative).tokens
  BY DEF SettleByEstimate
<1>4. DOMAIN base = Dimensions
  BY <1>2
<1> DEFINE oi == ObservedInput(s)
<1>5. oi \in Nat /\ (Amount(u, "input") <= oi \/ MaxInt <= oi)
  BY <1>1, ObservedInputFacts
<1> HIDE DEF e, u, base, oi
<1>6. /\ e.input \in Nat /\ e.output \in Nat /\ e.combined \in Nat
      /\ u.input \in Int /\ u.output \in Int /\ u.combined \in Int
  BY <1>1, <1>2, SomeDimensions
<1>7. /\ Amount(u, "input") \in Nat
      /\ Amount(u, "output") = IF 0 >= u.output THEN 0 ELSE u.output
      /\ Amount(u, "combined") = IF 0 >= u.combined THEN 0 ELSE u.combined
  BY <1>1, AmountFacts, SomeDimensions
<1>8. input \in Nat /\ e.input <= input /\ (Amount(u, "input") <= input \/ MaxInt <= input)
  <2>1. input = IF e.input >= oi THEN e.input ELSE oi
    BY <1>5, <1>6, MaxOfTwo DEF oi
  <2> QED
    BY <1>5, <1>6, <1>7, <2>1, UsageNumbers
<1>9. output \in Nat /\ e.output <= output /\ Amount(u, "output") <= output
  <2>1. output = IF e.output >= u.output THEN e.output ELSE u.output
    BY <1>6, MaxOfTwo
  <2> QED
    BY <1>6, <1>7, <2>1
<1> HIDE DEF input, output
<1>10. both \in Nat /\ (e.combined <= both \/ MaxInt <= both)
  <2>1. /\ both = IF input + output <= MaxInt THEN input + output ELSE MaxInt
        /\ e.combined = IF e.input + e.output <= MaxInt THEN e.input + e.output ELSE MaxInt
    BY <1>2, <1>6, <1>8, <1>9, SafeAddFacts
  <2> QED
    BY <1>6, <1>8, <1>9, <2>1, UsageNumbers
<1> HIDE DEF both
<1> DEFINE combined == Max({both, u.combined})
<1>11. /\ combined \in Nat /\ (e.combined <= combined \/ MaxInt <= combined)
       /\ Amount(u, "combined") <= combined
  <2>1. combined = IF both >= u.combined THEN both ELSE u.combined
    BY <1>6, <1>10, MaxOfTwo
  <2> QED
    BY <1>6, <1>7, <1>10, <2>1, UsageNumbers
<1>12. tokens.input = input /\ tokens.output = output /\ tokens.combined = combined /\ DOMAIN tokens = Dimensions
  BY <1>4, SomeDimensions
<1> HIDE DEF tokens, combined
<1>13. SettleByEstimate(s).tokens[d] = Clamp(tokens[d])
  BY <1>3, <1>12, ClampedFacts
<1>14. CASE d = "input"
  BY <1>6, <1>7, <1>8, <1>12, <1>13, <1>14, ClampFacts DEF e, u
<1>15. CASE d = "output"
  <2>1. Amount(u, "output") \in Nat
    BY <1>6, <1>7
  <2> QED
    BY <1>6, <1>9, <1>12, <1>13, <1>15, <2>1, ClampFacts DEF e, u
<1>16. CASE d = "combined"
  <2>1. Amount(u, "combined") \in Nat
    BY <1>6, <1>7
  <2> QED
    BY <1>6, <1>11, <1>12, <1>13, <1>16, <2>1, ClampFacts DEF e, u
<1> QED
  BY <1>14, <1>15, <1>16

(* Settled by the usage: not less than what was reported.                  *)
LEMMA ByUsage ==
    ASSUME NEW s, IsSession(s), NEW d \in {"input", "output", "combined"}
    PROVE  SettleByUsage(s).tokens[d] >= Clamp(Amount(s.usage, d))
<1> DEFINE t == [x \in Dimensions |-> Amount(s.usage, x)]
           input == ObservedInput(s)
           both == SafeAdd(input, t.output)
           tokens == [t EXCEPT !.input = input, !.combined = Max({t.combined, both})]
<1>1. s.usage \in [Dimensions -> Int]
  BY DEF IsSession
<1>2. SettleByUsage(s).tokens = WithCost(Clamped(tokens), s.profile, RateUnknown(s)).tokens
  BY DEF SettleByUsage
<1>3. input \in Nat /\ (Amount(s.usage, "input") <= input \/ MaxInt <= input)
  BY <1>1, ObservedInputFacts
<1>4. /\ DOMAIN t = Dimensions /\ t.input = Amount(s.usage, "input")
      /\ t.output = Amount(s.usage, "output") /\ t.combined = Amount(s.usage, "combined")
      /\ t.input \in Nat /\ t.output \in Nat /\ t.combined \in Nat
  BY <1>1, AmountFacts, SomeDimensions
<1> HIDE DEF t, input
<1>5. both \in Nat
  BY <1>3, <1>4, SafeAddFacts
<1> DEFINE combined == Max({t.combined, both})
<1>6. combined \in Nat /\ t.combined <= combined
  <2> HIDE DEF both
  <2>1. combined = IF t.combined >= both THEN t.combined ELSE both
    BY <1>4, <1>5, MaxOfTwo
  <2> QED
    BY <1>4, <1>5, <2>1
<1>7. /\ tokens.input = input /\ tokens.output = t.output /\ tokens.combined = combined
      /\ DOMAIN tokens = Dimensions
  BY <1>4, SomeDimensions
<1> HIDE DEF tokens, combined
<1>8. SettleByUsage(s).tokens[d] = Clamp(tokens[d])
  BY <1>2, <1>7, ClampedFacts
<1>9. CASE d = "input"
  BY <1>3, <1>4, <1>7, <1>8, <1>9, ClampFacts
<1>10. CASE d = "output"
  BY <1>4, <1>7, <1>8, <1>10, ClampFacts
<1>11. CASE d = "combined"
  BY <1>4, <1>6, <1>7, <1>8, <1>11, ClampFacts
<1> QED
  BY <1>9, <1>10, <1>11

(* Finish of any session: less than the estimate only when all usage was   *)
(* reported and nothing broke, and never less than what was reported.      *)
LEMMA FinishFloor ==
    ASSUME NEW s, IsSession(s), NEW failed \in BOOLEAN, NEW d \in {"input", "output", "combined"}
    PROVE  /\ \/ Finish(s, failed).tokens[d] >= Clamp(s.estimate.tokens[d])
              \/ ~failed /\ CompleteUsage(s)
           /\ Metered(s.profile) => Finish(s, failed).tokens[d] >= Clamp(Amount(s.usage, d))
<1>1. CASE ~Metered(s.profile)
  <2>1. Finish(s, failed).tokens = Zero
    BY <1>1 DEF Finish, RequestOnly
  <2>2. s.estimate.tokens = Zero
    BY <1>1, EstimateFacts DEF IsSession
  <2>3. Zero[d] = 0 /\ Clamp(0) = 0
    BY SomeDimensions, ClampValue DEF Zero
  <2> QED
    BY <1>1, <2>1, <2>2, <2>3
<1>2. CASE Metered(s.profile) /\ ~failed /\ ~s.overflow /\ CompleteUsage(s)
  BY <1>2, ByUsage DEF Finish
<1>3. CASE Metered(s.profile) /\ ~(~failed /\ ~s.overflow /\ CompleteUsage(s))
  BY <1>3, ByEstimate DEF Finish
<1> QED
  BY <1>1, <1>2, <1>3

-----------------------------------------------------------------------------
(***************************************************************************)
(* The sessions after any number of pieces, by induction on the number.    *)
(***************************************************************************)
(* Induction over the naturals, for a set.                                 *)
LEMMA SetInduction ==
    ASSUME NEW S, 0 \in S, \A n \in Nat : n \in S => n + 1 \in S
    PROVE  Nat \subseteq S
<1> DEFINE T == Nat \ S
           R == OpToRel(<, Nat)
<1> SUFFICES ASSUME T # {} PROVE FALSE
  OBVIOUS
<1>1. IsWellFoundedOn(R, Nat)
  BY NatLessThanWellFounded, Zenon
<1>2. \A x, y \in Nat : <<y, x>> \notin R => x =< y
  BY DEF OpToRel
<1> HIDE DEF R
<1>3. PICK m \in T : \A y \in T : ~(<<y, m>> \in R)
  BY <1>1, WFMin
<1>4. m \in Nat /\ m # 0 /\ m \notin S /\ \A y \in T : m =< y
  BY <1>2, <1>3
<1>5. m - 1 \in Nat /\ m - 1 \notin T
  BY <1>4
<1>6. (m - 1) + 1 \in S
  BY <1>5
<1> QED
  BY <1>4, <1>6

FirstSessions == {Begin(profile, body) : profile \in Profiles, body \in BodySizes}

NextSessions(S) == {ObserveChunk(s, piece) : s \in S, piece \in Pieces}

(* g has the sets of sessions after 0 to n pieces.                         *)
Upto(n, g) ==
    /\ DOMAIN g = 0..n
    /\ g[0] = FirstSessions
    /\ \A i \in 0..n : i # 0 => g[i] = NextSessions(g[i - 1])

LEMMA UptoExists == \A n \in Nat : \E g : Upto(n, g)
<1> DEFINE S == {n \in Nat : \E g : Upto(n, g)}
<1>1. 0 \in S
  <2> DEFINE g == [i \in 0..0 |-> FirstSessions]
  <2>1. Upto(0, g)
    BY DEF Upto
  <2> QED
    BY <2>1
<1>2. ASSUME NEW n \in Nat, n \in S
      PROVE  n + 1 \in S
  <2>1. PICK g : Upto(n, g)
    BY <1>2
  <2> DEFINE h == [i \in 0..(n + 1) |-> IF i = n + 1 THEN NextSessions(g[n]) ELSE g[i]]
  <2>2. DOMAIN h = 0..(n + 1) /\ h[0] = FirstSessions
    BY <2>1 DEF Upto
  <2>3. ASSUME NEW i \in 0..(n + 1), i # 0
        PROVE  h[i] = NextSessions(h[i - 1])
    <3>1. i - 1 \in 0..n /\ h[i - 1] = g[i - 1]
      BY <2>3
    <3>2. CASE i = n + 1
      BY <3>1, <3>2
    <3>3. CASE i # n + 1
      <4>1. i \in 0..n /\ h[i] = g[i]
        BY <2>3, <3>3
      <4> QED
        BY <2>1, <2>3, <3>1, <4>1 DEF Upto
    <3> QED
      BY <3>2, <3>3
  <2> HIDE DEF h
  <2>4. Upto(n + 1, h)
    BY <2>2, <2>3 DEF Upto
  <2> QED
    BY <2>4
<1> HIDE DEF S
<1>3. Nat \subseteq S
  BY <1>1, <1>2, SetInduction
<1> QED
  BY <1>3 DEF S

LEMMA UptoUnique ==
    ASSUME NEW n \in Nat, NEW m \in Nat, NEW g, NEW h, Upto(n, g), Upto(m, h), NEW i \in Nat, i <= n, i <= m
    PROVE  g[i] = h[i]
<1> DEFINE S == {j \in Nat : j <= n /\ j <= m => g[j] = h[j]}
<1>1. 0 \in S
  BY DEF Upto
<1>2. ASSUME NEW j \in Nat, j \in S
      PROVE  j + 1 \in S
  <2> SUFFICES ASSUME j + 1 <= n, j + 1 <= m PROVE g[j + 1] = h[j + 1]
    OBVIOUS
  <2>1. g[j] = h[j]
    BY <1>2
  <2>2. j + 1 \in 0..n /\ j + 1 \in 0..m /\ j + 1 # 0 /\ (j + 1) - 1 = j
    OBVIOUS
  <2> QED
    BY <2>1, <2>2 DEF Upto
<1> HIDE DEF S
<1>3. Nat \subseteq S
  BY <1>1, <1>2, SetInduction
<1> QED
  BY <1>3 DEF S

(* The recursive definition of SessionsAfter defines a function.           *)
LEMMA SessionsUnfold ==
    \A n \in Nat : SessionsAfter[n] = IF n = 0 THEN FirstSessions ELSE NextSessions(SessionsAfter[n - 1])
<1> DEFINE G(n) == CHOOSE g : Upto(n, g)
           F == [n \in Nat |-> G(n)[n]]
           Body(f) == [n \in Nat |-> IF n = 0 THEN FirstSessions ELSE NextSessions(f[n - 1])]
<1>1. \A n \in Nat : Upto(n, G(n))
  BY UptoExists
<1> HIDE DEF G
<1>2. ASSUME NEW n \in Nat
      PROVE  F[n] = IF n = 0 THEN FirstSessions ELSE NextSessions(F[n - 1])
  <2>1. CASE n = 0
    BY <1>1, <2>1 DEF Upto
  <2>2. CASE n # 0
    <3>1. n - 1 \in Nat /\ n \in 0..n /\ n - 1 <= n
      BY <2>2
    <3>2. G(n)[n] = NextSessions(G(n)[n - 1])
      BY <1>1, <2>2, <3>1 DEF Upto
    <3>3. G(n)[n - 1] = G(n - 1)[n - 1]
      BY <1>1, <3>1, UptoUnique
    <3> QED
      BY <2>2, <3>1, <3>2, <3>3
  <2> QED
    BY <2>1, <2>2
<1>3. F = Body(F)
  BY <1>2
<1>4. SessionsAfter = CHOOSE f : f = Body(f)
  BY DEF SessionsAfter, FirstSessions, NextSessions
<1> HIDE DEF F, Body
<1>5. SessionsAfter = Body(SessionsAfter)
  BY <1>3, <1>4
<1> QED
  BY <1>5 DEF Body

LEMMA BeginIsSession ==
    ASSUME NEW profile, NEW body \in Nat
    PROVE  IsSession(Begin(profile, body))
<1>1. Nothing \in [Dimensions -> Int]
  BY DEF Nothing, NotSeen
<1> QED
  BY <1>1 DEF IsSession, Begin

LEMMA ParsedRecord ==
    ASSUME NEW object \in [Dimensions -> Int], NEW profile
    PROVE  ParseUsageRecord(object, profile) \in [Dimensions -> Int]
<1> DEFINE members == Members(profile)
           plain == [d \in Dimensions |-> IF d \in members /\ object[d] # Malformed THEN object[d] ELSE NotSeen]
           tiers == SafeAdd(Amount(plain, "cache5m"), Amount(plain, "cache1h"))
<1>1. Nothing \in [Dimensions -> Int] /\ plain \in [Dimensions -> Int]
  BY DEF Nothing, NotSeen
<1> HIDE DEF plain
<1>2. tiers \in Nat
  BY <1>1, AmountFacts, SafeAddFacts, SomeDimensions
<1> HIDE DEF tiers
<1>3. [plain EXCEPT !.output = 0] \in [Dimensions -> Int] /\ [plain EXCEPT !.cacheCreate = tiers] \in [Dimensions -> Int]
  BY <1>1, <1>2, SomeDimensions
<1>4. ParseUsageRecord(object, profile) \in
         {Nothing, plain, [plain EXCEPT !.output = 0], [plain EXCEPT !.cacheCreate = tiers]}
  BY DEF ParseUsageRecord, plain, tiers
<1> QED
  BY <1>1, <1>3, <1>4

LEMMA ObserveKeepsSession ==
    ASSUME NEW s, IsSession(s), NEW piece \in Pieces
    PROVE  IsSession(ObserveChunk(s, piece))
<1> DEFINE rec == ParseUsageRecord(UsageObject(piece, s.profile), s.profile)
           usage == ProcessRecord(s, piece)
<1>1. s.usage \in [Dimensions -> Int]
  BY DEF IsSession
<1>2. usage \in [Dimensions -> Int]
  <2>1. UsageObject(piece, s.profile) \in [Dimensions -> Int]
    BY GatewayAssumption DEF UsageObject, Nothing, NotSeen
  <2>2. rec \in [Dimensions -> Int]
    BY <2>1, ParsedRecord
  <2> HIDE DEF rec
  <2>3. Merge(s.usage, rec) \in [Dimensions -> Int]
    BY <1>1, <2>2, MaxOfTwo DEF Merge
  <2>4. usage = IF s.cut THEN s.usage ELSE Merge(s.usage, rec)
    BY DEF ProcessRecord, rec
  <2> QED
    BY <1>1, <2>3, <2>4
<1> DEFINE cut == ~piece.ends
           a == [s EXCEPT !.carry = 0, !.overflow = TRUE, !.cut = cut]
           b == [s EXCEPT !.carry = 0, !.cut = FALSE, !.usage = usage]
           c == [s EXCEPT !.carry = s.carry + piece.size]
<1>3. ObserveChunk(s, piece) \in {a, b, c}
  BY DEF ObserveChunk
<1> HIDE DEF usage, cut
<1>4. IsSession(a)
  BY DEF IsSession
<1>5. IsSession(b)
  BY <1>2 DEF IsSession
<1>6. IsSession(c)
  BY DEF IsSession
<1> HIDE DEF a, b, c
<1> QED
  BY <1>3, <1>4, <1>5, <1>6

LEMMA SessionsAreSessions ==
    \A n \in Nat : \A s \in SessionsAfter[n] : IsSession(s)
<1> DEFINE S == {n \in Nat : \A s \in SessionsAfter[n] : IsSession(s)}
<1>1. 0 \in S
  <2>1. SessionsAfter[0] = FirstSessions
    BY SessionsUnfold
  <2>2. \A s \in FirstSessions : IsSession(s)
    BY BeginIsSession, GatewayAssumption DEF FirstSessions
  <2> QED
    BY <2>1, <2>2
<1>2. ASSUME NEW n \in Nat, n \in S
      PROVE  n + 1 \in S
  <2>1. SessionsAfter[n + 1] = NextSessions(SessionsAfter[n])
    <3>1. n + 1 \in Nat /\ n + 1 # 0 /\ (n + 1) - 1 = n
      OBVIOUS
    <3> QED
      BY <3>1, SessionsUnfold
  <2>2. \A s \in NextSessions(SessionsAfter[n]) : IsSession(s)
    BY <1>2, ObserveKeepsSession DEF NextSessions
  <2> QED
    BY <2>1, <2>2
<1> HIDE DEF S
<1>3. Nat \subseteq S
  BY <1>1, <1>2, SetInduction
<1> QED
  BY <1>3 DEF S

(* A request that was sent is never refunded; it is charged its estimate   *)
(* unless all of its usage was reported over a stream that nothing broke,  *)
(* and what was reported when it is settled, whatever the pieces of its    *)
(* response say and however many there are (Finish, MarkForwarded,         *)
(* Release).                                                               *)
THEOREM UseIsCharged == Spec => []ChargedForUse
<1>1. ASSUME IInv, NEW r \in Requests, req[r].at = "return", req[r].sent
      PROVE  /\ Release(req[r]) # "refund"
             /\ \A s \in Sessions(req[r]), d \in {"input", "output", "combined"} :
                  LET h == req[r]
                      charged == Charged(h, s).tokens[d]
                  IN  /\ \/ charged >= Clamp(s.estimate.tokens[d])
                         \/ h.settled /\ h.ended /\ ~h.streamErr /\ CompleteUsage(s)
                      /\ h.settled /\ Metered(s.profile) => charged >= Clamp(Amount(s.usage, d))
  <2> DEFINE h == req[r]
  <2>1. /\ h \in Request /\ h.reserved /\ h.forwarded
        /\ h.settled /\ ~h.streamErr => h.ended
    BY <1>1, RequestTypes DEF RequestInv, SentInv, StreamInv
  <2>2. h.metered \in Nat /\ h.streamErr \in BOOLEAN /\ h.settled \in BOOLEAN
    BY <2>1 DEF Request
  <2> HIDE DEF h
  <2>3. Release(h) = IF h.settled THEN "actual" ELSE "estimate"
    BY <2>1 DEF Release
  <2>4. ASSUME NEW s \in Sessions(h)
        PROVE  IsSession(s)
    <3>1. PICK n \in h.metered..(MaxPieces * h.metered) : s \in SessionsAfter[n]
      BY <2>4 DEF Sessions
    <3>2. MaxPieces * h.metered \in Nat
      BY <2>2, GatewayAssumption, BodyMore
    <3>3. n \in Nat
      BY <2>2, <3>1, <3>2
    <3> QED
      BY <3>1, <3>3, SessionsAreSessions
  <2>5. ASSUME NEW s \in Sessions(h), NEW d \in {"input", "output", "combined"}
        PROVE  /\ \/ Charged(h, s).tokens[d] >= Clamp(s.estimate.tokens[d])
                  \/ h.settled /\ h.ended /\ ~h.streamErr /\ CompleteUsage(s)
               /\ h.settled /\ Metered(s.profile) => Charged(h, s).tokens[d] >= Clamp(Amount(s.usage, d))
    <3>1. IsSession(s)
      BY <2>4
    <3>2. CASE h.settled
      <4>1. Charged(h, s) = Finish(s, h.streamErr)
        BY <2>3, <3>2 DEF Charged
      <4> QED
        BY <2>1, <2>2, <3>1, <3>2, <4>1, FinishFloor
    <3>3. CASE ~h.settled
      <4>1. Charged(h, s) = s.estimate
        BY <2>3, <3>3 DEF Charged
      <4>2. s.estimate.tokens \in [Dimensions -> Nat]
        BY <3>1, EstimateFacts DEF IsSession
      <4>3. s.estimate.tokens[d] \in Nat
        BY <4>2, SomeDimensions
      <4> QED
        BY <3>3, <4>1, <4>3, ClampFacts
    <3> QED
      BY <3>2, <3>3
  <2> QED
    BY <2>3, <2>5 DEF h
<1>2. IInv => ChargedForUse
  BY <1>1 DEF ChargedForUse
<1> QED
  BY Invariance, <1>2, PTL
=============================================================================
