-------------------------------- MODULE Usage --------------------------------
(***************************************************************************)
(* The usage meter (adapter/usage/provider.go): what a request is expected *)
(* to use, and what it is charged after its response stream.               *)
(*                                                                         *)
(* A dimension of usage is NotSeen, or a number of tokens.  A piece of the *)
(* response is its size, whether it completes a record (a newline, or the  *)
(* end of a JSON text with usage), whether that record has a key twice,    *)
(* and the usage object that the record then holds at some place: each     *)
(* dimension NotSeen, Malformed or a number.                               *)
(***************************************************************************)
EXTENDS Integers, FiniteSetsExt

CONSTANTS
    Rate,                 \* Pricing: dimension -> micro-units per token
    CostMode,             \* "none", "conservative" or "exact"
    MaxOutputTokens, MaxEstimatedTokens,
    UsageCarry,           \* usageCarryBytes
    MaxInt                \* math.MaxInt64

NotSeen == -1

Malformed == -2

Caches == {"cacheRead", "cacheCreate", "cache5m", "cache1h"}

Dimensions == {"input", "output", "combined"} \cup Caches

Nothing == [d \in Dimensions |-> NotSeen]

Zero == [d \in Dimensions |-> 0]

(* A provider that NewJSONProvider makes.                                  *)
ValidProvider ==
    /\ DOMAIN Rate = Dimensions /\ \A d \in Dimensions : Rate[d] >= 0
    /\ CostMode \in {"none", "conservative", "exact"}
    /\ MaxOutputTokens >= 0

(* Counts are non-negative int64.                                          *)
ASSUME UsageAssumption ==
    /\ ValidProvider
    /\ MaxInt \in Nat /\ MaxEstimatedTokens \in 1..MaxInt /\ MaxOutputTokens \in Nat

Amount(rec, d) == Max({0, rec[d]})

Seen(rec, D) == \E d \in D : rec[d] # NotSeen

SafeAdd(a, b) == Min({a + b, MaxInt})

SafeMulAdd(a, b, c, d) == SafeAdd(Min({a * b, MaxInt}), Min({c * d, MaxInt}))

Clamp(n) == Min({Max({0, n}), MaxEstimatedTokens})

Metered(profile) == profile \notin {"none", "models"}

IsMessages(profile) == profile = "messages"

------------------------------------------------------------------------------
(* Cost.                                                                   *)

CacheCreationRate(hour) ==
    LET tier == Rate[IF hour THEN "cache1h" ELSE "cache5m"] IN IF tier # 0 THEN tier ELSE Rate.cacheCreate

(* Every input token at the highest rate it may have.                      *)
ConservativeCost(tokens, profile) ==
    LET rates == {Rate.input, Rate.cacheRead}
                 \cup (IF IsMessages(profile) THEN {CacheCreationRate(FALSE), CacheCreationRate(TRUE)} ELSE {})
    IN  SafeMulAdd(tokens.input, Max(rates), tokens.output, Rate.output)

(* Cached input at its own rate, the rest of the input at the plain one.   *)
ExactCost(tokens) ==
    LET tiered == tokens.cache5m # 0 \/ tokens.cache1h # 0
        aggregate == IF tiered THEN 0 ELSE tokens.cacheCreate
        cached == SafeAdd(SafeAdd(tokens.cacheRead, SafeAdd(tokens.cache5m, tokens.cache1h)), aggregate)
        regular == Max({0, tokens.input - cached})
    IN  SafeAdd(SafeAdd(SafeMulAdd(regular, Rate.input, tokens.output, Rate.output),
                        SafeMulAdd(tokens.cacheRead, Rate.cacheRead, tokens.cache5m, CacheCreationRate(FALSE))),
                SafeMulAdd(tokens.cache1h, CacheCreationRate(TRUE), aggregate, Rate.cacheCreate))

WithCost(tokens, profile, conservative) ==
    [tokens |-> tokens,
     conservative |-> conservative,
     cost |-> CASE CostMode = "none" -> 0
                [] CostMode = "conservative" \/ (CostMode = "exact" /\ conservative) -> ConservativeCost(tokens, profile)
                [] OTHER -> ExactCost(tokens)]

RequestOnly == [tokens |-> Zero, conservative |-> FALSE, cost |-> 0]

(* What admission reserves; an unknown body counts as the largest one.     *)
(* A body is counted in tokens already, and MaxOutputTokens stands for the *)
(* header, the default or the bound, whichever applies.                    *)
Estimate(profile, body) ==
    IF ~Metered(profile) THEN RequestOnly
    ELSE LET input == Clamp(body)
             output == IF profile = "embeddings" THEN 0 ELSE Clamp(MaxOutputTokens)
         IN  WithCost([Zero EXCEPT !.input = input, !.output = output, !.combined = SafeAdd(input, output)],
                      profile, TRUE)

------------------------------------------------------------------------------
(* Records.                                                                *)

(* The documented members of the usage object of each profile.             *)
Members(profile) ==
    CASE profile \in {"chat", "responses"} -> {"input", "output", "combined", "cacheRead"}
      [] profile = "embeddings" -> {"input", "combined"}
      [] profile = "messages" -> {"input", "output"} \cup Caches
      [] OTHER -> {}

(* Where a record of the profile may hold its usage object: at the top, or *)
(* in the event that ends a response or starts a message.                  *)
Places(profile) ==
    {"top"} \cup (CASE profile = "responses" -> {"response.completed"}
                    [] profile = "messages" -> {"message_start"}
                    [] OTHER -> {})

(* decodeUniqueObject: a key given twice leaves nothing to read.           *)
Unique(piece) == ~piece.twice

UsageObject(piece, profile) ==
    IF Unique(piece) /\ piece.place \in Places(profile) THEN piece.object ELSE Nothing

(* parseUsageRecord: a malformed cache member spoils the record, any other *)
(* is only missing.                                                        *)
ParseUsageRecord(object, profile) ==
    LET members == Members(profile)
        plain == [d \in Dimensions |-> IF d \in members /\ object[d] # Malformed THEN object[d] ELSE NotSeen]
        tiers == SafeAdd(Amount(plain, "cache5m"), Amount(plain, "cache1h"))
    IN  CASE \E d \in members \cap Caches : object[d] = Malformed -> Nothing
          [] profile = "embeddings" /\ plain.input # NotSeen /\ plain.combined # NotSeen ->
                [plain EXCEPT !.output = 0]
          [] Seen(plain, {"cache5m", "cache1h"}) -> [plain EXCEPT !.cacheCreate = tiers]
          [] OTHER -> plain

(* Of two records the larger amount counts, in each dimension.             *)
Merge(usage, rec) == [d \in Dimensions |-> Max({usage[d], rec[d]})]

(* carry: bytes of the record that is not complete yet.  cut: its head was *)
(* dropped.                                                                *)
Begin(profile, body) ==
    [profile |-> profile, estimate |-> Estimate(profile, body), usage |-> Nothing,
     carry |-> 0, cut |-> FALSE, overflow |-> FALSE]

ProcessRecord(s, piece) ==
    IF s.cut THEN s.usage
    ELSE Merge(s.usage, ParseUsageRecord(UsageObject(piece, s.profile), s.profile))

(* A chunk that fits the carry is one piece per record; one that does not  *)
(* is a single piece, which is dropped whole.                              *)
ObserveChunk(s, piece) ==
    CASE s.carry + piece.size > UsageCarry -> [s EXCEPT !.carry = 0, !.overflow = TRUE, !.cut = ~piece.ends]
      [] s.carry + piece.size <= UsageCarry /\ piece.ends ->
            [s EXCEPT !.carry = 0, !.cut = FALSE, !.usage = ProcessRecord(s, piece)]
      [] OTHER -> [s EXCEPT !.carry = @ + piece.size]

------------------------------------------------------------------------------
(* Finish.                                                                 *)

(* Input that was read from or written to the provider's cache is input.   *)
ObservedInput(s) ==
    LET created == IF Seen(s.usage, {"cache5m", "cache1h"})
                   THEN SafeAdd(Amount(s.usage, "cache5m"), Amount(s.usage, "cache1h"))
                   ELSE Amount(s.usage, "cacheCreate")
    IN  IF IsMessages(s.profile)
        THEN SafeAdd(SafeAdd(Amount(s.usage, "input"), Amount(s.usage, "cacheRead")), created)
        ELSE Amount(s.usage, "input")

CompleteUsage(s) ==
    /\ s.usage.input # NotSeen /\ s.usage.output # NotSeen
    /\ s.profile \in {"chat", "responses", "embeddings"} => s.usage.combined # NotSeen

(* The aggregate of cache creation does not tell its rate.                 *)
RateUnknown(s) == s.usage.cacheCreate # NotSeen /\ ~Seen(s.usage, {"cache5m", "cache1h"})

Clamped(tokens) ==
    [tokens EXCEPT !.input = Clamp(@), !.output = Clamp(@), !.combined = Clamp(@)]

(* Missing, malformed or partial usage: the estimate, or more.             *)
SettleByEstimate(s) ==
    LET expected == s.estimate.tokens
        input == Max({expected.input, ObservedInput(s)})
        output == Max({expected.output, s.usage.output})
        caches == [d \in Dimensions |-> IF d \in Caches THEN Amount(s.usage, d) ELSE 0]
        tokens == [(IF IsMessages(s.profile) THEN caches ELSE expected)
                      EXCEPT !.input = input, !.output = output,
                             !.combined = Max({SafeAdd(input, output), s.usage.combined})]
    IN  WithCost(Clamped(tokens), s.profile,
                 IF IsMessages(s.profile) THEN RateUnknown(s) ELSE s.estimate.conservative)

SettleByUsage(s) ==
    LET tokens == [d \in Dimensions |-> Amount(s.usage, d)]
        input == ObservedInput(s)
    IN  WithCost(Clamped([tokens EXCEPT !.input = input,
                                        !.combined = Max({@, SafeAdd(input, tokens.output)})]),
                 s.profile, RateUnknown(s))

Finish(s, streamErr) ==
    CASE ~Metered(s.profile) -> RequestOnly
      [] Metered(s.profile) /\ ~streamErr /\ ~s.overflow /\ CompleteUsage(s) -> SettleByUsage(s)
      [] OTHER -> SettleByEstimate(s)
=============================================================================
