------------------------------- MODULE Evidence -------------------------------
(***************************************************************************)
(* Evidence and risk (internal/evidence, internal/risk): what a rule of    *)
(* the table mints, how long an item counts, what the bounded store keeps  *)
(* of a subject, and the 0..100 score a set of items evaluates to.  Only   *)
(* operators: the stores and the pipeline that call them are modelled in   *)
(* Admission.                                                              *)
(*                                                                         *)
(* An item is [id, code, subject, made, exp]; exp = Never is the zero      *)
(* ExpiresAt.  Identifiers are drawn at random by the code; here they are  *)
(* whatever the caller supplies as fresh.                                  *)
(***************************************************************************)
EXTENDS Integers, FiniteSets, FiniteSetsExt

CONSTANTS
    Rules,                 \* the rule table: code -> [score, group, family, ttl]
    FamilyCap,             \* family -> the most it contributes
    MaxEvidencePerSubject  \* the storage bound of a subject

Codes == DOMAIN Rules

Never == 0

Ungrouped == "none"

OperatorIOC == "operator"

(* Every field of an item but its subject comes from the rule; a rule      *)
(* without a lifetime mints an item that does not expire.                  *)
Mint(code, subject, now, id) ==
    [id |-> id, code |-> code, subject |-> subject, made |-> now,
     exp |-> IF Rules[code].ttl > 0 THEN now + Rules[code].ttl ELSE Never]

(* Expired exactly at its expiry.                                          *)
IsExpired(ev, now) == ev.exp # Never /\ ev.exp <= now

(* An item made in the reader's future is not valid either.                *)
Valid(ev, now) == ev.made <= now /\ ~IsExpired(ev, now)

NonEvictable(ev) == Rules[ev.code].family = OperatorIOC \/ ev.exp = Never

(* Over the bound, the oldest evictable items go; when every item must     *)
(* stay, the bound yields.                                                 *)
CompactSubject(items) ==
    LET evictable == {ev \in items : ~NonEvictable(ev)}
        over == Cardinality(items) - MaxEvidencePerSubject
        n == Min({Max({0, over}), Cardinality(evictable)})
        Oldest(D) == \A d \in D, ev \in evictable \ D : d.made <= ev.made
    IN  items \ (CHOOSE D \in kSubset(n, evictable) : Oldest(D))

(* Append for one subject: expired rows leave, identifiers stay unique,    *)
(* the bound is enforced.                                                  *)
MergeSubject(existing, incoming, now) ==
    LET Live == {ev \in existing : ~IsExpired(ev, now)}
        Known == {ev.id : ev \in Live}
    IN  CompactSubject(Live \cup {ev \in incoming : ev.id \notin Known})

AppendEvidence(store, items, now) ==
    LET Touched == {ev.subject : ev \in items}
        Of(set, s) == {ev \in set : ev.subject = s}
    IN  {ev \in store : ev.subject \notin Touched}
            \cup UNION {MergeSubject(Of(store, s), Of(items, s), now) : s \in Touched}

Snapshot(store, subjects, now) ==
    {ev \in store : ev.subject \in subjects /\ Valid(ev, now)}

(* Mutant: pruning goes by the age of an item and not by its expiry.       *)
PruneByAge(store, subjects, now) ==
    {ev \in store : ev.subject \in subjects => ev.made = now}

(* Prune deletes every item of the subjects that is not valid at now.      *)
Prune(store, subjects, now) ==
    {ev \in store : ev.subject \in subjects => Valid(ev, now)}

(* Risk: items of one correlation group of a family and subject count      *)
(* once, at their best; a family counts up to its cap; the total is        *)
(* clamped.                                                                *)
Evaluate(items, now) ==
    LET Counted == {ev \in items : Valid(ev, now)}
        Rule(ev) == Rules[ev.code]
        Key(ev) == IF Rule(ev).group = Ungrouped THEN <<ev.id>>
                   ELSE <<Rule(ev).family, ev.subject, Rule(ev).group>>
        Best(key) == Max({Rule(ev).score : ev \in {e \in Counted : Key(e) = key}})
        OfFamily(f) == {Key(ev) : ev \in {e \in Counted : Rule(e).family = f}}
        Capped(f) == Min({FamilyCap[f], MapThenSumSet(Best, OfFamily(f))})
    IN  Min({100, MapThenSumSet(Capped, {Rule(ev).family : ev \in Counted})})
=============================================================================
