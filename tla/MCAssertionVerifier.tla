-------------------------- MODULE MCAssertionVerifier --------------------------
EXTENDS AssertionVerifier, TLC

CONSTANTS c1, c2

KeyA == [kid |-> 1, mat |-> "a"]
KeyB == [kid |-> 1, mat |-> "b"]

TwoKeys == {KeyA, KeyB}

Token(k, iat, exp, rev, ep) ==
    [key |-> k, iat |-> iat, exp |-> exp, credRev |-> rev, policyRev |-> 1, policyEpoch |-> ep,
     claims |-> <<"iss", "sub", "cid", "ctx", "aud", "iat", "exp", "jti", "scope", "kid",
                  "policy_rev", "policy_epoch", "cred_rev">>,
     aud |-> "inference", scope |-> <<"inference", "LANE">>, lane |-> "lane"]

Plain == Token(KeyA, 0, 2, 1, 1)

(* Two lifetimes, a later revision and a later epoch, too long a lifetime, *)
(* and what no verifier accepts: a claim twice, an unknown one, a scope    *)
(* twice, no scope, LANE without a lane, another audience.                 *)
SomeTokens ==
    {[Plain EXCEPT !.claims = Append(@, "exp")], [Plain EXCEPT !.claims = Append(@, "admin")],
     [Plain EXCEPT !.scope = Append(@, "LANE")], [Plain EXCEPT !.scope = <<>>],
     [Plain EXCEPT !.lane = ""], [Plain EXCEPT !.aud = "other"]} \cup
    {Token(KeyA, 0, 2, 1, 1), Token(KeyA, 1, 2, 1, 2), Token(KeyA, 2, 3, 2, 1), Token(KeyB, 0, 4, 1, 1)}

(* By either kind of identity, by none of the configured, not verified.    *)
SomePeers ==
    {[verified |-> TRUE, spiffe |-> {"gateway"}, dns |-> {}],
     [verified |-> TRUE, spiffe |-> {}, dns |-> {"gateway"}],
     [verified |-> TRUE, spiffe |-> {"verifier-admin"}, dns |-> {}],
     [verified |-> FALSE, spiffe |-> {"gateway"}, dns |-> {"gateway"}]}

Offsets == c1 :> 0 @@ c2 :> -1
=============================================================================
