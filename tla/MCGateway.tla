------------------------------ MODULE MCGateway ------------------------------
(* Instances of Gateway: two requests of two sources and a table of one.   *)
EXTENDS Gateway, TLC

CONSTANTS r1, r2

TwoSources == r1 :> "a" @@ r2 :> "b"

(* One endpoint, and what is refused: another path, another method, and    *)
(* another encoding.                                                       *)
OneRule == {[method |-> "POST", path |-> "/v1/messages", scope |-> "LANE", profile |-> "anthropic-messages"]}

FourHeads ==
    {[method |-> "POST", path |-> "/v1/messages", encodings |-> {"identity"}],
     [method |-> "POST", path |-> "/v1/files", encodings |-> {}],
     [method |-> "GET", path |-> "/v1/messages", encodings |-> {}],
     [method |-> "POST", path |-> "/v1/messages", encodings |-> {"identity", "gzip"}]}

(* Cached input costs less than plain input, writing the cache more.       *)
Prices == [input |-> 2, output |-> 3, combined |-> 0, cacheRead |-> 1, cacheCreate |-> 0, cache5m |-> 3, cache1h |-> 4]

(* A record of all usage below the estimate, the first record of a         *)
(* streamed message, a record with a key twice, the head of a record, and  *)
(* text without usage that is longer than the carry.                       *)
Whole == [Nothing EXCEPT !.input = 1, !.output = 1, !.combined = 2]

Start == [Nothing EXCEPT !.input = 0, !.output = 1, !.cacheRead = 5, !.cache5m = 1]

Piece(size, ends, place, twice, object) ==
    [size |-> size, ends |-> ends, place |-> place, twice |-> twice, object |-> object]

FivePieces ==
    {Piece(1, TRUE, "top", FALSE, Whole), Piece(1, TRUE, "message_start", FALSE, Start),
     Piece(1, TRUE, "response.completed", TRUE, Whole),
     Piece(2, FALSE, "top", FALSE, Nothing), Piece(3, FALSE, "top", FALSE, Nothing)}
=============================================================================
