------------------------- MODULE ForwardingContract -------------------------
(***************************************************************************)
(* What a backend pool promises about one request, in terms of its         *)
(* configuration alone: the pool whose matcher text means the request      *)
(* serves it; the first middleware, in the order of the table, that does   *)
(* not let the request pass answers it, otherwise the backend does, and    *)
(* sees the request exactly once and as it came but for the route; the     *)
(* middlewares in front of whoever answered rewrite the answer, the        *)
(* nearest first; the cookie of the strategy is set at the very end.       *)
(* There is no chain here, no position in it, and no parser.               *)
(***************************************************************************)
EXTENDS Middlewares

CONSTANTS
  Client,            \* the address of the client
  BackendResponse    \* what backends answer

VARIABLES
  meaning,     \* the targets the pool is for, none if its text has no meaning
  config,      \* the table, the schemes, and the cookies the strategy sets
  request,
  phase,       \* "called", "contacted", "answered" or "aborted"
  sent,        \* the request the backend got, if it did
  answer       \* what the client got, if it did

vars == <<meaning, config, request, phase, sent, answer>>

Init == phase = "called" /\ sent = {} /\ answer = {}

Effective == {i \in DOMAIN config.table : Converts(config.table[i])}
CanPass(i) == {} \in modify_request(config.table[i], request)
Serves == request.scheme \in config.schemes /\ \E targets \in meaning : request.target \in targets
HasUri == request.has_path /\ config.is_authority

(* The quality of a coding, in thousandths, by the position of its digits, *)
(* and none for every other form: those the standard does not have, and    *)
(* "1.0" to "1.000", which it has and the balancer does not read.          *)
Quality(qvalue) ==
  LET digit(i) == IF i \in DOMAIN qvalue.digits THEN qvalue.digits[i] ELSE 0
  IN  CASE qvalue.form = "1" -> 1000
        [] qvalue.form = "0." /\ Len(qvalue.digits) <= 3 ->
             100 * digit(1) + 10 * digit(2) + digit(3)
        [] OTHER -> 0

(* The first of those codings that the client prefers to all others.       *)
Preferred(accept) ==
  LET understood == {i \in DOMAIN accept : accept[i].coding \in {"br", "deflate", "gzip"}
                                           /\ Quality(accept[i].qvalue) > 0}
      Better(i, j) == LET p == Quality(accept[i].qvalue)
                          q == Quality(accept[j].qvalue)
                      IN  p > q \/ (p = q /\ i <= j)
  IN  {accept[i].coding : i \in {i \in understood : \A j \in understood : Better(i, j)}}

(* Every response that comes out behind each of the first entries of the   *)
(* table, when the given one goes in behind the last of them.              *)
Behind(response, last) ==
  LET behind[i \in 0 .. last] ==
        IF i = last THEN {response}
        ELSE UNION {IF i + 1 \in Effective
                    THEN modify_response(config.table[i + 1], Preferred(request.accept), r)
                    ELSE {r} : r \in behind[i + 1]}
  IN  behind

Rewritten(response, last) == Behind(response, last)[0]

Answered(response, last) ==
  /\ phase' = "answered"
  /\ \E r \in Rewritten(response, last) :
       answer' = {[r EXCEPT !.cookies = @ \o config.cookies]}
  /\ UNCHANGED <<meaning, config, request, sent>>

(* The text has no meaning, or there is no URI to send the request to.     *)
Abort ==
  /\ phase = "called" /\ (meaning = {} \/ (Serves /\ ~HasUri))
  /\ phase' = "aborted"
  /\ UNCHANGED <<meaning, config, request, sent, answer>>

NotServed ==
  /\ phase = "called" /\ meaning # {} /\ ~Serves
  /\ phase' = "answered" /\ answer' = {not_found}
  /\ UNCHANGED <<meaning, config, request, sent>>

Refuse ==
  /\ phase = "called" /\ Serves /\ HasUri
  /\ \E k \in Effective :
       /\ \A i \in Effective : i < k => CanPass(i)
       /\ \E refusal \in modify_request(config.table[k], request) :
            \E response \in refusal : Answered(response, k - 1)

Contact ==
  /\ phase = "called" /\ Serves /\ HasUri
  /\ \A i \in Effective : CanPass(i)
  /\ phase' = "contacted"
  /\ sent' = {[request EXCEPT !.forwarded =
                 @ \o << (IF @ = <<>> THEN <<>> ELSE @[1]) \o <<Client>> >>]}
  /\ UNCHANGED <<meaning, config, request, answer>>

Reply ==
  /\ phase = "contacted"
  /\ \E response \in BackendResponse \cup {bad_gateway} : Answered(response, Len(config.table))

Next == Abort \/ NotServed \/ Refuse \/ Contact \/ Reply

Spec == Init /\ [][Next]_vars
=============================================================================
