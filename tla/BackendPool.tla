----------------------------- MODULE BackendPool ----------------------------
(***************************************************************************)
(* A backend pool at work on a request: it is built from its part of the   *)
(* configuration, the request runs down the chain of middlewares, to the   *)
(* backend if all let it pass, and the response runs up again, through the *)
(* RequestForwarder of the strategy last.  Each middleware awaits the rest *)
(* of the chain, so the position in the chain is the depth of the stack of *)
(* forward_request calls.  LDAP directory and backend are awaited without  *)
(* a timeout, and may be silent.                                           *)
(***************************************************************************)
EXTENDS BackendPoolMatcher, Middlewares

CONSTANTS
  Client,            \* the address of the client
  BackendResponse,   \* what backends answer
  Cases              \* the configurations and requests: [config, request]

(* A response is a record of these fields, and so is its body.             *)
IsResponse(r) ==
  /\ r = [status |-> r.status, encoding |-> r.encoding, length |-> r.length,
          location |-> r.location, cookies |-> r.cookies, body |-> r.body]
  /\ r.body = [content |-> r.body.content, coding |-> r.body.coding]

(* Content-Encoding is the coding of the body, and Content-Length, if      *)
(* there is one, was measured on this body.                                *)
DescribesBody(r) == r.encoding = r.body.coding /\ r.length \subseteq {r.body}

(* Backends describe the bodies they send.  What a client writes behind    *)
(* "0." is digits, or else the form of the value is another one.  Texts    *)
(* are within the bound of the grammar.                                    *)
ASSUME PoolAssumption ==
  /\ Client \in STRING
  /\ \A r \in BackendResponse : IsResponse(r) /\ DescribesBody(r)
  /\ \A case \in Cases :
       /\ IsSequence(case.config.table) /\ IsSequence(case.config.text)
       /\ Len(Unspaced(case.config.text)[1]) <= MaxTokens
       /\ case.request.accept \in
            Seq([coding : STRING, qvalue : [form : STRING, digits : Seq(0 .. 9)]])
       /\ case.request.forwarded \in Seq(Seq(STRING))

VARIABLES
  config,      \* text of the matcher, table of the middlewares, schemes, the
               \* cookies that the strategy's response_mapper will set, and
               \* whether the address the strategy selects is an authority
  request,     \* the request, and who is silent while it is handled
  matcher,     \* BackendPool::matcher, once the pool is built
  chain,       \* BackendPool::chain
  pc,          \* where the handling of the request is
  pos,         \* the position in the chain of the middleware at work
  encoding,    \* what Compression::forward_request holds while it awaits
  sent,        \* the request the backend got
  response     \* the response on its way up

vars == <<config, request, matcher, chain, pc, pos, encoding, sent, response>>

Init ==
  /\ \E case \in Cases : config = case.config /\ request = case.request
  /\ matcher = {} /\ chain = <<>>
  /\ pc = "configuring" /\ pos = 0
  /\ encoding = {} /\ sent = {} /\ response = {}

(* From<BackendPoolConfig>: a text that does not parse is unwrapped.       *)
BuildPool ==
  /\ pc = "configuring"
  /\ matcher' = parser(config.text)
  /\ chain' = MiddlewareChain(config.table)
  /\ pc' = IF matcher' = {} THEN "panicked" ELSE "ready"
  /\ UNCHANGED <<config, request, pos, encoding, sent, response>>

(* forward_request_to_backend starts with backend_uri, which unwraps the   *)
(* path of the request and the URI built from the backend's address.       *)
backend_uri == IF request.has_path /\ config.is_authority THEN "down" ELSE "panicked"

(* MainService::call up to the chain, with an address that works.          *)
Call ==
  /\ pc = "ready"
  /\ IF request.scheme \in config.schemes /\ \E m \in matcher : request.target \in m
     THEN /\ pc' = backend_uri
          /\ pos' = 1 /\ UNCHANGED response
     ELSE pc' = "answered" /\ response' = {not_found} /\ UNCHANGED pos
  /\ UNCHANGED <<config, request, matcher, chain, encoding, sent>>

Middleware == chain[pos]

(* Mutated: the directory is asked also when there are no credentials.     *)
AwaitsDirectoryAlways == Middleware.name = "Authentication" /\ "directory" \in request.silent

(* user_authentication asks the directory, which does not answer.          *)
AwaitsDirectory ==
  /\ Middleware.name = "Authentication" /\ request.authorization = "basic"
  /\ "directory" \in request.silent

(* Mutated: an early response of a middleware is the client's answer.      *)
ForwardRequestAnswersAtOnce ==
  /\ pc = "down" /\ pos <= Len(chain) /\ ~AwaitsDirectory
  /\ \E early \in modify_request(Middleware, request) :
       IF early = {}
       THEN pos' = pos + 1 /\ UNCHANGED <<pc, response>>
       ELSE pc' = "up" /\ pos' = 0 /\ response' = early
  /\ encoding' = IF Middleware.name = "Compression" THEN get_preferred_encoding(request.accept)
                 ELSE encoding
  /\ UNCHANGED <<config, request, matcher, chain, sent>>

(* Middleware::forward_request down to the await of the rest of the chain. *)
ForwardRequest ==
  /\ pc = "down" /\ pos <= Len(chain) /\ ~AwaitsDirectory
  /\ \E early \in modify_request(Middleware, request) :
       IF early = {}
       THEN pos' = pos + 1 /\ UNCHANGED <<pc, response>>
       ELSE pc' = "up" /\ pos' = pos - 1 /\ response' = early
  /\ encoding' = IF Middleware.name = "Compression" THEN get_preferred_encoding(request.accept)
                 ELSE encoding
  /\ UNCHANGED <<config, request, matcher, chain, sent>>

(* backend_request: the headers of the request, and one more value.        *)
forwarded_for_header(existing) == IF existing = <<>> THEN <<Client>> ELSE Append(existing[1], Client)
backend_request == [request EXCEPT !.forwarded = Append(@, forwarded_for_header(@))]

SendRequest ==
  /\ pc = "down" /\ pos > Len(chain)
  /\ pc' = "backend" /\ sent' = {backend_request}
  /\ UNCHANGED <<config, request, matcher, chain, pos, encoding, response>>

(* The client returns a response, or an error.                             *)
BackendAnswers ==
  /\ pc = "backend" /\ "backend" \notin request.silent
  /\ \E r \in BackendResponse \cup {bad_gateway} : response' = {r}
  /\ pc' = "up" /\ pos' = Len(chain)
  /\ UNCHANGED <<config, request, matcher, chain, encoding, sent>>

(* Mutated: no response is handed on, because the position stays.          *)
ModifyResponseStays ==
  /\ pc = "up" /\ pos > 0
  /\ \E before \in response : \E after \in modify_response(Middleware, encoding, before) :
       response' = {after}
  /\ UNCHANGED <<config, request, matcher, chain, pc, pos, encoding, sent>>

(* The await returns, to the end of Middleware::forward_request.           *)
ModifyResponse ==
  /\ pc = "up" /\ pos > 0
  /\ \E before \in response : \E after \in modify_response(Middleware, encoding, before) :
       response' = {after}
  /\ pos' = pos - 1
  /\ UNCHANGED <<config, request, matcher, chain, pc, encoding, sent>>

(* RequestForwarder::modify_response.                                      *)
Respond ==
  /\ pc = "up" /\ pos = 0
  /\ \E r \in response : response' = {[r EXCEPT !.cookies = @ \o config.cookies]}
  /\ pc' = "answered"
  /\ UNCHANGED <<config, request, matcher, chain, pos, encoding, sent>>

Next ==
  BuildPool \/ Call \/ ForwardRequest \/ SendRequest \/ BackendAnswers \/ ModifyResponse \/ Respond

Spec == Init /\ [][Next]_vars

(* The runtime polls the task; who is silent is not waited for in vain     *)
(* because the step that waits is disabled.                                *)
FairSpec == Spec /\ WF_vars(Next)
-----------------------------------------------------------------------------
TypeOK ==
  /\ pc \in {"configuring", "ready", "down", "backend", "up", "answered", "panicked"}
  /\ matcher \subseteq SUBSET Target
  /\ pos \in 0 .. Len(chain) + 1
  /\ encoding \subseteq {"br", "deflate", "gzip"}
  /\ Len(chain) <= Len(config.table)

(* A text is accepted exactly if the grammar generates it, and then it     *)
(* matches the requests that the grammar says, whatever alternatives the   *)
(* parser had tried and given up before.                                   *)
ParsesAsGenerated == pc # "configuring" => matcher = Meaning(config.text)

(* The headers describe the body they are sent with, after every rewriting *)
(* and whatever the backend had set.                                       *)
HeadersDescribeBody == \A r \in response : DescribesBody(r)

Contract == INSTANCE ForwardingContract WITH
  meaning <- Meaning(config.text),
  phase   <- CASE pc = "answered" -> "answered"
               [] pc = "panicked" -> "aborted"
               [] OTHER -> IF sent = {} THEN "called" ELSE "contacted",
  answer  <- IF pc = "answered" THEN response ELSE {}

(* The chain that runs down and up again keeps the promise of the pool.    *)
ImplementsContract == Contract!Spec

(* How many steps the request may still need, by the length of the table.  *)
StepsLeft ==
  LET n == Len(config.table) IN
  CASE pc = "configuring" -> n + n + 5
    [] pc = "ready"       -> n + n + 4
    [] pc = "down"        -> n + 3 + (Len(chain) + 1 - pos)
    [] pc = "backend"     -> n + 2
    [] pc = "up"          -> pos + 1
    [] OTHER              -> 0

(* A request goes through the chain once, down to where it is answered and *)
(* up from there: each step brings it closer to its end, so that nothing   *)
(* but a silent directory or backend can keep it for ever.                 *)
ChainMovesOn == [][StepsLeft' \in 0 .. StepsLeft - 1]_vars

(* Whether a request can come to wait for somebody silent, judged by the   *)
(* configuration: the directory, if nobody in front of Authentication must *)
(* answer; the backend, if nobody must.                                    *)
MayWaitInVain ==
  LET table == SelectSeq(config.table, Converts)
      Reaches(k) == \A i \in 1 .. k - 1 : {} \in modify_request(table[i], request)
  IN  \/ "backend" \in request.silent /\ Reaches(Len(table) + 1)
      \/ /\ "directory" \in request.silent /\ request.authorization = "basic"
         /\ \E k \in DOMAIN table : table[k].name = "Authentication" /\ Reaches(k)

(* A request is answered, or its task panics, unless it may have to wait   *)
(* for a silent backend or directory: a redirect, a refusal and a request  *)
(* without credentials need neither of them.                               *)
AnsweredUnlessSilent == ~MayWaitInVain ~> pc \in {"answered", "panicked"}
=============================================================================
