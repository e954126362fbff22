---------------------------- MODULE Middlewares -----------------------------
(***************************************************************************)
(* The middlewares: how the entries of a pool's table become a chain, and  *)
(* what each middleware does to a request and to a response.  None of them *)
(* changes the request: modify_request either lets it pass, {}, or answers *)
(* it, {response}.                                                         *)
(*                                                                         *)
(* An entry of the table has a name, the type of its value, and if that is *)
(* a table the fields in it.  A response has a status, the headers         *)
(* Content-Encoding, Content-Length, Location and Set-Cookie, and a body   *)
(* that knows which content it carries under which coding; Content-Length  *)
(* is the body that was measured.  Optional headers are sets of none or    *)
(* one.                                                                    *)
(***************************************************************************)
EXTENDS Integers, Sequences

CONSTANTS
  Authority    \* the Host headers that convert to an Authority

Body(content) == [content |-> content, coding |-> {}]

(* The answers of the balancer itself.                                     *)
Answer(status, content) ==
  [status |-> status, encoding |-> {}, length |-> {}, location |-> {}, cookies |-> <<>>,
   body |-> Body(content)]

bad_gateway == Answer(502, "empty")
not_found == Answer(404, "text")
-----------------------------------------------------------------------------
(* TryFrom<(String, Value)>: whether an entry converts to a middleware.    *)
Converts(entry) ==
  LET Has(field, type) == field \in DOMAIN entry.fields /\ entry.fields[field].type = type
      Unsigned(field) == Has(field, "integer") /\ entry.fields[field].value >= 0
  IN  \/ entry.name \in {"Compression", "HttpsRedirector"}
      \/ /\ entry.type = "table"
         /\ \/ entry.name = "RateLimiter" /\ Unsigned("limit") /\ Unsigned("window_sec")
            \/ /\ entry.name = "Authentication" /\ Has("recursive", "boolean")
               /\ \A field \in {"ldap_address", "user_directory", "rdn_identifier"} :
                    Has(field, "string")
            \/ entry.name = "MaxBodySize" /\ Has("limit", "integer")
            \/ entry.name = "CustomErrorPages" /\ Has("location", "string") /\ Has("errors", "array")

(* From<Table>: the chain grows at its front, from the table's end; here   *)
(* as it is once the entries from a position on are in it.                 *)
ChainFrom(table) ==
  LET chain[i \in 1 .. Len(table) + 1] ==
        IF i = Len(table) + 1 THEN <<>>
        ELSE IF Converts(table[i]) THEN <<table[i]>> \o chain[i + 1] ELSE chain[i + 1]
  IN  chain

MiddlewareChain(table) == ChainFrom(table)[1]
-----------------------------------------------------------------------------
parse_host_header(request) == request.target.host \cap Authority

(* Its internal_server_error answers are never given: backend_uri has      *)
(* unwrapped the path before, and the other parts of the URI are valid.    *)
HttpsRedirector(request) ==
  IF request.scheme # "HTTP" THEN {}
  ELSE IF parse_host_header(request) = {} THEN {Answer(400, "text")}
  ELSE {[Answer(301, "empty") EXCEPT
           !.location = {<<IF request.authority # {} THEN request.authority
                           ELSE parse_host_header(request), request.target.path>>}]}

MaxBodySize(limit, request) ==
  {Answer(413, "empty") : length \in {length \in request.length : length > limit}}

(* check_user_credentials: the directory fails, or finds entries to which  *)
(* it lets the user bind, or not, or fails.  The first success decides.    *)
check_user_credentials(directory) ==
  \E binds \in directory : \E i \in DOMAIN binds :
    binds[i] = "success" /\ \A j \in 1 .. i - 1 : binds[j] = "denied"

Authentication(request) ==
  IF request.authorization = "basic" /\ check_user_credentials(request.directory) THEN {}
  ELSE {Answer(401, "empty")}

(* Every outcome of modify_request.  What a RateLimiter decides depends on *)
(* the requests before.                                                    *)
modify_request(middleware, request) ==
  CASE middleware.name = "RateLimiter"     -> {{}, {Answer(429, "text")}}
    [] middleware.name = "Authentication"  -> {Authentication(request)}
    [] middleware.name = "HttpsRedirector" -> {HttpsRedirector(request)}
    [] middleware.name = "MaxBodySize"     ->
         {MaxBodySize(middleware.fields["limit"].value, request)}
    [] OTHER -> {{}}
-----------------------------------------------------------------------------
(* parse_qvalue: 1, or 0. with up to three digits, which {:0<3} pads.      *)
parse_qvalue(qvalue) ==
  LET digit(i) == IF i <= Len(qvalue.digits) THEN qvalue.digits[i] ELSE 0
      number[i \in 0 .. 3] == IF i = 0 THEN 0 ELSE number[i - 1] * 10 + digit(i)
  IN  CASE qvalue.form = "1" -> {1000}
        [] qvalue.form = "0." /\ Len(qvalue.digits) <= 3 -> {number[3]} \ {0}
        [] OTHER -> {}

(* Mutated: codings the balancer does not know are taken.                  *)
parse_any_encoding_and_qvalue(it) ==
  {[coding |-> it.coding, qvalue |-> qvalue] : qvalue \in parse_qvalue(it.qvalue)}

parse_encoding_and_qvalue(it) ==
  {[coding |-> it.coding, qvalue |-> qvalue] :
     qvalue \in IF it.coding \in {"br", "deflate", "gzip"} THEN parse_qvalue(it.qvalue) ELSE {}}

(* max_by_key, which returns the last maximum, over the reversed list:     *)
(* what it has found once it has seen the entries from a position on.      *)
max_by_key(accept) ==
  LET best[i \in 1 .. Len(accept) + 1] ==
        IF i = Len(accept) + 1 THEN {}
        ELSE IF \E it \in parse_encoding_and_qvalue(accept[i]) :
                  \A max \in best[i + 1] : it.qvalue >= max.qvalue
        THEN parse_encoding_and_qvalue(accept[i]) ELSE best[i + 1]
  IN  best

get_preferred_encoding(accept) == {max.coding : max \in max_by_key(accept)[1]}

(* Mutated: the length of the body that was compressed is kept.            *)
compress_response_keeps_length(response, encoding) ==
  [response EXCEPT !.body.coding = @ \cup encoding, !.encoding = encoding]

compress_response(response, encoding) ==
  [response EXCEPT !.body.coding = @ \cup encoding, !.encoding = encoding, !.length = {}]

(* TryFrom<Table>: the integers of the array, as u16.                      *)
errors(middleware) ==
  {error.value % 65536 : error \in {error \in middleware.fields["errors"].value :
                                      error.type = "integer"}}

(* replace_response: the page in a file, or the canonical text if there is *)
(* no such file.                                                           *)
replace_response(response) ==
  {[response EXCEPT !.body = Body(content), !.length = {}, !.encoding = {}] :
     content \in {"page", "canonical"}}

(* Every outcome of modify_response, and of what Compression does with the *)
(* encoding it chose before it forwarded the request.                      *)
modify_response(middleware, encoding, response) ==
  CASE middleware.name = "Compression" /\ encoding # {} /\ response.encoding = {} ->
         {compress_response(response, encoding)}
    [] middleware.name = "CustomErrorPages" /\ response.status \in errors(middleware) ->
         replace_response(response)
    [] OTHER -> {response}
=============================================================================
