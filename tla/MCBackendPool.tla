---------------------------- MODULE MCBackendPool ---------------------------
(***************************************************************************)
(* Four families of cases: every short text of a matcher, and the longer   *)
(* ones that mean something; every rule with every target; every order of  *)
(* up to three middlewares, with entries that do not convert among them;   *)
(* every short Accept-Encoding.                                            *)
(***************************************************************************)
EXTENDS BackendPool

MCAuthority == {"a", "b"}

MCTarget ==
  [host : {{}, {"a"}, {"b"}, {"?"}}, method : {"GET"}, path : {"/", "/x"}, query : {<<>>}]
    \cup [host : {{"a"}, {"b"}}, method : {"GET", "POST"}, path : {"/x"},
          query : {<<>>, << <<"k", "v">> >>, << <<"k", "v">>, <<"k", "w">> >>}]

MCRule ==
  [t \in {"Host('a')", "Path('/x')", "HostRegexp('a|b')", "PathRegexp('x$')", "Method('GET')",
          "Query('k','v')"} |->
     CASE t = "Host('a')"         -> [kind |-> "Host", value |-> "a"]
       [] t = "Path('/x')"        -> [kind |-> "Path", value |-> "/x"]
       [] t = "HostRegexp('a|b')" -> [kind |-> "HostRegexp", value |-> {"a", "b"}]
       [] t = "PathRegexp('x$')"  -> [kind |-> "PathRegexp", value |-> {"/x"}]
       [] t = "Method('GET')"     -> [kind |-> "Method", value |-> "GET"]
       [] OTHER                   -> [kind |-> "Query", key |-> "k", value |-> "v"]]

(* Responses with and without the two headers, as backends send them.      *)
MCBackendResponse ==
  LET body(coding) == [content |-> "backend", coding |-> coding]
  IN  {[Answer(status, "backend") EXCEPT !.body = body(coding), !.encoding = coding,
                                         !.length = length] :
         status \in {200, 500}, coding \in {{}, {"gzip"}}, length \in {{}}}
       \cup {[Answer(status, "backend") EXCEPT !.length = {body({})}] : status \in {200, 500}}
-----------------------------------------------------------------------------
Request ==
  [target |-> [host |-> {"a"}, method |-> "GET", path |-> "/x", query |-> <<>>],
   scheme |-> "HTTP", authority |-> {}, has_path |-> TRUE, length |-> {}, accept |-> <<>>,
   authorization |-> "none", directory |-> {}, forwarded |-> <<>>, silent |-> {}]

Quality(form, digits) == [form |-> form, digits |-> digits]
Accepts(coding, quality) == [coding |-> coding, qvalue |-> quality]

Entry(name, type, fields) == [name |-> name, type |-> type, fields |-> fields]
Integer(n) == [type |-> "integer", value |-> n]
Str(n) == [type |-> "string", value |-> n]    \* the string of a number
NoFields == [f \in {} |-> {}]

Good ==
  {Entry("Compression", "table", NoFields), Entry("HttpsRedirector", "string", NoFields),
   Entry("RateLimiter", "table", [limit |-> Integer(1), window_sec |-> Integer(0)]),
   Entry("MaxBodySize", "table", [limit |-> Integer(3)]),
   Entry("Authentication", "table",
         [ldap_address |-> Str(0), user_directory |-> Str(0), rdn_identifier |-> Str(0),
          recursive |-> [type |-> "boolean", value |-> TRUE]]),
   Entry("CustomErrorPages", "table",
         [location |-> Str(0),
          errors |-> [type |-> "array", value |-> {Integer(500), Integer(65536 + 401), Str(429)}]])}

Bad ==
  {Entry("RateLimiter", "table", [limit |-> Integer(-1), window_sec |-> Integer(0)]),
   Entry("MaxBodySize", "integer", NoFields), Entry("Authentication", "table", NoFields),
   Entry("CustomErrorPages", "table", [location |-> Str(0)]), Entry("Other", "table", NoFields)}

Distinct(table) == \A i, j \in DOMAIN table : table[i].name = table[j].name => i = j

Tables ==
  {table \in UNION {[1 .. n -> Good] : n \in 0 .. 3} \cup [1 .. 2 -> Good \cup Bad] : Distinct(table)}

(* A request that every middleware lets pass, and ones that differ from it *)
(* in what some middleware looks at, and in who is silent.                 *)
Passing ==
  [Request EXCEPT !.scheme = "HTTPS", !.length = {3}, !.authorization = "basic",
                  !.directory = {<<"denied", "success">>},
                  !.accept = <<Accepts("gzip", Quality("0.", <<5>>)), Accepts("br", Quality("1", <<>>))>>]

Requests ==
  LET one == {Passing, [Passing EXCEPT !.scheme = "HTTP"], [Passing EXCEPT !.length = {4}],
              [Passing EXCEPT !.length = {}, !.accept = <<>>],
              [Passing EXCEPT !.authorization = "none"],
              [Passing EXCEPT !.directory = {<<"denied">>}],
              [Passing EXCEPT !.directory = {<<"error", "success">>}],
              [Passing EXCEPT !.directory = {}]}
  IN  {[r EXCEPT !.silent = silent] : r \in one, silent \in {{}, {"backend"}, {"backend", "directory"}}}

Forwarded == {<<>>, << <<"p">> >>, << <<"p", "q">>, <<"r">> >>}

Config(text, table, cookies) ==
  [text |-> text, table |-> table, schemes |-> {"HTTP", "HTTPS"}, cookies |-> cookies,
   is_authority |-> TRUE]

ChainCases ==
  {[config |-> Config(<<"Host('a')">>, table, <<"backend1">>), request |-> r] :
     table \in Tables, r \in Requests}
-----------------------------------------------------------------------------
MCTokens == {"Host('a')", "Path('/x')", "(", ")", "&&", "||", "space", "Unknown('a')"}

Texts ==
  LET sentences == UNION {{e.text : e \in {e \in Sentences[n] :
                             \A i \in 1 .. n : e.text[i] \in MCTokens \/ n <= 3}} : n \in 1 .. MaxTokens}
  IN  UNION {[1 .. n -> MCTokens] : n \in 0 .. 4} \cup sentences
        \cup {SubSeq(text, 1, i) \o <<"space">> \o SubSeq(text, i + 1, Len(text)) :
                <<text, i>> \in {<<text, i>> \in sentences \X (0 .. MaxTokens) : i <= Len(text)}}

TextCases == {[config |-> Config(text, <<>>, <<>>), request |-> Request] : text \in Texts}

(* Every kind of rule, alone, and every target; requests without a path,   *)
(* and a backend whose address is no authority.                            *)
RoutingCases ==
  {[config |-> [Config(<<rule>>, <<Entry("HttpsRedirector", "table", NoFields)>>, <<>>)
                  EXCEPT !.schemes = {"HTTP"}, !.is_authority = is_authority],
    request |-> [Request EXCEPT !.target = target, !.has_path = has_path,
                                !.scheme = scheme, !.authority = authority]] :
     rule \in DOMAIN MCRule, target \in Target, has_path \in BOOLEAN, is_authority \in BOOLEAN,
     scheme \in {"HTTP", "HTTPS"}, authority \in {{}, {"b"}}}

Qualities ==
  {Quality("1", <<>>), Quality("0.", <<5>>), Quality("0.", <<4, 9>>), Quality("0.", <<0, 0, 0>>),
   Quality("0.", <<5, 0, 0, 0>>), Quality("other", <<>>)}

AcceptCases ==
  {[config |-> Config(<<"Host('a')">>, <<Entry("Compression", "table", NoFields)>>, <<>>),
    request |-> [Request EXCEPT !.accept = accept, !.forwarded = forwarded]] :
     accept \in UNION {[1 .. n -> {Accepts(c, q) : c \in {"br", "gzip", "*"}, q \in Qualities}] :
                         n \in 0 .. 2}
          \cup [1 .. 3 -> {Accepts(c, q) : c \in {"br", "deflate"},
                                           q \in {Quality("1", <<>>), Quality("0.", <<5>>)}}],
     forwarded \in Forwarded}

MCCases == ChainCases \cup TextCases \cup RoutingCases \cup AcceptCases
=============================================================================
