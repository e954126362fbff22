------------------------- MODULE BackendPoolMatcher -------------------------
(***************************************************************************)
(* The matcher of a backend pool: the parser that turns the text of the    *)
(* configuration into a BackendPoolMatcher, and which requests that one is *)
(* satisfied by.  A text is a sequence of tokens: the operators, the       *)
(* parentheses, "space", and rules like "Host('a')", whose characters the  *)
(* parser reads without any choice.  A token that is none of these stands  *)
(* for what no alternative accepts: an unknown name, a string that is not  *)
(* closed, a regular expression or a method that does not convert.         *)
(*                                                                         *)
(* A matcher is the set of the targets it is satisfied by.  A target is    *)
(* what matches() looks at in a request; its host, an Option, is a set of  *)
(* none or one, and a regular expression is the set of texts it matches.   *)
(***************************************************************************)
EXTENDS Integers, Sequences

CONSTANTS
  Target,      \* records with the fields host, method, path, query
  Rule,        \* the tokens that are rules, and what each says
  MaxTokens    \* bound: the longest texts, without spaces, of the grammar

(* What the parser takes for an operator, a parenthesis or a space is not  *)
(* the beginning of a rule.                                                *)
ASSUME MatcherAssumption ==
  MaxTokens \in Nat /\ DOMAIN Rule \cap {"(", ")", "&&", "||", "space"} = {}

IsSequence(s) == s \in Seq({s[i] : i \in DOMAIN s})

(* The value that a HashMap of the query's pairs has for a key: the last.  *)
QueryValue(query, key) ==
  {query[i][2] : i \in {i \in DOMAIN query : query[i][1] = key /\
                          \A j \in DOMAIN query : query[j][1] = key => j <= i}}

Satisfies(target, rule) ==
  CASE rule.kind = "Host"       -> target.host = {rule.value}
    [] rule.kind = "HostRegexp" -> \E h \in target.host : h \in rule.value
    [] rule.kind = "Method"     -> target.method = rule.value
    [] rule.kind = "Path"       -> target.path = rule.value
    [] rule.kind = "PathRegexp" -> target.path \in rule.value
    [] rule.kind = "Query"      -> QueryValue(target.query, rule.key) = {rule.value}

matches(rule) == {target \in Target : Satisfies(target, rule)}

(* The combinators And and Or.                                             *)
Combine(operator, left, right) == IF operator = "&&" THEN left \cap right ELSE left \cup right

(* Mutated: an alternative that began to match is not taken back.          *)
ElseNoBacktracking(first, second) == first

(* pom's p | q: the second alternative only if the first one fails.        *)
Else(first, second) == IF first # {} THEN first ELSE second

(* Whether a token stands at a position of the text.                       *)
At(text, i, token) == i <= Len(text) /\ text[i] = token

(* space(): from each position, the first one that has no space.           *)
space(text) ==
  LET skip[i \in 1 .. Len(text) + 1] == IF At(text, i, "space") THEN skip[i + 1] ELSE i
  IN  skip

(* The functions of the parser, at a position of the text, from the        *)
(* results of value() at each position.  A result is what was parsed and   *)
(* the position behind it; a failure is the empty set.                     *)
chained(text, values, operator, i) ==
  UNION {{[matcher |-> Combine(operator, left.matcher, right.matcher), next |-> right.next] :
            right \in values[space(text)[space(text)[left.next] + 1]]} :
           left \in {left \in values[i] : At(text, space(text)[left.next], operator)}}

chained_expression(text, values, i) ==
  Else(chained(text, values, "&&", i), chained(text, values, "||", i))

top_level_expression(text, values, i) == Else(chained_expression(text, values, i), values[i])

parenthesized(text, values, i) ==
  {[matcher |-> r.matcher, next |-> space(text)[r.next] + 1] :
     r \in {r \in top_level_expression(text, values, space(text)[i + 1]) :
              At(text, space(text)[r.next], ")")}}

value(text) ==
  LET values[i \in 1 .. Len(text) + 1] ==
        CASE i <= Len(text) /\ text[i] \in DOMAIN Rule ->
               {[matcher |-> matches(Rule[text[i]]), next |-> i + 1]}
          [] At(text, i, "(") -> parenthesized(text, values, i)
          [] OTHER -> {}
  IN  values

parser(text) ==
  {r.matcher : r \in {r \in top_level_expression(text, value(text), space(text)[1]) :
                        r.next = Len(text) + 1}}
-----------------------------------------------------------------------------
(* What texts mean, as a grammar that generates the sentences of a length  *)
(* instead of reading them, spaces left out.  Values[n] is for n tokens.   *)
Parenthesis(e) == [text |-> <<"(">> \o e.text \o <<")">>, matcher |-> e.matcher]

Chain(operator, l, r) ==
  [text |-> l.text \o <<operator>> \o r.text, matcher |-> Combine(operator, l.matcher, r.matcher)]

Chains(values, n) ==
  UNION {{Chain(operator, l, r) :
            l \in values[k], r \in values[n - 1 - k], operator \in {"&&", "||"}} : k \in 1 .. n - 2}

Values[n \in 0 .. MaxTokens] ==
  CASE n = 1 -> {[text |-> <<token>>, matcher |-> matches(Rule[token])] : token \in DOMAIN Rule}
    [] n > 2 -> {Parenthesis(e) : e \in Values[n - 2] \cup Chains(Values, n - 2)}
    [] OTHER -> {}

Sentences == [n \in 0 .. MaxTokens |-> Values[n] \cup Chains(Values, n)]

(* The text from each position on, without its spaces.                     *)
Unspaced(text) ==
  LET tokens[i \in 1 .. Len(text) + 1] ==
        IF i = Len(text) + 1 THEN <<>>
        ELSE IF text[i] = "space" THEN tokens[i + 1] ELSE <<text[i]>> \o tokens[i + 1]
  IN  tokens

(* Spaces may stand between any two tokens and in front, not behind.       *)
Tokens(text) == IF text # <<>> /\ text[Len(text)] = "space" THEN {} ELSE {Unspaced(text)[1]}

(* The matcher a text describes, if it does.                               *)
Meaning(text) ==
  UNION {{e.matcher : e \in {e \in Sentences[Len(tokens)] : e.text = tokens}} : tokens \in Tokens(text)}
=============================================================================
