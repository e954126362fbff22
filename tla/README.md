# A TLA+ verification of another-rust-load-balancer

TLA+ modules for the parts of the load balancer in which several things happen
at once, TLC configurations that check them on small instances, and TLAPS proofs
of the main safety properties for all instances. `PROJECT.json` lists every
run, the source lines behind every definition, a mutation for every property,
the hazards and the findings.

## The system

`main` builds the configuration and then runs four futures in one task with
`try_join!`, polled in this order: `watch_config`, `watch_health`, the HTTP
listener, the HTTPS listener. hyper spawns a task per client connection, which
runs on any thread of tokio's pool. Everything is tied together by one
`ArcSwap<RuntimeConfig>`.

| part | state | operations | interacts with |
|---|---|---|---|
| running configuration (`configuration.rs`, `server.rs`) | the `ArcSwap`, and one `ArcSwap<Healthiness>` cell per address of every pool | load, store | all others |
| health checks (`health.rs`) | where the loop is, checks in flight | read the interval, start a round, finish a check, tick | cells, reloads, servers |
| `MainService` (`server.rs`) | per request: pool, working addresses, selected address | find the pool, two passes over the cells, early 502, strategy, forward | cells, reloads, strategy, chain |
| LeastConnection (`least_connection.rs`, `http_client.rs`) | counters behind an `RwLock`; the streams | open, close, select | hyper's client, health filter |
| RoundRobin (`round_robin.rs`) | counter behind a `Mutex` | select | health filter |
| StickyCookie, IPHash, Random | none of their own | select | inner strategy |
| RateLimiter (`rate_limiter.rs`) | `LinkedHashMap` behind a tokio `Mutex` | register a request | clock, other clients |
| other middlewares, chain (`middleware/`) | none | modify request, modify response, answer | each other in order |
| configuration watcher (`configuration.rs`) | debouncer, mpsc channel, watch channel, seen version | forward an event, look, read, store | file, ACME, `ArcSwap` |
| ACME (`acme.rs`) | published challenges, channel, thread | order, publish, remove, answer | ACME server, listener, reload |
| listeners, TLS (`listeners.rs`, `tls.rs`) | none besides the sockets | accept, handshake, look up a certificate | configuration |
| matcher (`backend_pool_matcher.rs`) | none | parse, match | reload, pool lookup |

What makes it hard: the cells are read without a lock while checks write them;
requests and health rounds keep working on a configuration that has been
replaced; the strategies remember addresses that the health filter hides from
them; the watch channel keeps only one event; a reload may await an ACME server
that itself has to reach this process. The hazards in `PROJECT.json` name each
at its line.

## The modules

**The core**: `RuntimeConfig` holds what is shared, `Health` and `Server` extend
it, and `LoadBalancer` composes them.

* `RuntimeConfig`. A reload never changes a `RuntimeConfig`; it stores another
  one. `loaded[g]` is what generation *g* was built from, `Len(loaded)` is the
  one in force, and `<<g, p, i>>` names the cell of address *i* of pool *p*.
  Old generations stay, because requests and rounds still hold them.
* `Health`. One action per stretch of `watch_health` between awaits:
  `LoadInterval`, `SleepOver`, `StartChecks` (first tick, pools loaded, the old
  value of every cell loaded), `FinishCheck(c)`, `SecondTick`. How a server
  behaves is environment: time to connect, time to respond, kind of answer.
  `ClientGet` is hyper's client with the timeouts as the code sets them. The
  numbers in `Slow(ms)` and `Unresponsive(status)` are abstracted: nobody but
  the comparison before a store looks at them.
* `Server`. `MainService::call` and the future it returns. Each load of a cell
  is an action of its own (`LoadHealthiness`), since other threads may write
  between any two. `seen` is a history variable: the values that each cell of a
  request's pool has had since the pool was found, and the mark "Recovered" if it
  was Slow and later Healthy. The strategy is any choice among the collected
  addresses; a middleware may answer at any time.
* `LoadBalancer`. All interleavings of requests, health loop, reloads and
  changes of the servers. A backend that stays silent is waited for without a
  timeout, as in the code.

`HealthFilter` is the abstract specification of the two passes: a request arrives
at its pool, cells change, and in one step the request is offered addresses
(`Offer`) or refused (`Refuse`), as far as the histories of the cells justify it.
`LoadBalancer` implements it (`ImplementsHealthFilter`) under the mapping `cells` =
the healthiness cells, `phase` = `pc`, `history` = `seen`, `offered` = the
collected addresses once they are handed to the strategy, `refused` = the
requests that got the early 502. Reads of a cell, the turn to the second pass,
the loop of the health watcher and changes of the servers are stuttering steps.

**Strategies**: `LeastConnection` has the counters together with the streams
that drive them. Connects end or fail late and streams are dropped in any
order; each request is offered any non-empty part of the pool. A panic of
`select_backend` is an action of its own. The counters are `usize`, modulo
`UsizeModulus`. The core does not include these panics. `RoundRobin` has the
counter, and every request brings any list of working addresses. `StickyCookie`
has the operators of that strategy. `StickySession` composes it with
`RoundRobin`, `IPHash` or `Random` and with a browser that has several requests
under way: responses come in any order or are lost, and since the cookie is set
without a Path the browser keeps one for every directory and sends the nearest
first. `StickyLeastConnection` composes it with `LeastConnection`; its connects
and drops do not reach the counters.

**Middleware**: `RateLimiter` has the queue at the mutex and the map with its
insertion order as a stamp. Reading the clock and all that follows is one
action, as there is no await after the lock. A call that waits may be dropped
with its connection. The key is the client's `SocketAddr`, port included, so a
"client" is one client connection. `sent` is the history of requests and
verdicts.

**A pool and its chain**: `BackendPoolMatcher` has the parser and
`matches`. A text is a sequence of tokens, spaces among them. There is one
operator per function of the parser, the choices are ordered as pom's `|` is,
and `value`, which calls itself, is a recursive function of the position. Beside
it stand `Sentences` and `Meaning`, which generate the texts of the grammar with
what they mean and know no order and no spaces. `Middlewares` has the decisions of the
middlewares as operators: the conversion of a table entry, `modify_request` (the
set of outcomes: pass, or an early response) and `modify_response`. A body is
known by its content and coding, `Content-Length` by the body it was measured
on. Iterators that run from the end of a list (`From<Table>`, the reversed list of
codings) are recursive functions of the position, too. `BackendPool` builds a pool from its configuration and takes a request down
the chain, to the backend and up again. The position in the chain is the depth
of nested `forward_request` calls. `backend_uri` panics for a request without a path and
for an address that is no authority. RateLimiter's verdict is any here; its state
is the subject of `RateLimiter`.

`ForwardingContract` is the abstract specification: who answers a request, what
the backend sees, and who rewrites the answer, by quantifiers over the configured
table. `BackendPool` implements it (`ImplementsContract`) under the mapping
`meaning` = what the grammar says of the text (not what the parser made of it),
`phase` = called until a request is sent, contacted until the answer, then
answered or aborted, `answer` = the response once it is final. The steps down and
up the chain are stuttering steps of the contract, except the last one.
The contract shares the decision of a single middleware with `Middlewares`, since
that is data to it; the choice of a coding it states on its own.

**Reloading**: `ConfigWatch` goes from a change of the file, through notify's
debouncer (external), the thread and the watch channel, to the reload. The
borrow of the channel's value lives through the whole reload and keeps the
thread from sending (`Borrowed`). What a file's content leads to is its
`Kind`: stored, stored after an await for ACME certificates, rejected, or a
panic. `missed` is a history variable, see below. `Acme` has the reload's loop
over its domains, the thread of an order, the channel between them, the
published challenges and the ACME server's question, which may come at any time
while an order is validated, even before the token is published or the listener
runs.

**The main task**: `Listeners` composes `Acme` with the two accept loops, which are
futures of the same task: they are polled when `watch_config` is suspended. HTTP
connections are handed on at once, HTTPS ones after their TLS handshake, one at
a time. Clients connect, leave at any time, also before their connection is
accepted, and may stop in the handshake. A bind or accept that fails ends the
process, and so does the `expect` of `server::create` on a client that has reset
its connection; one that has closed it in order still has an address, so a client
that has left may be either. The
names that have certificates change at the end of a reload, and the resolver
looks at the current ones. `watch_health` is left out: it awaits at every step.

`MC...` modules hold the small instances; `...Proofs` modules hold the theorems
(`StickySessionProofs` has those about `RoundRobin`, too, and `ListenersProofs` those
about `Acme`).
Definitions that begin with "Mutated:" in their comment are variants with a
plausible mistake. They are not part of any specification; each shows that a
property would notice.

## What TLC checks

| run | instance | shows |
|---|---|---|
| `requests` | one pool of two addresses, one client, three behaviours of servers (fast, slow with both waits at the timeout, failing); 596,538 states | `TypeOK`; a 502 before the strategy, a use of a Slow address and a selection are justified by what the cells were during the scan (`NoFalseBadGateway`, `SelectionJustified`), and on cells that did not change the scan is exact; the two passes implement `HealthFilter`; every step of a scan leaves less of it (`ScanGoesForward`) |
| `liveness` | a pool that is checked and a configuration that switches checks off, two generations, one client, four behaviours; 194,024 states | `NoLostHealthUpdate`; a cell shows the verdict of its last check and changes by nothing else (`CellsShowLastVerdict`); `HealthConverges`, `DeadServersEventuallyAvoided` (also by requests that hold an old pool), `DisabledChecksEventuallyStop`, `RequestsGetPastTheFilter` |
| `least_connection` | three addresses, up to two streams each; 11,967 states | counters are live streams; while no tracked address is hidden, the least loaded is selected and nothing panics |
| `rate_limiter` | two clients, limit 1, window 1 s of two ticks, 6 ticks, 5 requests, counter saturating at 2; 849,869 states | requests that follow a pause in the same rhythm get the same verdicts, whoever sends them and whatever others send, and the first ones up to the limit pass (`VerdictsFromOwnRequests`), the limit holds in every window, no expired entry stays |
| `sticky_cookie` | three addresses in four combinations, three inner strategies, two requests at a time, two directories; 239,648 states | RoundRobin's index is in range and an unchanged list is served in turn (`TypeOK`, `EachOncePerTurn`); no request goes to an address that does not work, whatever its cookie says (`ForwardedToWorking`); once the addresses stay, the cookies do (`SessionsSettle`) |
| `config_watch` | four contents, three edits, two other events; 46,302 states | a change is not forgotten, and it is applied in the end |
| `listeners` | two ACME domains, up to two challenges an order, one HTTP and two HTTPS clients; 59,456 states | one challenge at a time, published while it may be asked for, none left over, the thread always reports (`ChallengesAreRemoved`, `PublishedWhileValidating`, `ResultIsAwaited`); names get certificates all or none (`CertificatesWereObtained`); reloads end, HTTP is accepted, HTTPS waits for hanging handshakes only |
| `backend_pool` | 14,686 cases in four families: matcher texts, tables of up to three middlewares, kinds of rules and targets, Accept-Encoding headers; 137,327 states | the parser accepts what the grammar generates with its meaning (`ParsesAsGenerated`); headers describe the body after every rewriting (`HeadersDescribeBody`); the chain implements `ForwardingContract`; every step brings the request closer to its end (`ChainMovesOn`); a request is answered unless it may have to wait for somebody silent (`AnsweredUnlessSilent`) |

Four runs show that the code does something other than a comment or document
says. Each has an entry under "findings".

| run | what happens |
|---|---|
| `false_bad_gateway` | an address that turns from Slow to Healthy between the passes is found by neither: 502 although every server works |
| `least_connection_panic` | an address with the fewest connections is hidden by its health: `unwrap` panics |
| `sticky_least_connection` | LeastConnection inside StickyCookie hears of no connection, and selects an address that has more than another |
| `config_watch_panic` | a matcher that does not parse ends the process instead of the reload |

Other differences met while modelling, which no run shows: a reload makes every
address Healthy, so dead servers are used until the next round
(`docs/health_checks.md:20`); a round that has read its interval still checks the
pools of a configuration that switches checks off (`health_checks.md:51`); the
timeout bounds every wait of a check, not the check (`health_checks.md:30`);
LeastConnection finds unused addresses by comparing sizes, so it can pass over
one; `watch_config` orders ACME certificates in its first poll, before the
listener's (`configuration.rs:42` says they are not initialized before it runs);
a change of the file is lost before the watch is set up, or when
another event replaces its Write in the channel unseen. The last two losses are
what `missed` records: `ChangesAreNotForgotten` and `ChangesAreApplied` say
there are no others. RateLimiter restarts its window with every request, so that
a steady client below the limit is rejected in the end (`docs/middlewares.md:65`
speaks of messages within the window); no property says which requests beyond
the limit are rejected. `Query` looks at the last of several values of its key
(`docs/backend_matching.md:141`: "contains"). RoundRobin's counter is an index into the
working addresses of the moment, so while one address goes up and down in step
with the requests another may never be selected (`docs/lb_strategies.md:33`:
"cycles through each address"). A matcher text chains two operands, more need
parentheses, and white space at its end does not parse
(`docs/architecture.md`: "arbitrary long matching clauses"). `parse_qvalue` knows neither `q=1.0`, which
the standard allows, nor a space after the semicolon. A middleware entry of the wrong type is dropped without a
warning. `backend_request` adds an `x-forwarded-for` header to the ones that are
there, with their first value in it. A sticky cookie is per directory, and is
not followed while its address does not work (`docs/lb_strategies.md:41`).

**Bounds.** Two cells are enough for a scan to see one change before and one
after it has read them, and one client is enough in the core because clients
share nothing there but cells they only read; the theorems have any number.
Two generations are enough for a request or a round to hold a configuration that
is no longer in force. Limit 1 with five requests lets a client be admitted,
rejected and admitted again after a pause, with the same rhythm before and after
it, while another client evicts entries; six ticks are three windows. In `ConfigWatch` three edits allow one
before, one during and one after a reload. `MaxRounds` caps how often the ACME
server leaves an order pending, which the protocol does not bound; with one, a
second challenge follows a removed one. Two HTTPS clients are one in the
handshake and one behind it. Two requests are enough for two responses to set
different cookies, and three addresses for the list to change its length, its
order of addresses under an index, and its members. Three middlewares are enough
for one to answer early, one in front that rewrites and one behind that must
not. `MaxTokens` is the longest generated text: seven tokens hold two
connectives with a pair of parentheses; all texts of up to four tokens, sentences
or not, are parsed too, and sentences with a space put in anywhere.

**Fairness.** tokio polls tasks that were woken, its timers fire, threads are
scheduled: weak fairness of the health loop (its checks end, because each of
their waits has a timeout), of the steps of a request up to the strategy, of the
task and the thread in `ConfigWatch` and `Listeners`, of a request in its chain.
In `Listeners` the accept loops are strongly fair: every poll of main's task polls
all futures of `try_join!`, so one that can go on each time `watch_config` is
suspended does go on, although it cannot in between. notify emits a Write once a
file is left alone. The ACME server and acme-lib's polling are assumed to answer.
Nothing is assumed of backend servers, the LDAP directory, clients, browsers or
the file; `SessionsSettle` needs no fairness at all. `config_watch`, `listeners`
and `backend_pool` do not check for deadlock: the process or the request can end
there.

## What TLAPS proves

For all constants that satisfy the named assumptions: any number of clients,
addresses, pools, domains, middlewares or tokens. Every invariant, every action
property and both refinements that the passing runs check are also theorems. Every
proof has an inductive invariant and a step per action.

* `LoadBalancerProofs`: `TypeOK`, `NoLostHealthUpdate`, `NoFalseBadGateway`,
  `SelectionJustified`. The properties speak of requests
  whose scan is over; `IInv` says what holds in the middle of it (`Scanned`): the
  history of a cell contains its present value and knows of a recovery; a
  position is collected only if its cell had the wanted value at some time, and
  passed over only if its history excuses that (`Missed`: not steadily Healthy in
  the first pass; Unresponsive at some time, or recovered, in the second); and the
  second pass started because no cell was Healthy throughout. At the end of a pass
  this gives `Exact`, from which the last two follow. `NoLostHealthUpdate` is
  inductive with the types: cells are written by their check only.
  `FilterKeepsContract` is the refinement of `HealthFilter`, a lemma for each kind
  of step; `Exact` is what makes the end of a scan an `Offer` or a `Refuse`.
  `CellsShowLastVerdict` needs `NoLostHealthUpdate`, since an equal verdict is not
  stored, and that checks are in flight only while the loop waits for them
  (`ChecksAreJoined`). `ScanGoesForward` has a set as its measure: the reads a scan
  has ahead of it, and the turn to the second pass.
* `LeastConnectionProofs`: `TypeOK`, `CountsAreLiveStreams`,
  `SelectsLeastWhenAllWork`. `IInv` adds that the map is finite and streams stay
  below the modulus (`MaxConnections < UsizeModulus`). The last theorem also needs
  a pigeonhole argument: if all tracked addresses are offered and the list is not
  longer than the map, every offered address is tracked.
* `RateLimiterProofs`: `TypeOK`, `VerdictsFromOwnRequests`, `RateLimitEnforced`,
  `NoExpiredEntryStays`. `IInv` says that stamps and times are ordered alike,
  and that an entry's count is, up to saturation, the number of its client's
  requests since the last pause, while a client without an entry has paused.
  It also says that a verdict compares the number of those requests with the limit
  (`VerdictsOK`), and stretches of the same rhythm have as many of them, by the
  bijection that moves one onto the other (`SameBursts`).
  It assumes `Limit < CountMax`: with a limit of `u64::MAX` all requests pass.
* `ConfigWatchProofs`: `TypeOK`, `ChangesAreNotForgotten`; together they are
  inductive.
* `StickySessionProofs`: for `RoundRobin`, `TypeOK` and `EachOncePerTurn`, with the
  recent indices in closed form, counting back from the counter. Then
  `SessionImplementsRoundRobin`: with the browser, its cookies and the changing
  addresses around it, the counter still takes steps of `RoundRobin` only, so both
  hold inside `StickySession` (`TurnsInSession`). `SessionTypeOK` and
  `ForwardedToWorking` follow with the types of the requests under way
  (`SessionInv`). Assumed are lists that are not empty and, for every directory,
  a sequence of the directories above it.
* `ListenersProofs`: for `Acme`, `TypeOK`, `ChallengesAreRemoved`, `PublishedWhileValidating`,
  `ResultIsAwaited`. `IInv` ties future, thread and channel together: the messages in
  the channel are challenges of the domain in hand, the last one is a result
  exactly if the thread has ended (`Conversation`), and while the thread validates
  and nothing is left in the channel, the token is held (`Holding`). Then
  `MainImplementsAcme`: the listeners, the clients and the end of the process do
  not interfere, so these four hold of the main task (`ChallengesInMain`).
  `MainTypeOK` and `CertificatesWereObtained` add that the domains a reload is done
  with have certificates (`DoneAreObtained`). `Domains` is any sequence of names.
* `BackendPoolMatcherProofs`: `ParserAgrees`, parser and grammar agree on every text.
  From the last position of the text to the first one, the results of `value` are
  the values that the grammar finds there: each result is one (`Sound`), each such
  value is a result (`Complete`), and there is one at most (`Single`). The last one
  is why the ordered choice hides nothing: a value ends in one place only, so the
  token behind it decides between `&&`, `||` and neither. Only such texts are excluded
  in which a rule is also an operator, parenthesis or space (`MatcherAssumption`).
* `BackendPoolProofs`: `ParsesAsGenerated`, from an instance of the module above;
  `HeadersDescribeBody`, inductive once it says that responses are responses;
  `TypeOK`; the refinement `ImplementsContract`; and `ChainMovesOn`, by a measure that
  starts at twice the length of the table and five. `PoolInv` maps each position of
  the chain to the entry of the table it came from and says of a request on its way
  down that everything in front let it pass, and of a response on its way up that
  it is one of those the contract allows at that place of the table, for an answer
  that was refused at one entry or given by the backend. The steps that end the way
  down or up are then steps of the contract, all others stutter. `PoolAssumption`
  says what a request or a table is, that the backend's own headers describe its
  body, and that `MaxTokens` is large enough for the texts at hand.

Facts about lists of any length need induction over data. The library's induction
theorems take an operator as a parameter, which the provers cannot instantiate.
These proofs use the order of the naturals instead: a nonempty set of naturals has
a least element (`LeastNatural`), so a set that holds the last position of a range
and, with a position, the one in front of it, holds them all (`Downwards`, and
`Upwards` for lengths). In the same way each recursive function is shown to
satisfy the equation it is defined by (lemmas `...Unfolds`).

Only model-checked: all liveness properties (`RequestsGetPastTheFilter`,
`HealthConverges`, `DeadServersEventuallyAvoided`, `DisabledChecksEventuallyStop`,
`ChangesAreApplied`, `ReloadsEnd`, `HttpIsAccepted`, `HttpsWaitsForHandshakesOnly`,
`AnsweredUnlessSilent`), since fairness and ENABLED are out of the prover's reach, and
`SessionsSettle`, which needs no fairness but a temporal argument by counting: the
requests that were under way without a cookie become fewer. Of two of them the safety
part is proved: `ScanGoesForward` and `ChainMovesOn` say that a request cannot go on
for ever in the filter or in the chain; that it can always take its next step is what
TLC adds.

## What is not modelled

Outside the project: logging, the texts of error pages and headers, serde, rustls, LDAP
and password hashes, the encoders, cookie attributes, the reading of PEM files.
Left out of the modules: a system clock that is set back during a check
(`health.rs:112` panics), a malformed address in a check (`health.rs:86`; in a request
it is modelled), a key file without an RSA key (`tls.rs:66` panics), a configured
cookie name that no header can hold (`sticky_cookie.rs:55` panics), a configuration
file that is replaced by another file or removed, a panic of the ACME thread.
Listener addresses are read at the start only, so the model has one listener of
each kind.
