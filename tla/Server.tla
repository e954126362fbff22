------------------------------- MODULE Server -------------------------------
(***************************************************************************)
(* MainService: what happens to a request.  call() loads the               *)
(* configuration once and finds the pool; the future it returns then runs  *)
(* on the thread of the client's connection.  It reads the healthiness     *)
(* cells of the pool one after the other, first to collect the Healthy     *)
(* addresses and, if there are none, a second time to collect the Slow     *)
(* ones.  Nothing locks the cells meanwhile: the health watcher, on        *)
(* another thread, may write any of them between two reads.                *)
(*                                                                         *)
(* The strategy is any choice among the collected addresses, and the       *)
(* middleware chain either answers by itself or lets the backend answer.   *)
(***************************************************************************)
EXTENDS RuntimeConfig

CONSTANTS
  Client       \* client connections; each sends one request after another

VARIABLES
  pc,          \* where the current request of a connection is
  pool,        \* the pool it found: <<generation, index>>
  wanted,      \* the healthiness the current pass over the cells collects
  pos,         \* the position whose cell this pass reads next
  working,     \* working_addresses: the positions collected so far
  chosen,      \* the position the strategy selected, 0 before that
  response,    \* what the client was answered
  seen         \* history: what each cell of the pool has been since the pool
               \* was found and until the scan was over

serverVars == <<pc, pool, wanted, pos, working, chosen, response, seen>>

NoPool == <<0, 0>>

(* The history of a cell, given one more value: all values it has had, and *)
(* "Recovered" if it was Slow and later Healthy.                           *)
Recorded(history, h) ==
  history \cup {h} \cup {mark \in {"Recovered"} : h = "Healthy" /\ "Slow" \in history}

ServerInit ==
  /\ pc = [r \in Client |-> "idle"]
  /\ pool = [r \in Client |-> NoPool]
  /\ wanted = [r \in Client |-> "Healthy"]
  /\ pos = [r \in Client |-> 1]
  /\ working = [r \in Client |-> {}]
  /\ chosen = [r \in Client |-> 0]
  /\ response = [r \in Client |-> "none"]
  /\ seen = [r \in Client |-> <<>>]

(* The pools that serve the scheme and whose matcher accepts the request.  *)
Matching(pools, scheme, target) ==
  {p \in DOMAIN pools : scheme \in pools[p].schemes /\ target \in pools[p].matcher}

(* The first of them, an Option: the set of no or one index.               *)
pool_by_req(pools, scheme, target) ==
  LET matching == Matching(pools, scheme, target)
  IN  {p \in matching : \A q \in matching : p <= q}

CellOf(r) == <<pool[r][1], pool[r][2], pos[r]>>

Answered(r, answer) ==
  /\ pc' = [pc EXCEPT ![r] = "done"]
  /\ response' = [response EXCEPT ![r] = answer]

(* call(): an ACME challenge is answered by the ACME handler.              *)
CallWithChallenge(r) ==
  /\ pc[r] = "idle"
  /\ Answered(r, "challenge")
  /\ UNCHANGED <<configVars, pool, wanted, pos, working, chosen, seen>>

(* call(): no pool matches.                                                *)
CallWithoutPool(r, scheme, target) ==
  /\ pc[r] = "idle"
  /\ pool_by_req(Current.backend_pools, scheme, target) = {}
  /\ Answered(r, "not_found")
  /\ UNCHANGED <<configVars, pool, wanted, pos, working, chosen, seen>>

(* call(): the request keeps the pool of the generation it loaded.         *)
CallWithPool(r, scheme, target) ==
  /\ pc[r] = "idle"
  /\ \E p \in pool_by_req(Current.backend_pools, scheme, target) :
       LET g == Len(loaded) IN
       /\ pool' = [pool EXCEPT ![r] = <<g, p>>]
       /\ seen' = [seen EXCEPT ![r] = [i \in Positions(g, p) |-> Recorded({}, healthiness[<<g, p, i>>])]]
  /\ pc' = [pc EXCEPT ![r] = "scan"]
  /\ UNCHANGED <<configVars, wanted, pos, working, chosen, response>>

(* One step of a filter over pool.addresses: load one cell.                *)
LoadHealthiness(r) ==
  /\ pc[r] = "scan"
  /\ pos[r] \in Positions(pool[r][1], pool[r][2])
  /\ working' = [working EXCEPT ![r] =
                   IF healthiness[CellOf(r)] = wanted[r] THEN @ \cup {pos[r]} ELSE @]
  /\ pos' = [pos EXCEPT ![r] = @ + 1]
  /\ UNCHANGED <<configVars, pc, pool, wanted, chosen, response, seen>>

(* Mutated: the pass stops at the first address it finds.                  *)
PassIsOverAtFirst(r) ==
  pc[r] = "scan" /\ (pos[r] \notin Positions(pool[r][1], pool[r][2]) \/ working[r] # {})

PassIsOver(r) ==
  pc[r] = "scan" /\ pos[r] \notin Positions(pool[r][1], pool[r][2])

(* Mutated: the second pass goes on where the first one ended.             *)
ScanForSlowNoRewind(r) ==
  /\ PassIsOver(r)
  /\ wanted[r] = "Healthy" /\ working[r] = {}
  /\ wanted' = [wanted EXCEPT ![r] = "Slow"]
  /\ UNCHANGED <<configVars, pc, pool, pos, working, chosen, response, seen>>

(* Mutated: look for Healthy addresses again until there are some.         *)
ScanForSlowRetries(r) ==
  /\ PassIsOver(r)
  /\ wanted[r] = "Healthy" /\ working[r] = {}
  /\ pos' = [pos EXCEPT ![r] = 1]
  /\ UNCHANGED <<configVars, pc, pool, wanted, working, chosen, response, seen>>

(* No Healthy address: replace them with the Slow ones.                    *)
ScanForSlow(r) ==
  /\ PassIsOver(r)
  /\ wanted[r] = "Healthy" /\ working[r] = {}
  /\ wanted' = [wanted EXCEPT ![r] = "Slow"]
  /\ pos' = [pos EXCEPT ![r] = 1]
  /\ UNCHANGED <<configVars, pc, pool, working, chosen, response, seen>>

(* Mutated: no working address is answered like no pool.                   *)
AbortEarlyNotFound(r) ==
  /\ PassIsOver(r)
  /\ wanted[r] = "Slow" /\ working[r] = {}
  /\ Answered(r, "not_found")
  /\ UNCHANGED <<configVars, pool, wanted, pos, working, chosen, seen>>

(* No working address at all: bad_gateway(), without strategy and chain.   *)
AbortEarly(r) ==
  /\ PassIsOver(r)
  /\ wanted[r] = "Slow" /\ working[r] = {}
  /\ Answered(r, "no_working_address")
  /\ UNCHANGED <<configVars, pool, wanted, pos, working, chosen, seen>>

(* Mutated: the index of the address is off by one.                        *)
select_backendOffByOne(r, i) ==
  /\ PassIsOver(r)
  /\ i \in working[r]
  /\ pc' = [pc EXCEPT ![r] = "forward"]
  /\ chosen' = [chosen EXCEPT ![r] = i + 1]
  /\ UNCHANGED <<configVars, pool, wanted, pos, working, response, seen>>

(* The strategy selects one of the collected addresses.                    *)
select_backend(r, i) ==
  /\ PassIsOver(r)
  /\ i \in working[r]
  /\ pc' = [pc EXCEPT ![r] = "forward"]
  /\ chosen' = [chosen EXCEPT ![r] = i]
  /\ UNCHANGED <<configVars, pool, wanted, pos, working, response, seen>>

(* forward_request_to_backend: a middleware answers, or the backend does,  *)
(* or the client reports an error.                                         *)
Forwarded(r, answer) ==
  /\ pc[r] = "forward"
  /\ Answered(r, answer)
  /\ UNCHANGED <<configVars, pool, wanted, pos, working, chosen, seen>>

(* The response is sent and the connection may carry another request.      *)
ResponseSent(r) ==
  /\ pc[r] = "done"
  /\ pc' = [pc EXCEPT ![r] = "idle"]
  /\ pool' = [pool EXCEPT ![r] = NoPool]
  /\ wanted' = [wanted EXCEPT ![r] = "Healthy"]
  /\ pos' = [pos EXCEPT ![r] = 1]
  /\ working' = [working EXCEPT ![r] = {}]
  /\ chosen' = [chosen EXCEPT ![r] = 0]
  /\ response' = [response EXCEPT ![r] = "none"]
  /\ seen' = [seen EXCEPT ![r] = <<>>]
  /\ UNCHANGED configVars

(* The histories after cell c has been given the value h.                  *)
SeenAfter(c, h) ==
  [r \in Client |-> IF pc[r] = "scan" /\ pool[r] = <<c[1], c[2]>>
                    THEN [seen[r] EXCEPT ![c[3]] = Recorded(@, h)]
                    ELSE seen[r]]

(* A request refers to a pool that exists and to positions in it.          *)
RequestTypeOK(r) ==
  pool[r] # NoPool =>
    /\ pool[r][1] \in DOMAIN loaded
    /\ pool[r][2] \in DOMAIN loaded[pool[r][1]].backend_pools
    /\ working[r] \subseteq Positions(pool[r][1], pool[r][2])
    /\ chosen[r] \in {0} \cup Positions(pool[r][1], pool[r][2])
    /\ seen[r] \in [Positions(pool[r][1], pool[r][2]) -> SUBSET (Healthiness \cup {"Recovered"})]

ServerTypeOK ==
  /\ pc \in [Client -> {"idle", "scan", "forward", "done"}]
  /\ wanted \in [Client -> {"Healthy", "Slow"}]
  /\ pos \in [Client -> Nat]
  /\ response \in [Client -> {"none", "challenge", "not_found", "no_working_address",
                               "middleware", "backend", "backend_error"}]
  /\ pool \in [Client -> Nat \X Nat]
  /\ working \in [Client -> SUBSET Nat]
  /\ chosen \in [Client -> Nat]
  /\ DOMAIN seen = Client
  /\ \A r \in Client : RequestTypeOK(r)

=============================================================================
