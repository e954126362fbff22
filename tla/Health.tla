------------------------------- MODULE Health -------------------------------
(***************************************************************************)
(* The health watcher: one loop that, round after round, contacts every    *)
(* address of every pool and notes the outcome in the address's cell.      *)
(*                                                                         *)
(* The loop awaits between its steps, so a reload can happen at each of    *)
(* them: between reading the interval and loading the pools, and while the *)
(* checks of a round are in flight.  The checks of a round run             *)
(* concurrently and end in any order.                                      *)
(***************************************************************************)
EXTENDS RuntimeConfig

CONSTANTS
  Behaviour    \* the ways a backend server can treat a request

(* A server takes connect ms to accept a connection and respond ms from    *)
(* then to its response head, whose status is a success or a failure; or   *)
(* it refuses the connection; or it accepts it and stays silent.           *)
Answer == {"success", "failure", "refused", "silent"}

ASSUME BehaviourAssumption ==
  Behaviour \subseteq [connect : Nat, respond : Nat, answer : Answer]

VARIABLES
  servers,     \* how each backend server behaves at the moment
  watcher,     \* where the loop of watch_health is
  previous     \* for the checks in flight: the healthiness they started from

healthVars == <<servers, watcher, previous>>

HealthInit ==
  /\ servers \in [Address -> Behaviour]
  /\ watcher = "interval"
  /\ previous = [c \in {} |-> "Healthy"]

(* hyper's client over a TimeoutConnector: the timeout bounds connecting,  *)
(* and each wait to read or write, one by one.                             *)
ClientGet(server, timeout) ==
  IF \/ server.answer \in {"refused", "silent"}
     \/ server.connect > timeout
     \/ server.respond > timeout
  THEN "error" ELSE server.answer

ResponseTime(server) == server.connect + server.respond

(* Mutated: a server that does not answer in time counts as slow.          *)
contact_serverLenient(server, slow_threshold, timeout) ==
  IF ClientGet(server, timeout) = "success" /\ ResponseTime(server) <= slow_threshold
  THEN "Healthy" ELSE "Slow"

contact_server(server, slow_threshold, timeout) ==
  CASE ClientGet(server, timeout) # "success"  -> "Unresponsive"
    [] ClientGet(server, timeout) = "success" /\ ResponseTime(server) > slow_threshold  -> "Slow"
    [] OTHER -> "Healthy"

(* What a check of cell c finds when server answers it.                    *)
CheckResult(c, server) ==
  contact_server(server, Pool(c[1], c[2]).slow_threshold, Pool(c[1], c[2]).timeout)

(* Mutated: zero is not treated specially.                                 *)
LoadIntervalAlways ==
  /\ watcher = "interval"
  /\ watcher' = "tick"
  /\ UNCHANGED <<configVars, servers, previous>>

(* The head of the loop: load the interval; zero means sleep and retry.    *)
LoadInterval ==
  /\ watcher = "interval"
  /\ watcher' = IF Current.check_every = 0 THEN "sleep" ELSE "tick"
  /\ UNCHANGED <<configVars, servers, previous>>

SleepOver ==
  /\ watcher = "sleep"
  /\ watcher' = "interval"
  /\ UNCHANGED <<configVars, servers, previous>>

(* Mutated: only the addresses that are in use are checked.                *)
StartChecksOfWorking ==
  /\ watcher = "tick"
  /\ watcher' = "checking"
  /\ previous' = [c \in {d \in CellsOf(loaded, Len(loaded)) : healthiness[d] # "Unresponsive"}
                    |-> healthiness[c]]
  /\ UNCHANGED <<configVars, servers>>

(* Mutated: a check compares with the value that new cells have.           *)
StartChecksFromNew ==
  /\ watcher = "tick"
  /\ watcher' = "checking"
  /\ previous' = [c \in CellsOf(loaded, Len(loaded)) |-> InitialHealthiness(c)]
  /\ UNCHANGED <<configVars, servers>>

(* The first tick: load the pools and start a check of every address.      *)
StartChecks ==
  /\ watcher = "tick"
  /\ watcher' = "checking"
  /\ previous' = [c \in CellsOf(loaded, Len(loaded)) |-> healthiness[c]]
  /\ UNCHANGED <<configVars, servers>>

(* check_server_health_once for cell c, from the answer of the server on.  *)
FinishCheck(c) ==
  LET result == CheckResult(c, servers[AddressOf(c)]) IN
  /\ watcher = "checking"
  /\ c \in DOMAIN previous
  /\ healthiness' = IF previous[c] # result
                    THEN [healthiness EXCEPT ![c] = result] ELSE healthiness
  /\ previous' = [d \in DOMAIN previous \ {c} |-> previous[d]]
  /\ UNCHANGED <<loaded, servers, watcher>>

(* All checks have been joined, and the second tick has come.              *)
SecondTick ==
  /\ watcher = "checking"
  /\ DOMAIN previous = {}
  /\ watcher' = "interval"
  /\ UNCHANGED <<configVars, servers, previous>>

(* A backend server gets slow, fails, recovers: not under our control.     *)
ServerChanges(a, behaviour) ==
  /\ servers[a] # behaviour
  /\ servers' = [servers EXCEPT ![a] = behaviour]
  /\ UNCHANGED <<configVars, watcher, previous>>

HealthTypeOK ==
  /\ servers \in [Address -> Behaviour]
  /\ watcher \in {"interval", "sleep", "tick", "checking"}
  /\ DOMAIN previous \subseteq Cells(loaded)
  /\ previous \in [DOMAIN previous -> Healthiness]

=============================================================================
