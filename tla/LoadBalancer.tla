---------------------------- MODULE LoadBalancer ----------------------------
(***************************************************************************)
(* The core of the load balancer: the requests of all client connections,  *)
(* the health watcher and the configuration watcher, over the same         *)
(* configuration and the same healthiness cells.                           *)
(***************************************************************************)
EXTENDS Health, Server

vars == <<configVars, healthVars, serverVars>>

Init == RuntimeConfigInit /\ HealthInit /\ ServerInit

ReloadConfig == \E toml \in TomlConfigs : StoreConfig(toml) /\ UNCHANGED <<healthVars, serverVars>>

(* The health watcher never touches the requests: only the history of the  *)
(* cells that requests are scanning is kept up to date.                    *)
WatchHealth ==
  \/ (LoadInterval \/ SleepOver \/ StartChecks \/ SecondTick) /\ UNCHANGED serverVars
  \/ \E c \in DOMAIN previous :
       /\ FinishCheck(c)
       /\ seen' = SeenAfter(c, healthiness'[c])
       /\ UNCHANGED <<pc, pool, wanted, pos, working, chosen, response>>

CallRequest(r) ==
  \/ CallWithChallenge(r)
  \/ \E scheme \in Scheme, target \in Target :
       CallWithoutPool(r, scheme, target) \/ CallWithPool(r, scheme, target)

(* The steps of a request that need nobody else.                           *)
RequestStep(r) ==
  \/ LoadHealthiness(r)
  \/ ScanForSlow(r)
  \/ AbortEarly(r)
  \/ \E i \in working[r] : select_backend(r, i)

(* A silent backend is waited for without a timeout.                       *)
BackendAnswers(r) ==
  LET answer == servers[AddressOf(<<pool[r][1], pool[r][2], chosen[r]>>)].answer IN
  /\ pc[r] = "forward"
  /\ answer # "silent"
  /\ Forwarded(r, IF answer = "refused" THEN "backend_error" ELSE "backend")

MiddlewareAnswers(r) == Forwarded(r, "middleware")

ServeRequest ==
  \E r \in Client :
    /\ CallRequest(r) \/ RequestStep(r) \/ MiddlewareAnswers(r) \/ BackendAnswers(r) \/ ResponseSent(r)
    /\ UNCHANGED healthVars

ChangeServer ==
  /\ \E a \in Address, behaviour \in Behaviour : ServerChanges(a, behaviour)
  /\ UNCHANGED serverVars

Next == ReloadConfig \/ WatchHealth \/ ServeRequest \/ ChangeServer

Spec == Init /\ [][Next]_vars

(* The runtime polls every task that is ready, timers fire, and a health   *)
(* check ends within its timeouts.  Nothing is promised of the servers,    *)
(* the clients or the configuration file.                                  *)
Fairness ==
  /\ WF_vars(WatchHealth)
  /\ \A r \in Client : WF_vars(RequestStep(r) /\ UNCHANGED healthVars)

FairSpec == Spec /\ Fairness
-----------------------------------------------------------------------------
TypeOK == RuntimeConfigTypeOK /\ HealthTypeOK /\ ServerTypeOK

(* A check in flight knows the value of its cell: although it loads the    *)
(* cell before it contacts the server and compares only afterwards, no     *)
(* other store comes in between, whatever is reloaded meanwhile.           *)
NoLostHealthUpdate == \A c \in DOMAIN previous : healthiness[c] = previous[c]

(* Comparing before storing is as good as storing: when a check ends, its  *)
(* cell shows what the server has just answered, and no cell changes       *)
(* without a check of it, neither by a reload nor by a check of another    *)
(* pool with the same address.                                             *)
CellsShowLastVerdict ==
  [][\A c \in DOMAIN healthiness :
       healthiness'[c] = IF c \in DOMAIN previous \ DOMAIN previous'
                         THEN CheckResult(c, servers[AddressOf(c)]) ELSE healthiness[c]]_vars

(* A request that is answered 502 before its strategy runs: while the two  *)
(* passes read the cells, every address of its pool was Unresponsive at    *)
(* some time, or it was Slow and then became Healthy.  In particular none  *)
(* stayed Healthy, none stayed Slow, and none only got slower.             *)
NoFalseBadGateway ==
  \A r \in Client : response[r] = "no_working_address" =>
    \A i \in DOMAIN seen[r] :
      seen[r][i] \cap {"Unresponsive", "Recovered"} # {}

(* A Slow address is used only if no address of the pool has been Healthy  *)
(* all the time the cells were read, and any address that is used has had  *)
(* the healthiness it was selected for since the request arrived.  What    *)
(* the strategy is offered is exact as far as a reader that takes no lock  *)
(* can know: an address whose cell did not change while it was read is     *)
(* among it if and only if it has the wanted healthiness.                  *)
SelectionJustified ==
  \A r \in Client : pc[r] = "forward" =>
    /\ wanted[r] \in seen[r][chosen[r]]
    /\ wanted[r] = "Slow" => \A i \in DOMAIN seen[r] : seen[r][i] # {"Healthy"}
    /\ \A i \in DOMAIN seen[r] : \A h \in Healthiness :
         seen[r][i] = {h} => (i \in working[r] <=> h = wanted[r])

(* What has been collected shows once it is handed to the strategy.        *)
Offered == [r \in Client |-> IF pc[r] = "forward" THEN working[r] ELSE {}]

Refused == {r \in Client : response[r] = "no_working_address"}

Filter == INSTANCE HealthFilter WITH
  cells <- healthiness, phase <- pc, history <- seen, offered <- Offered, refused <- Refused

(* The two passes over cells that change meanwhile look like one step: a   *)
(* request is given addresses, or refused, as the histories of the cells   *)
(* allow.  The loop and the watcher are hidden.                            *)
ImplementsHealthFilter == Filter!Spec

(* What a scan may still have to do: the reads of its passes, and the turn *)
(* from the first to the second.                                           *)
Ahead(r) ==
  LET positions == Positions(pool[r][1], pool[r][2]) IN
  {<<wanted[r], i>> : i \in {j \in positions : j >= pos[r]}}
    \cup (IF wanted[r] = "Healthy" THEN {<<"Slow", i>> : i \in {0} \cup positions} ELSE {})

(* A scan never repeats or adds a read, whatever is stored to the cells or *)
(* reloaded meanwhile: each of its steps leaves less ahead of it, or ends  *)
(* it, so it ends within two passes over the pool it found.                *)
ScanGoesForward ==
  [][\A r \in Client : pc[r] = "scan" /\ pc'[r] = "scan" =>
       /\ Ahead(r)' \subseteq Ahead(r)
       /\ <<wanted'[r], pos'[r]>> = <<wanted[r], pos[r]>> \/ Ahead(r)' # Ahead(r)]_vars

(* Every request that found a pool gets past the health filter: it is      *)
(* answered 502 or given to the chain with a backend, however often the    *)
(* cells change meanwhile.                                                 *)
RequestsGetPastTheFilter ==
  \A r \in Client : (pc[r] = "scan") ~> (pc[r] \in {"forward", "done"})

(* If from some time on the server at an address behaves in one way and    *)
(* checks are enabled, every cell of the address in the configuration in   *)
(* force ends up with the verdict that behaviour deserves, and keeps it.   *)
HealthConverges ==
  \A a \in Address, behaviour \in Behaviour :
    <>[](servers[a] = behaviour /\ Current.check_every # 0)
      => <>[](\A c \in CellsOf(loaded, Len(loaded)) :
                AddressOf(c) = a => healthiness[c] = CheckResult(c, behaviour))

Dead(a) == servers[a].answer \in {"refused", "silent"}

(* If a server is dead for good and checks stay enabled, then from some    *)
(* time on no request is given to it: neither by the configuration in      *)
(* force nor by requests that still hold the pools of an earlier one.      *)
DeadServersEventuallyAvoided ==
  \A a \in Address :
    <>[](Dead(a) /\ Current.check_every # 0)
      => <>[][\A r \in Client : pc[r] = "scan" /\ pc'[r] = "forward" =>
                AddressOf(<<pool[r][1], pool[r][2], chosen'[r]>>) # a]_vars

(* Setting check_every to 0 ends the checks: the round that may be under   *)
(* way or just starting is the last.                                       *)
DisabledChecksEventuallyStop ==
  <>[](Current.check_every = 0) => <>[](watcher \in {"interval", "sleep"})
-----------------------------------------------------------------------------
(* What the comment at the early abort says: "we don't have any working    *)
(* addresses".  A pool with an address that was never Unresponsive since   *)
(* the request arrived does not answer it 502.                             *)
WorkingServerIsUsed ==
  \A r \in Client : response[r] = "no_working_address" =>
    \A i \in DOMAIN seen[r] : "Unresponsive" \in seen[r][i]

=============================================================================
