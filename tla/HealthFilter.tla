---------------------------- MODULE HealthFilter ----------------------------
(***************************************************************************)
(* What the health filter promises a request, whatever happens to the      *)
(* cells meanwhile.  A request arrives at a pool, and in one step it is    *)
(* given addresses, one of which is chosen, or it is refused.  There is no *)
(* loop over the addresses and no health watcher: any cell may change at   *)
(* any time.  What may be given is said by the histories of the cells.     *)
(***************************************************************************)
EXTENDS Integers

CONSTANTS
  Client,      \* client connections
  Healthiness  \* the values of a cell

VARIABLES
  cells,       \* the value of every cell <<generation, index, position>>
  phase,       \* where the current request of a connection is
  pool,        \* the pool it arrived at: <<generation, index>>
  history,     \* what each cell of the pool has been while phase was "scan"
  offered,     \* the positions that passed the filter
  chosen,      \* the one of them the request is sent to
  refused      \* the connections told that no address works

vars == <<cells, phase, pool, history, offered, chosen, refused>>

Init ==
  /\ cells = [c \in DOMAIN cells |-> "Healthy"]
  /\ phase = [r \in Client |-> "idle"]
  /\ pool = [r \in Client |-> <<0, 0>>]
  /\ history = [r \in Client |-> <<>>]
  /\ offered = [r \in Client |-> {}]
  /\ chosen = [r \in Client |-> 0]
  /\ refused = {}

(* The history of a cell, given one more value.                            *)
Recorded(past, h) ==
  past \cup {h} \cup {mark \in {"Recovered"} : h = "Healthy" /\ "Slow" \in past}

PositionsOf(q) == {c[3] : c \in {d \in DOMAIN cells : d[1] = q[1] /\ d[2] = q[2]}}

(* The positions found may be the Healthy ones: each was Healthy at some   *)
(* time, and none of the others was Healthy all the time.                  *)
HealthyOnes(past, found) ==
  \A i \in DOMAIN past :
    IF i \in found THEN "Healthy" \in past[i] ELSE past[i] # {"Healthy"}

(* They may be the Slow ones, after no Healthy one was found: each was     *)
(* Slow at some time, and each of the others was Unresponsive at some time *)
(* or recovered from Slow to Healthy.                                      *)
SlowOnes(past, found) ==
  \A i \in DOMAIN past :
    /\ past[i] # {"Healthy"}
    /\ IF i \in found THEN "Slow" \in past[i]
                      ELSE past[i] \cap {"Unresponsive", "Recovered"} # {}

(* A configuration is stored: new cells, of a generation of its own.       *)
Reload ==
  /\ \A c \in DOMAIN cells : c \in DOMAIN cells' /\ cells'[c] = cells[c]
  /\ \A c \in DOMAIN cells' \ DOMAIN cells :
       cells'[c] = "Healthy" /\ \A d \in DOMAIN cells : d[1] < c[1]
  /\ UNCHANGED <<phase, pool, history, offered, chosen, refused>>

(* A cell changes, before the eyes of the requests at its pool.            *)
Change(c, h) ==
  /\ cells' = [cells EXCEPT ![c] = h]
  /\ history' = [r \in Client |->
                   IF phase[r] = "scan" /\ pool[r] = <<c[1], c[2]>>
                   THEN [history[r] EXCEPT ![c[3]] = Recorded(@, h)] ELSE history[r]]
  /\ UNCHANGED <<phase, pool, offered, chosen, refused>>

(* A request arrives at a pool of the newest generation.                   *)
Arrive(r) ==
  LET q == pool'[r] IN
  /\ phase[r] = "idle"
  /\ \A c \in DOMAIN cells : c[1] <= q[1]
  /\ phase' = [phase EXCEPT ![r] = "scan"]
  /\ pool' = [pool EXCEPT ![r] = q]
  /\ history' = [history EXCEPT ![r] =
                   [i \in PositionsOf(q) |-> Recorded({}, cells[<<q[1], q[2], i>>])]]
  /\ UNCHANGED <<cells, offered, chosen, refused>>

Offer(r, found, i) ==
  /\ phase[r] = "scan"
  /\ i \in found
  /\ HealthyOnes(history[r], found) \/ SlowOnes(history[r], found)
  /\ phase' = [phase EXCEPT ![r] = "forward"]
  /\ offered' = [offered EXCEPT ![r] = found]
  /\ chosen' = [chosen EXCEPT ![r] = i]
  /\ UNCHANGED <<cells, pool, history, refused>>

Refuse(r) ==
  /\ phase[r] = "scan"
  /\ SlowOnes(history[r], {})
  /\ phase' = [phase EXCEPT ![r] = "done"]
  /\ refused' = refused \cup {r}
  /\ UNCHANGED <<cells, pool, history, offered, chosen>>

(* The request is answered: no pool was looked for or found, or it has     *)
(* been given to a backend.                                                *)
Answer(r) ==
  /\ phase[r] \in {"idle", "forward"}
  /\ phase' = [phase EXCEPT ![r] = "done"]
  /\ offered' = [offered EXCEPT ![r] = {}]
  /\ UNCHANGED <<cells, pool, history, chosen, refused>>

Leave(r) ==
  /\ phase[r] = "done"
  /\ phase' = [phase EXCEPT ![r] = "idle"]
  /\ pool' = [pool EXCEPT ![r] = <<0, 0>>]
  /\ history' = [history EXCEPT ![r] = <<>>]
  /\ chosen' = [chosen EXCEPT ![r] = 0]
  /\ refused' = refused \ {r}
  /\ UNCHANGED <<cells, offered>>

Next ==
  \/ Reload
  \/ \E c \in DOMAIN cells, h \in Healthiness : Change(c, h)
  \/ \E r \in Client :
       \/ Arrive(r) \/ Refuse(r) \/ Answer(r) \/ Leave(r)
       \/ \E found \in SUBSET DOMAIN history[r] : \E i \in found : Offer(r, found, i)

Spec == Init /\ [][Next]_vars

=============================================================================
