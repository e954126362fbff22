-------------------------- MODULE LeastConnection ---------------------------
(***************************************************************************)
(* The LeastConnection strategy of one pool, with the streams that drive   *)
(* its counters.  The pool's HTTP client opens a TCP stream through        *)
(* StrategyNotifyHttpConnector, which tells the strategy (on_tcp_open),    *)
(* and a stream tells it when it is dropped (on_tcp_close), whether its    *)
(* request is over, its peer is gone or it idled too long in hyper's       *)
(* connection pool.  Requests select a backend among the addresses that    *)
(* passed the health filter, so the set they select from changes from one  *)
(* request to the next, while the strategy remembers every address it ever *)
(* had a connection to.                                                    *)
(***************************************************************************)
EXTENDS Integers, Sequences, FiniteSets

CONSTANTS
  Address,        \* backend addresses
  Addresses,      \* the addresses of the pool, in order
  Request,        \* requests under way at the same time
  MaxConnections, \* bound: streams live or being connected, per address
  UsizeModulus    \* the number of values of usize

ASSUME AddressesAssumption == Addresses \in Seq(Address)

ASSUME ModulusAssumption ==
  /\ MaxConnections \in Nat
  /\ UsizeModulus \in Nat
  /\ MaxConnections < UsizeModulus

VARIABLES
  connections,    \* the strategy's map from address to count
  streams,        \* the number of live StrategyNotifyStreams to an address
  connecting,     \* the number of connects to an address not completed yet
  request         \* what each request has got from select_backend

vars == <<connections, streams, connecting, request>>

Idle == [phase |-> "idle", position |-> 0, offered |-> {}]

Init ==
  /\ connections = [a \in {} |-> 0]
  /\ streams = [a \in Address |-> 0]
  /\ connecting = [a \in Address |-> 0]
  /\ request = [r \in Request |-> Idle]

(* connections.entry(a).or_insert(default), and the map with a's entry set *)
(* to n.                                                                   *)
Entry(a, default) == IF a \in DOMAIN connections THEN connections[a] ELSE default

WithEntry(a, n) == [b \in DOMAIN connections \cup {a} |-> IF b = a THEN n ELSE connections[b]]

on_tcp_open(a) == connections' = WithEntry(a, (Entry(a, 0) + 1) % UsizeModulus)

on_tcp_close(a) == connections' = WithEntry(a, (Entry(a, 1) - 1) % UsizeModulus)

(* The addresses with the least count, among all that have one.            *)
LeastTracked ==
  {a \in DOMAIN connections : \A b \in DOMAIN connections : connections[a] <= connections[b]}

(* Mutated: an equal number of addresses counts as some unused.            *)
SomeUnusedOrEqual(offered) ==
  \/ DOMAIN connections = {}
  \/ Cardinality(offered) >= Cardinality(DOMAIN connections)

(* "no TCP connections have been opened yet, or some backend servers are   *)
(* not used yet", as the code decides it.                                  *)
SomeUnused(offered) ==
  \/ DOMAIN connections = {}
  \/ Cardinality(offered) > Cardinality(DOMAIN connections)

(* Mutated: the index in the pool instead of the offered addresses.        *)
IndexOfInPool(offered, a) == {i \in DOMAIN Addresses : Addresses[i] = a}

(* The index backend_address_map has for an address: its last position.    *)
IndexOf(offered, a) ==
  {i \in offered : Addresses[i] = a /\ \A j \in offered : Addresses[j] = a => j <= i}

address_indices(offered) ==
  IF SomeUnused(offered)
  THEN {i \in offered : Addresses[i] \notin DOMAIN connections}
  ELSE UNION {IndexOf(offered, a) : a \in LeastTracked}

(* backend_address_map.get(..).unwrap() fails, or gen_range(0..0) does.    *)
SelectPanics(offered) ==
  \/ ~SomeUnused(offered) /\ \E a \in LeastTracked : IndexOf(offered, a) = {}
  \/ address_indices(offered) = {}

(* select_backend, called with the addresses at the offered positions.  A  *)
(* panic ends the task of the client's connection.                         *)
SelectBackend(r, offered) ==
  /\ request[r].phase = "idle"
  /\ ~SelectPanics(offered)
  /\ \E i \in address_indices(offered) :
       request' = [request EXCEPT ![r] = [phase |-> "selected", position |-> i, offered |-> offered]]
  /\ UNCHANGED <<connections, streams, connecting>>

SelectBackendPanics(r, offered) ==
  /\ request[r].phase = "idle"
  /\ SelectPanics(offered)
  /\ request' = [request EXCEPT ![r] = [phase |-> "panicked", position |-> 0, offered |-> offered]]
  /\ UNCHANGED <<connections, streams, connecting>>

(* A new client connection takes the place of one whose task panicked.     *)
NewConnection(r) ==
  /\ request[r].phase = "panicked"
  /\ request' = [request EXCEPT ![r] = Idle]
  /\ UNCHANGED <<connections, streams, connecting>>

(* hyper's client takes an idle stream from its pool, if it has one, and   *)
(* may start a connect all the same; the request then takes its course.    *)
SendRequest(r) ==
  LET a == Addresses[request[r].position] IN
  /\ request[r].phase = "selected"
  /\ \/ streams[a] > 0 /\ UNCHANGED connecting
     \/ /\ streams[a] + connecting[a] < MaxConnections
        /\ connecting' = [connecting EXCEPT ![a] = @ + 1]
  /\ request' = [request EXCEPT ![r] = Idle]
  /\ UNCHANGED <<connections, streams>>

(* StrategyNotifyHttpConnector::call, from the end of the connect on.      *)
ConnectSucceeds(a) ==
  /\ connecting[a] > 0
  /\ connecting' = [connecting EXCEPT ![a] = @ - 1]
  /\ on_tcp_open(a)
  /\ streams' = [streams EXCEPT ![a] = @ + 1]
  /\ UNCHANGED request

(* Mutated: the strategy is told of the stream before the connect ended.   *)
ConnectFailsCounted(a) ==
  /\ connecting[a] > 0
  /\ connecting' = [connecting EXCEPT ![a] = @ - 1]
  /\ on_tcp_open(a)
  /\ UNCHANGED <<streams, request>>

ConnectFails(a) ==
  /\ connecting[a] > 0
  /\ connecting' = [connecting EXCEPT ![a] = @ - 1]
  /\ UNCHANGED <<connections, streams, request>>

(* A StrategyNotifyStream is dropped.                                      *)
DropStream(a) ==
  /\ streams[a] > 0
  /\ streams' = [streams EXCEPT ![a] = @ - 1]
  /\ on_tcp_close(a)
  /\ UNCHANGED <<connecting, request>>

Next ==
  \/ \E r \in Request, offered \in (SUBSET DOMAIN Addresses) \ {{}} :
       SelectBackend(r, offered) \/ SelectBackendPanics(r, offered)
  \/ \E r \in Request : NewConnection(r) \/ SendRequest(r)
  \/ \E a \in Address : ConnectSucceeds(a) \/ ConnectFails(a) \/ DropStream(a)

Spec == Init /\ [][Next]_vars
-----------------------------------------------------------------------------
TypeOK ==
  /\ DOMAIN connections \subseteq Address
  /\ connections \in [DOMAIN connections -> 0 .. UsizeModulus - 1]
  /\ streams \in [Address -> Nat]
  /\ connecting \in [Address -> Nat]
  /\ request \in [Request -> [phase : {"idle", "selected", "panicked"},
                              position : {0} \cup DOMAIN Addresses,
                              offered : SUBSET DOMAIN Addresses]]
  /\ \A r \in Request : request[r].phase = "selected" => request[r].position \in request[r].offered

(* The strategy's counters are the numbers of live streams, whatever the   *)
(* order in which connects end and streams are dropped.  So a count is     *)
(* never decremented below zero.                                           *)
CountsAreLiveStreams == \A a \in Address : streams[a] = Entry(a, 0)

Decides(r) == request[r].phase = "idle" /\ request'[r].phase # "idle"

AllTrackedAreOffered(offered) ==
  \A a \in DOMAIN connections : \E i \in offered : Addresses[i] = a

Distinct == \A i, j \in DOMAIN Addresses : Addresses[i] = Addresses[j] => i = j

LeastLoaded(i, offered) == \A j \in offered : streams[Addresses[i]] <= streams[Addresses[j]]

(* As long as no address the strategy has a count for is filtered out by   *)
(* its health, select_backend does not panic and selects an address with   *)
(* the fewest live streams of all it was offered.                          *)
SelectsLeastWhenAllWork ==
  [][\A r \in Request :
       Decides(r) /\ Distinct /\ AllTrackedAreOffered(request'[r].offered)
       => /\ request'[r].phase = "selected"
          /\ LeastLoaded(request'[r].position, request'[r].offered)]_vars
-----------------------------------------------------------------------------
(* What the documentation says: the strategy "chooses the one with the     *)
(* least open connections".  It chooses one, whatever addresses are        *)
(* healthy when the request comes.                                         *)
AlwaysSelects == \A r \in Request : request[r].phase # "panicked"

=============================================================================
