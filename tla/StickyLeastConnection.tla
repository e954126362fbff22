----------------------- MODULE StickyLeastConnection ------------------------
(***************************************************************************)
(* A pool with the StickyCookie strategy over LeastConnection, whose       *)
(* servers all work.  The connector tells the strategy of the pool, which  *)
(* is StickyCookie, of streams that open and close; StickyCookie has the   *)
(* on_tcp_open and on_tcp_close of the trait, which do nothing, so that    *)
(* the strategy inside is never told.                                      *)
(***************************************************************************)
EXTENDS LeastConnection, StickyCookie

(* StickyCookie::select_backend: the cookies of the client decide, or the  *)
(* inner strategy does.                                                    *)
StickySelectBackend(r, cookies) ==
  LET offered == DOMAIN Addresses
      sticky == {i \in offered : Addresses[i] \in StickyAddress(cookies, {Addresses[j] : j \in offered})}
  IN  \/ /\ sticky = {}
         /\ SelectBackend(r, offered) \/ SelectBackendPanics(r, offered)
      \/ /\ request[r].phase = "idle"
         /\ \E i \in sticky :
              request' = [request EXCEPT ![r] = [phase |-> "sticky", position |-> i,
                                                 offered |-> offered]]
         /\ UNCHANGED <<connections, streams, connecting>>

(* A request with a cookie takes its course like others.                   *)
SendStickyRequest(r) ==
  LET a == Addresses[request[r].position] IN
  /\ request[r].phase = "sticky"
  /\ \/ streams[a] > 0 /\ UNCHANGED connecting
     \/ /\ streams[a] + connecting[a] < MaxConnections
        /\ connecting' = [connecting EXCEPT ![a] = @ + 1]
  /\ request' = [request EXCEPT ![r] = Idle]
  /\ UNCHANGED <<connections, streams>>

ConnectSucceedsUnheard(a) ==
  /\ connecting[a] > 0
  /\ connecting' = [connecting EXCEPT ![a] = @ - 1]
  /\ streams' = [streams EXCEPT ![a] = @ + 1]
  /\ UNCHANGED <<connections, request>>

DropStreamUnheard(a) ==
  /\ streams[a] > 0
  /\ streams' = [streams EXCEPT ![a] = @ - 1]
  /\ UNCHANGED <<connections, connecting, request>>

StickyNext ==
  \/ \E r \in Request, cookies \in {<<>>} \cup {<<{a}>> : a \in Address} :
       StickySelectBackend(r, cookies)
  \/ \E r \in Request : NewConnection(r) \/ SendRequest(r) \/ SendStickyRequest(r)
  \/ \E a \in Address : ConnectSucceedsUnheard(a) \/ ConnectFails(a) \/ DropStreamUnheard(a)

StickySpec == Init /\ [][StickyNext]_vars
-----------------------------------------------------------------------------
(* What the documentation says: for a request without a cookie "the        *)
(* `inner` strategy is used to select the backend server", and             *)
(* LeastConnection "chooses the one with the least open connections".      *)
InnerSelectsLeast ==
  [][\A r \in Request : request[r].phase = "idle" /\ request'[r].phase = "selected" =>
       \A j \in DOMAIN Addresses :
         streams[Addresses[request'[r].position]] <= streams[Addresses[j]]]_vars
=============================================================================
