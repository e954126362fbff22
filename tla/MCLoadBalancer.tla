--------------------------- MODULE MCLoadBalancer ---------------------------
(***************************************************************************)
(* Small instances of LoadBalancer.  The numbers are milliseconds scaled   *)
(* down: a server is slow above 1 and a wait times out above 2.            *)
(***************************************************************************)
EXTENDS LoadBalancer

CONSTANTS a1, a2, t1, t2

MCPool(target, addresses) ==
  [matcher |-> {target}, schemes |-> {"HTTP"}, addresses |-> addresses,
   slow_threshold |-> 1, timeout |-> 2]

(* One pool of two addresses, checked; one pool of one address, checked.   *)
MCPair == [backend_pools |-> <<MCPool(t1, <<a1, a2>>)>>, check_every |-> 1]
MCSingle == [backend_pools |-> <<MCPool(t1, <<a1>>)>>, check_every |-> 1]

(* Two overlapping pools, and health checks switched off.                  *)
MCTwoPools ==
  [backend_pools |-> <<[MCPool(t1, <<a1>>) EXCEPT !.schemes = {}], MCPool(t1, <<a1, a1>>)>>,
   check_every |-> 0]

MCFast == [connect |-> 0, respond |-> 1, answer |-> "success"]
MCSlow == [connect |-> 1, respond |-> 1, answer |-> "success"]
MCBothNearTimeout == [connect |-> 2, respond |-> 2, answer |-> "success"]
MCLate == [connect |-> 0, respond |-> 3, answer |-> "success"]
MCFailing == [connect |-> 0, respond |-> 1, answer |-> "failure"]
MCRefusing == [connect |-> 0, respond |-> 0, answer |-> "refused"]
MCSilent == [connect |-> 0, respond |-> 0, answer |-> "silent"]

MCPairOnly == {MCPair}
MCSingleOnly == {MCSingle}
MCSingleAndOff == {MCSingle, MCTwoPools}

MCThreeBehaviours == {MCFast, MCSlow, MCRefusing}
MCFailingBehaviours == {MCFast, MCBothNearTimeout, MCFailing}
MCLateBehaviours == {MCFast, MCSlow, MCLate, MCSilent}

=============================================================================
