--------------------------- MODULE RuntimeConfig ---------------------------
(***************************************************************************)
(* The running configuration of the load balancer, as the other parts      *)
(* share it: an ArcSwap that holds the current RuntimeConfig, and the      *)
(* ArcSwap<Healthiness> cell that every backend address of every pool has. *)
(*                                                                         *)
(* A reload does not change a RuntimeConfig: it builds a new one, with new *)
(* pools and new cells, and swaps the pointer.  The old one stays in use   *)
(* by whoever still holds it: the requests that found their pool in it and *)
(* the health round that loaded it.  The model therefore numbers the       *)
(* RuntimeConfigs in the order they were stored and keeps them all:        *)
(* loaded[g] is what generation g was built from, Len(loaded) is the       *)
(* generation the ArcSwap points to, and <<g, p, i>> names the cell of the *)
(* i-th address of the p-th pool of generation g.                          *)
(***************************************************************************)
EXTENDS Integers, Sequences

CONSTANTS
  Address,     \* the backend addresses that configurations name
  Target,      \* what a matcher looks at in a request (host, path, ...)
  TomlConfigs, \* the contents the configuration file may have when it is read
  MaxLoads     \* bound: RuntimeConfigs stored in one behaviour

Scheme == {"HTTP", "HTTPS"}

Healthiness == {"Healthy", "Slow", "Unresponsive"}

(* A backend pool as configured: the requests its matcher accepts, the     *)
(* schemes it serves, its addresses in order (one address may be listed    *)
(* twice), and the two numbers of its HealthConfig, in milliseconds.       *)
BackendPoolConfig ==
  [matcher : SUBSET Target, schemes : SUBSET Scheme, addresses : Seq(Address),
   slow_threshold : Int, timeout : Nat]

TomlConfig == [backend_pools : Seq(BackendPoolConfig), check_every : Nat]

ASSUME TomlConfigsAssumption == TomlConfigs \subseteq TomlConfig

ASSUME MaxLoadsAssumption == MaxLoads \in Nat

VARIABLES
  loaded,      \* the configurations of the generations stored so far
  healthiness  \* the healthiness cells of all their addresses

configVars == <<loaded, healthiness>>

Current == loaded[Len(loaded)]

Pool(g, p) == loaded[g].backend_pools[p]

(* The positions of the addresses of a pool, and its address at one.       *)
Positions(g, p) == DOMAIN Pool(g, p).addresses

AddressOf(c) == Pool(c[1], c[2]).addresses[c[3]]

(* The cells of generation g of the configurations ld.                     *)
CellsOf(ld, g) ==
  UNION {{<<g, p, i>> : i \in DOMAIN ld[g].backend_pools[p].addresses}
           : p \in DOMAIN ld[g].backend_pools}

Cells(ld) == UNION {CellsOf(ld, g) : g \in DOMAIN ld}

(* What a newly built pool says of an address: it is Healthy until a       *)
(* health check has said otherwise.                                        *)
InitialHealthiness(c) == "Healthy"

RuntimeConfigInit ==
  /\ loaded \in {<<toml>> : toml \in TomlConfigs}
  /\ healthiness = [c \in Cells(loaded) |-> InitialHealthiness(c)]

(* Mutated: the cells are shared between generations and reset.            *)
StoreConfigResetsCells(toml) ==
  /\ Len(loaded) < MaxLoads
  /\ loaded' = Append(loaded, toml)
  /\ healthiness' = [c \in Cells(loaded') |-> InitialHealthiness(c)]

(* watch_config stores the RuntimeConfig it built from the file.  Only     *)
(* this one loop stores one, so the file may be anything it has ever been  *)
(* when it was read.                                                       *)
StoreConfig(toml) ==
  /\ Len(loaded) < MaxLoads
  /\ loaded' = Append(loaded, toml)
  /\ healthiness' = [c \in Cells(loaded') |->
                       IF c \in DOMAIN healthiness THEN healthiness[c]
                                                   ELSE InitialHealthiness(c)]

RuntimeConfigTypeOK ==
  /\ loaded \in Seq(TomlConfigs) \ {<<>>}
  /\ healthiness \in [Cells(loaded) -> Healthiness]

=============================================================================
