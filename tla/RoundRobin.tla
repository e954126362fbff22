----------------------------- MODULE RoundRobin -----------------------------
(***************************************************************************)
(* The RoundRobin strategy of one pool: a counter behind a mutex, advanced *)
(* modulo the number of addresses that the request at hand found working.  *)
(* Requests of all client connections share the counter.  Each brings the  *)
(* list that its own pass over the healthiness cells has collected, so the *)
(* lists of two selections in a row may differ in any way.                 *)
(***************************************************************************)
EXTENDS Integers, Sequences

CONSTANTS
  Address,     \* backend addresses
  Lists        \* the lists of working addresses that requests may bring

ASSUME ListsAssumption == Lists \subseteq Seq(Address) \ {<<>>}

VARIABLES
  rrc,         \* the counter: the index, from 0, of the last selected address
  addresses,   \* the list of the last selection, empty before the first
  recent       \* history: the indices selected since another list was used,
               \* the last ones, as many as the list has addresses

vars == <<rrc, addresses, recent>>

Init == rrc = 0 /\ addresses = <<>> /\ recent = <<>>

(* Mutated: the counter is reduced before it is incremented.               *)
AdvanceReducedFirst(n) == (rrc % n) + 1

(* Mutated: every request advances the counter twice.                      *)
AdvanceTwice(n) == (rrc + 2) % n

(* The u32 does not overflow: the counter is below the length of the list. *)
Advance(n) == (rrc + 1) % n

(* select_backend, which holds the mutex from beginning to end.            *)
select_backend(list) ==
  /\ rrc' = Advance(Len(list))
  /\ addresses' = list
  /\ recent' = IF list # addresses THEN <<rrc'>>
               ELSE IF Len(recent) < Len(list) THEN Append(recent, rrc')
               ELSE Append(Tail(recent), rrc')

Next == \E list \in Lists : select_backend(list)

Spec == Init /\ [][Next]_vars
-----------------------------------------------------------------------------
(* Types, and: the index is inside the list it is used for, although it    *)
(* was advanced for lists of other lengths before.                         *)
TypeOK ==
  /\ rrc \in Nat
  /\ addresses \in Lists \cup {<<>>}
  /\ recent \in Seq(Nat)
  /\ addresses # <<>> => rrc < Len(addresses)

(* As long as requests bring the same list, any selections in a row, as    *)
(* many as it has addresses, select each of them once, whatever lists were *)
(* used before.                                                            *)
EachOncePerTurn ==
  /\ Len(recent) <= Len(addresses)
  /\ \A j, k \in DOMAIN recent : recent[j] = recent[k] => j = k
=============================================================================
