----------------------- MODULE LeastConnectionProofs ------------------------
(***************************************************************************)
(* Proofs about LeastConnection, for pools of any size and any number of   *)
(* requests and streams that a usize can count.                            *)
(***************************************************************************)
EXTENDS LeastConnection, FiniteSetTheorems, WellFoundedInduction, TLAPS

(* Neither the live streams nor those being connected exceed the bound.    *)
Bounded == \A a \in Address : streams[a] + connecting[a] <= MaxConnections

IInv == TypeOK /\ IsFiniteSet(DOMAIN connections) /\ CountsAreLiveStreams /\ Bounded
-----------------------------------------------------------------------------
(* Setting an entry changes that entry only.                               *)
LEMMA WithEntryIsUpdate ==
  ASSUME NEW a \in Address, NEW n \in 0 .. UsizeModulus - 1, IInv,
         connections' = WithEntry(a, n)
  PROVE  /\ DOMAIN connections' = DOMAIN connections \cup {a}
         /\ DOMAIN connections' \subseteq Address
         /\ IsFiniteSet(DOMAIN connections')
         /\ connections' \in [DOMAIN connections' -> 0 .. UsizeModulus - 1]
         /\ Entry(a, 0)' = n
         /\ \A b \in Address \ {a} : Entry(b, 0)' = Entry(b, 0)
<1>1. DOMAIN connections' = DOMAIN connections \cup {a}
  BY DEF WithEntry
<1>2. IsFiniteSet(DOMAIN connections')
  BY <1>1, FS_AddElement DEF IInv
<1>3. connections' \in [DOMAIN connections' -> 0 .. UsizeModulus - 1]
  BY DEF WithEntry, IInv, TypeOK
<1> QED BY <1>1, <1>2, <1>3 DEF WithEntry, Entry, IInv, TypeOK

(* A count that stays within usize is not reduced by the modulus.          *)
LEMMA NoWrap == ASSUME NEW n \in 0 .. UsizeModulus - 1 PROVE n % UsizeModulus = n
BY ModulusAssumption

(* The counters and the streams change together.                           *)
LEMMA OpenIInv == ASSUME IInv, NEW a \in Address, ConnectSucceeds(a) PROVE IInv'
<1> DEFINE n == streams[a] + 1
<1>1. /\ connecting[a] \in Nat /\ connecting[a] > 0 /\ streams[a] \in Nat
      /\ streams[a] + connecting[a] <= MaxConnections /\ Entry(a, 0) = streams[a]
  BY DEF IInv, TypeOK, Bounded, CountsAreLiveStreams, ConnectSucceeds
<1>2. n \in 0 .. UsizeModulus - 1
  BY <1>1, ModulusAssumption
<1>3. connections' = WithEntry(a, n)
  BY <1>1, <1>2, NoWrap DEF ConnectSucceeds, on_tcp_open
<1>4. /\ streams' = [streams EXCEPT ![a] = n] /\ connecting' = [connecting EXCEPT ![a] = connecting[a] - 1]
      /\ request' = request
  BY DEF ConnectSucceeds
<1>5. TypeOK'
  <2>1. streams' \in [Address -> Nat] /\ connecting' \in [Address -> Nat]
    BY <1>1, <1>4 DEF IInv, TypeOK
  <2>2. /\ DOMAIN connections' \subseteq Address
        /\ connections' \in [DOMAIN connections' -> 0 .. UsizeModulus - 1]
    BY <1>2, <1>3, WithEntryIsUpdate, Zenon
  <2> QED BY <1>4, <2>1, <2>2 DEF IInv, TypeOK
<1>6. CountsAreLiveStreams'
  BY <1>2, <1>3, <1>4, WithEntryIsUpdate, Zenon DEF IInv, TypeOK, CountsAreLiveStreams
<1>7. Bounded'
  BY <1>1, <1>4 DEF IInv, TypeOK, Bounded
<1> QED BY <1>2, <1>3, <1>5, <1>6, <1>7, WithEntryIsUpdate, Zenon DEF IInv

(* The same when a stream is dropped.                                      *)
LEMMA CloseIInv == ASSUME IInv, NEW a \in Address, DropStream(a) PROVE IInv'
<1> DEFINE n == streams[a] - 1
<1>1. /\ connecting[a] \in Nat /\ streams[a] > 0 /\ streams[a] \in Nat
      /\ streams[a] + connecting[a] <= MaxConnections /\ Entry(a, 0) = streams[a]
  BY DEF IInv, TypeOK, Bounded, CountsAreLiveStreams, DropStream
<1>2. n \in 0 .. UsizeModulus - 1
  BY <1>1, ModulusAssumption
<1>3. Entry(a, 1) = streams[a]
  BY <1>1 DEF Entry
<1>4. connections' = WithEntry(a, n)
  BY <1>2, <1>3, NoWrap DEF DropStream, on_tcp_close
<1>5. streams' = [streams EXCEPT ![a] = n] /\ connecting' = connecting /\ request' = request
  BY DEF DropStream
<1>6. TypeOK'
  <2>1. streams' \in [Address -> Nat] /\ connecting' \in [Address -> Nat]
    BY <1>1, <1>5 DEF IInv, TypeOK
  <2>2. /\ DOMAIN connections' \subseteq Address
        /\ connections' \in [DOMAIN connections' -> 0 .. UsizeModulus - 1]
    BY <1>2, <1>4, WithEntryIsUpdate, Zenon
  <2> QED BY <1>5, <2>1, <2>2 DEF IInv, TypeOK
<1>7. CountsAreLiveStreams'
  BY <1>2, <1>4, <1>5, WithEntryIsUpdate, Zenon DEF IInv, TypeOK, CountsAreLiveStreams
<1>8. Bounded'
  <2> SUFFICES ASSUME NEW b \in Address PROVE streams'[b] + connecting'[b] <= MaxConnections
    BY DEF Bounded
  <2>1. CASE b = a
    BY <1>1, <1>5, <2>1, ModulusAssumption DEF IInv, TypeOK
  <2>2. CASE b # a
    BY <1>5, <2>2 DEF IInv, TypeOK, Bounded
  <2> QED BY <2>1, <2>2
<1> QED BY <1>2, <1>4, <1>6, <1>7, <1>8, WithEntryIsUpdate, Zenon DEF IInv

(* The positions that address_indices yields are positions of the offered  *)
(* addresses.                                                              *)
LEMMA IndicesAreOffered ==
  ASSUME NEW offered PROVE address_indices(offered) \subseteq offered
BY DEF address_indices, IndexOf

(* Every step preserves the invariant.                                     *)
LEMMA NextIInv == ASSUME IInv, [Next]_vars PROVE IInv'
<1>1. ASSUME NEW r \in Request, NEW offered \in (SUBSET DOMAIN Addresses) \ {{}},
             SelectBackend(r, offered) \/ SelectBackendPanics(r, offered)
      PROVE  IInv'
  <2>1. UNCHANGED <<connections, streams, connecting>>
    BY <1>1 DEF SelectBackend, SelectBackendPanics
  <2>2. PICK i \in {0} \cup offered, phase \in {"selected", "panicked"} :
          /\ phase = "selected" => i \in offered
          /\ request' = [request EXCEPT ![r] = [phase |-> phase, position |-> i, offered |-> offered]]
    BY <1>1, IndicesAreOffered DEF SelectBackend, SelectBackendPanics
  <2>3. TypeOK'
    BY <2>1, <2>2 DEF IInv, TypeOK
  <2> QED BY <2>1, <2>3 DEF IInv, CountsAreLiveStreams, Bounded, Entry
<1>2. ASSUME NEW r \in Request, NewConnection(r) PROVE IInv'
  BY <1>2 DEF NewConnection, Idle, IInv, TypeOK, CountsAreLiveStreams, Bounded, Entry
<1>3. ASSUME NEW r \in Request, SendRequest(r) PROVE IInv'
  <2> DEFINE a == Addresses[request[r].position]
  <2>1. request' = [request EXCEPT ![r] = Idle] /\ UNCHANGED <<connections, streams>>
    BY <1>3 DEF SendRequest
  <2>2. a \in Address
    BY <1>3, AddressesAssumption DEF SendRequest, IInv, TypeOK
  <2>3. CASE UNCHANGED connecting
    BY <2>1, <2>3 DEF Idle, IInv, TypeOK, CountsAreLiveStreams, Bounded, Entry
  <2>4. CASE /\ streams[a] + connecting[a] < MaxConnections
             /\ connecting' = [connecting EXCEPT ![a] = connecting[a] + 1]
    <3>1. Bounded' /\ connecting' \in [Address -> Nat]
      BY <2>1, <2>2, <2>4, ModulusAssumption DEF IInv, TypeOK, Bounded
    <3>2. TypeOK'
      BY <2>1, <3>1 DEF Idle, IInv, TypeOK
    <3> QED BY <2>1, <3>1, <3>2 DEF IInv, CountsAreLiveStreams, Entry
  <2> QED BY <1>3, <2>3, <2>4 DEF SendRequest
<1>4. ASSUME NEW a \in Address, ConnectFails(a) PROVE IInv'
  <2>1. /\ connecting' = [connecting EXCEPT ![a] = connecting[a] - 1] /\ connecting[a] > 0
        /\ UNCHANGED <<connections, streams, request>>
    BY <1>4 DEF ConnectFails
  <2>2. Bounded' /\ connecting' \in [Address -> Nat]
    BY <2>1, ModulusAssumption DEF IInv, TypeOK, Bounded
  <2> QED BY <2>1, <2>2 DEF IInv, TypeOK, CountsAreLiveStreams, Entry
<1>5. CASE UNCHANGED vars
  BY <1>5 DEF vars, IInv, TypeOK, CountsAreLiveStreams, Bounded, Entry
<1> QED BY <1>1, <1>2, <1>3, <1>4, <1>5, OpenIInv, CloseIInv DEF Next

(* No stream is open at the start, and no address has a count.             *)
LEMMA InitIInv == ASSUME Init PROVE IInv
BY FS_EmptySet, ModulusAssumption DEF Init, Idle, IInv, TypeOK, CountsAreLiveStreams, Bounded, Entry

(* The inductive invariant holds in every reachable state.                 *)
THEOREM Invariance == Spec => []IInv
BY InitIInv, NextIInv, PTL DEF Spec

(* The strategy's counts stay within usize, its map within the addresses,  *)
(* and a selected position is one of those that were offered.              *)
THEOREM TypeCorrect == Spec => []TypeOK
<1>1. IInv => TypeOK
  BY DEF IInv
<1> QED BY <1>1, Invariance, PTL

(* A nonempty map of numbers has a least entry.                            *)
LEMMA SomeLeastTracked ==
  ASSUME TypeOK, DOMAIN connections # {}
  PROVE  \E a \in LeastTracked : TRUE
<1> DEFINE T == {connections[a] : a \in DOMAIN connections}
<1>1. T \subseteq Nat /\ T # {}
  BY ModulusAssumption DEF TypeOK
<1> DEFINE R == {ss \in Nat \X Nat : ss[1] < ss[2]}
<1>0. IsWellFoundedOn(R, Nat)
  BY NatLessThanWellFounded, Zenon DEF OpToRel
<1>2. PICK x \in T : \A y \in T : ~(<<y, x>> \in R)
  <2> HIDE DEF R, T
  <2> QED BY <1>0, <1>1, WFMin, Zenon
<1>3. \A y \in T : x <= y
  <2> SUFFICES ASSUME NEW y \in T PROVE x <= y
    OBVIOUS
  <2>1. x \in Nat /\ y \in Nat
    BY <1>1, <1>2
  <2>2. ~(<<y, x>> \in R)
    BY <1>2
  <2> HIDE DEF T
  <2> QED BY <2>1, <2>2
<1>4. PICK a \in DOMAIN connections : connections[a] = x
  BY <1>2
<1> QED BY <1>3, <1>4 DEF LeastTracked

(* With distinct addresses, an offer that contains every tracked address   *)
(* leads to a choice, and every possible choice is a least loaded one.     *)
LEMMA ChoiceIsLeast ==
  ASSUME IInv, NEW offered \in (SUBSET DOMAIN Addresses) \ {{}},
         Distinct, AllTrackedAreOffered(offered)
  PROVE  /\ ~SelectPanics(offered)
         /\ \A i \in address_indices(offered) : LeastLoaded(i, offered)
<1> DEFINE tracked == DOMAIN connections
           f == [i \in offered |-> Addresses[i]]
<1>1. /\ DOMAIN Addresses = 1 .. Len(Addresses) /\ Len(Addresses) \in Nat
      /\ \A i \in DOMAIN Addresses : Addresses[i] \in Address
  BY AddressesAssumption
<1>2. IsFiniteSet(offered) /\ IsFiniteSet(tracked)
  <2>1. IsFiniteSet(1 .. Len(Addresses))
    BY <1>1, FS_Interval
  <2> QED BY <1>1, <2>1, FS_Subset DEF IInv
<1>3. Cardinality(offered) \in Nat /\ Cardinality(tracked) \in Nat
  BY <1>2, FS_CardinalityType
<1>4. \A a \in Address : a \notin tracked => streams[a] = 0
  BY DEF IInv, CountsAreLiveStreams, Entry
<1>5. \A a \in tracked : streams[a] = connections[a] /\ a \in Address
  BY DEF IInv, TypeOK, CountsAreLiveStreams, Entry
<1>6. \A a \in Address : streams[a] \in Nat
  BY DEF IInv, TypeOK
<1>7. CASE SomeUnused(offered)
  <2>1. \E i \in offered : Addresses[i] \notin tracked
    <3>1. CASE tracked = {}
      <4>1. \E i \in offered : TRUE
        OBVIOUS
      <4> QED BY <3>1, <4>1
    <3>2. CASE Cardinality(offered) > Cardinality(tracked)
      <4> SUFFICES ASSUME \A i \in offered : Addresses[i] \in tracked PROVE FALSE
        OBVIOUS
      <4>1. f \in [offered -> tracked]
        OBVIOUS
      <4>2. Cardinality(tracked) < Cardinality(offered)
        BY <1>3, <3>2
      <4>3. \E i, j \in offered : i # j /\ f[i] = f[j]
        <5> HIDE DEF f, tracked
        <5> QED BY <1>2, <4>1, <4>2, FS_PigeonHole
      <4> QED BY <4>3 DEF Distinct
    <3> QED BY <1>7, <3>1, <3>2 DEF SomeUnused
  <2>2. address_indices(offered) = {i \in offered : Addresses[i] \notin tracked}
    BY <1>7 DEF address_indices
  <2>3. ~SelectPanics(offered)
    BY <1>7, <2>1, <2>2 DEF SelectPanics
  <2>4. \A i \in address_indices(offered) : LeastLoaded(i, offered)
    BY <1>1, <1>4, <1>6, <2>2 DEF LeastLoaded
  <2> QED BY <2>3, <2>4
<1>8. CASE ~SomeUnused(offered)
  <2>1. tracked # {} /\ Cardinality(offered) <= Cardinality(tracked)
    BY <1>3, <1>8 DEF SomeUnused
  <2>2. \A i \in offered : Addresses[i] \in tracked
    <3> DEFINE image == {Addresses[i] : i \in offered}
    <3>1. tracked \subseteq image
      BY DEF AllTrackedAreOffered
    <3>2. f \in Surjection(offered, image)
      BY DEF Surjection
    <3>3. IsFiniteSet(image) /\ Cardinality(image) <= Cardinality(offered)
      BY <1>2, <3>2, FS_Surjection
    <3>4. Cardinality(tracked) <= Cardinality(image) /\ Cardinality(image) \in Nat
      BY <3>1, <3>3, FS_Subset, FS_CardinalityType
    <3>5. Cardinality(image) = Cardinality(tracked)
      BY <1>3, <2>1, <3>3, <3>4
    <3>6. image = tracked
      BY <3>1, <3>3, <3>5, FS_Subset
    <3> QED BY <3>6
  <2>3. \A a \in LeastTracked : IndexOf(offered, a) # {}
    <3> SUFFICES ASSUME NEW a \in LeastTracked PROVE IndexOf(offered, a) # {}
      OBVIOUS
    <3>1. PICK i \in offered : Addresses[i] = a
      BY DEF LeastTracked, AllTrackedAreOffered
    <3>2. \A j \in offered : Addresses[j] = a => j <= i
      BY <1>1, <3>1 DEF Distinct
    <3> QED BY <3>1, <3>2 DEF IndexOf
  <2>4. address_indices(offered) = UNION {IndexOf(offered, a) : a \in LeastTracked}
    BY <1>8 DEF address_indices
  <2>5. ~SelectPanics(offered)
    <3>1. PICK a \in LeastTracked : TRUE
      BY <2>1, SomeLeastTracked DEF IInv
    <3>2. address_indices(offered) # {}
      BY <2>3, <2>4, <3>1
    <3> QED BY <1>8, <2>3, <3>2 DEF SelectPanics
  <2>6. \A i \in address_indices(offered) : LeastLoaded(i, offered)
    <3> SUFFICES ASSUME NEW i \in address_indices(offered), NEW j \in offered
                 PROVE  streams[Addresses[i]] <= streams[Addresses[j]]
      BY DEF LeastLoaded
    <3>1. Addresses[i] \in LeastTracked
      BY <2>4 DEF IndexOf
    <3> QED BY <1>5, <2>2, <3>1 DEF LeastTracked
  <2> QED BY <2>5, <2>6
<1> QED BY <1>7, <1>8
-----------------------------------------------------------------------------
(* The counters of the strategy are exactly the live streams: on_tcp_close *)
(* never takes a count below zero, so the lock is never poisoned.          *)
THEOREM CountsAreExact == Spec => []CountsAreLiveStreams
<1>1. IInv => CountsAreLiveStreams
  BY DEF IInv
<1> QED BY <1>1, Invariance, PTL

(* While every address the strategy has a count for passes the health      *)
(* filter, select_backend returns an address with the fewest streams.      *)
THEOREM SelectsLeast == Spec => SelectsLeastWhenAllWork
<1> DEFINE A == \A r \in Request :
                  Decides(r) /\ Distinct /\ AllTrackedAreOffered(request'[r].offered)
                  => /\ request'[r].phase = "selected"
                     /\ LeastLoaded(request'[r].position, request'[r].offered)
<1>1. ASSUME IInv, [Next]_vars PROVE [A]_vars
  <2> SUFFICES ASSUME NEW r \in Request, Decides(r), Distinct,
                      AllTrackedAreOffered(request'[r].offered)
               PROVE  /\ request'[r].phase = "selected"
                      /\ LeastLoaded(request'[r].position, request'[r].offered)
    OBVIOUS
  <2>1. request \in [Request -> [phase : {"idle", "selected", "panicked"},
                                 position : {0} \cup DOMAIN Addresses,
                                 offered : SUBSET DOMAIN Addresses]]
    BY <1>1, Zenon DEF IInv, TypeOK
  <2>2. PICK offered \in (SUBSET DOMAIN Addresses) \ {{}} :
          SelectBackend(r, offered) \/ SelectBackendPanics(r, offered)
    BY <1>1, <2>1 DEF Decides, Next, vars, SelectBackend, SelectBackendPanics, NewConnection,
         SendRequest, ConnectSucceeds, ConnectFails, DropStream, Idle
  <2>3. request'[r].offered = offered
    BY <2>1, <2>2 DEF SelectBackend, SelectBackendPanics
  <2>4. ~SelectPanics(offered) /\ \A i \in address_indices(offered) : LeastLoaded(i, offered)
    BY <1>1, <2>3, ChoiceIsLeast
  <2>5. PICK i \in address_indices(offered) :
          request' = [request EXCEPT ![r] = [phase |-> "selected", position |-> i, offered |-> offered]]
    BY <2>2, <2>4 DEF SelectBackend, SelectBackendPanics
  <2> QED BY <2>1, <2>3, <2>4, <2>5
<1> QED BY <1>1, Invariance, PTL DEF Spec, SelectsLeastWhenAllWork

=============================================================================
