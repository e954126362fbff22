------------------------- MODULE RateLimiterProofs --------------------------
(***************************************************************************)
(* Proofs about RateLimiter, for any limit and window, any clients and any *)
(* number of requests.                                                     *)
(***************************************************************************)
EXTENDS RateLimiter, FiniteSetTheorems, SequenceTheorems, WellFoundedInduction, TLAPS

(* The times of a client's requests do not decrease, and are past.         *)
Chronological(c) ==
  /\ \A i, j \in DOMAIN sent[c] : i <= j => sent[c][i].time <= sent[c][j].time
  /\ \A i \in DOMAIN sent[c] : sent[c][i].time <= clock

Saturated(n) == IF n < CountMax THEN n ELSE CountMax

LastTime(c) == sent[c][Len(sent[c])].time

(* A client's entry counts its last burst.                                 *)
Tracked(c) ==
  /\ Len(sent[c]) > 0
  /\ connections[c].time = LastTime(c)
  /\ connections[c].stamp <= inserted
  /\ connections[c].count = Saturated(Cardinality(Burst(sent[c], Len(sent[c]))))

(* The client has not sent anything for longer than the window.            *)
Silent(c) == Len(sent[c]) = 0 \/ Expired(LastTime(c), clock)

EntryOK(c) ==
  /\ c \in DOMAIN connections => Tracked(c)
  /\ c \notin DOMAIN connections => Silent(c)

VerdictsOK(c) ==
  \A k \in DOMAIN sent[c] : sent[c][k].admitted <=> Cardinality(Burst(sent[c], k)) <= Limit

(* "temporal order in LinkedHashMap"                                       *)
TemporalOrder ==
  \A a, b \in DOMAIN connections :
    connections[a].stamp <= connections[b].stamp => connections[a].time <= connections[b].time

ClientInv(c) == Chronological(c) /\ EntryOK(c) /\ VerdictsOK(c)

IInv == TypeOK /\ TemporalOrder /\ \A c \in Client : ClientInv(c)
-----------------------------------------------------------------------------
(* Whole seconds are monotone in the duration.                             *)
LEMMA SecsMonotone ==
  ASSUME NEW d \in Nat, NEW e \in Nat, d <= e PROVE as_secs(d) <= as_secs(e) /\ as_secs(d) \in Nat
<1> DEFINE q == d \div TicksPerSec
           p == e \div TicksPerSec
<1>1. TicksPerSec \in Nat /\ TicksPerSec > 0
  BY RateLimiterAssumption
<1>2. q \in Nat /\ TicksPerSec * q <= d /\ d < TicksPerSec * (q + 1)
  BY <1>1
<1>3. p \in Nat /\ TicksPerSec * p <= e /\ e < TicksPerSec * (p + 1)
  BY <1>1
<1>4. q <= p
  <2> SUFFICES ASSUME q >= p + 1 PROVE FALSE
    BY <1>2, <1>3
  <2> HIDE DEF p, q
  <2>1. TicksPerSec * (p + 1) <= TicksPerSec * q
    BY <1>1, <1>2, <1>3
  <2>2. TicksPerSec * (p + 1) \in Nat /\ TicksPerSec * q \in Nat
    BY <1>1, <1>2, <1>3
  <2> QED BY <1>1, <1>2, <1>3, <2>1, <2>2
<1> QED BY <1>2, <1>4 DEF as_secs

(* What is expired stays so, and so does what is older.                    *)
LEMMA ExpiredMonotone ==
  ASSUME NEW s \in Nat, NEW t \in Nat, NEW m \in Nat, NEW n \in Nat,
         s <= t, t <= m, m <= n, Expired(t, m)
  PROVE  Expired(s, n)
<1>1. m - t \in Nat /\ n - s \in Nat /\ m - t <= n - s
  OBVIOUS
<1>2. as_secs(m - t) <= as_secs(n - s) /\ as_secs(m - t) \in Nat
  BY <1>1, SecsMonotone
<1>3. as_secs(n - s) \in Nat
  BY <1>1, SecsMonotone
<1> QED BY <1>2, <1>3, RateLimiterAssumption DEF Expired

(* A burst is a finite set of positions.                                   *)
LEMMA BurstFinite ==
  ASSUME NEW s, NEW k \in Nat
  PROVE  /\ IsFiniteSet(Burst(s, k)) /\ Cardinality(Burst(s, k)) \in Nat
         /\ Burst(s, k) \subseteq 1 .. k
<1>1. Burst(s, k) \subseteq 1 .. k /\ IsFiniteSet(1 .. k)
  BY FS_Interval DEF Burst
<1> QED BY <1>1, FS_Subset, FS_CardinalityType

(* The bursts of a client's requests do not change with later requests.    *)
LEMMA BurstPrefix ==
  ASSUME NEW s, NEW t, NEW k \in Nat, \A i \in 1 .. k : t[i] = s[i]
  PROVE  Burst(t, k) = Burst(s, k)
BY DEF Burst, Expired

(* A new request joins the last burst, or starts one of its own.           *)
LEMMA BurstStep ==
  ASSUME NEW s, NEW n \in Nat
  PROVE  /\ n = 0 \/ Expired(s[n].time, s[n + 1].time) =>
              Cardinality(Burst(s, n + 1)) = 1
         /\ n > 0 /\ ~Expired(s[n].time, s[n + 1].time) =>
              Cardinality(Burst(s, n + 1)) = Cardinality(Burst(s, n)) + 1
<1> DEFINE gap(j) == Expired(s[j].time, s[j + 1].time)
<1>1. Burst(s, n + 1) = {i \in 1 .. n + 1 : \A j \in i .. n : ~gap(j)}
  BY DEF Burst
<1>2. Burst(s, n) = {i \in 1 .. n : \A j \in i .. n - 1 : ~gap(j)}
  BY DEF Burst
<1> HIDE DEF gap
<1>3. n + 1 \in Burst(s, n + 1) /\ Burst(s, n + 1) \subseteq 1 .. n + 1
  BY <1>1
<1>4. ASSUME n = 0 \/ gap(n) PROVE Cardinality(Burst(s, n + 1)) = 1
  <2>1. Burst(s, n + 1) = {n + 1}
    <3> SUFFICES ASSUME NEW i \in 1 .. n + 1, i \in Burst(s, n + 1) PROVE i = n + 1
      BY <1>3
    <3>1. CASE n = 0
      BY <3>1
    <3>2. CASE gap(n)
      BY <1>1, <3>2
    <3> QED BY <1>4, <3>1, <3>2
  <2>2. Cardinality({n + 1}) = 1
    BY FS_Singleton, Zenon
  <2> QED BY <2>1, <2>2
<1>5. ASSUME n > 0, ~gap(n) PROVE Cardinality(Burst(s, n + 1)) = Cardinality(Burst(s, n)) + 1
  <2>1. Burst(s, n + 1) = Burst(s, n) \cup {n + 1}
    <3>1. ASSUME NEW i \in 1 .. n PROVE i \in Burst(s, n + 1) <=> i \in Burst(s, n)
      BY <1>1, <1>2, <1>5
    <3>2. Burst(s, n) \subseteq 1 .. n
      BY <1>2
    <3> QED BY <1>3, <3>1, <3>2
  <2>2. n + 1 \notin Burst(s, n)
    BY <1>2
  <2> QED BY <2>1, <2>2, BurstFinite, FS_AddElement
<1> QED BY <1>4, <1>5 DEF gap

(* The times in a client's history are numbers.                            *)
LEMMA RequestTimes ==
  ASSUME TypeOK, NEW c \in Client
  PROVE  /\ Len(sent[c]) \in Nat /\ DOMAIN sent[c] = 1 .. Len(sent[c])
         /\ \A i \in DOMAIN sent[c] : sent[c][i].time \in Nat
<1>1. sent[c] \in Seq([time : Nat, admitted : BOOLEAN])
  BY DEF TypeOK
<1>2. Len(sent[c]) \in Nat /\ DOMAIN sent[c] = 1 .. Len(sent[c])
  BY <1>1
<1>3. \A i \in DOMAIN sent[c] : sent[c][i] \in [time : Nat, admitted : BOOLEAN]
  BY <1>1, <1>2, ElementOfSeq, Zenon
<1> QED BY <1>2, <1>3

(* The early stop finds every expired entry.                               *)
LEMMA OldEntriesAreTheExpired ==
  ASSUME IInv
  PROVE  old_entries(clock) = {c \in DOMAIN connections : Expired(connections[c].time, clock)}
<1> SUFFICES ASSUME NEW c \in DOMAIN connections, Expired(connections[c].time, clock),
                    NEW b \in DOMAIN connections, connections[b].stamp <= connections[c].stamp
             PROVE  Expired(connections[b].time, clock)
  BY DEF old_entries, IInv, TypeOK
<1>1. c \in Client /\ b \in Client /\ connections[b].time <= connections[c].time
  BY DEF IInv, TypeOK, TemporalOrder
<1>2. connections[b].time \in Nat /\ connections[c].time \in Nat /\ clock \in Nat
  BY DEF IInv, TypeOK
<1>3. connections[c].time <= clock
  <2>1. sent[c] \in Seq([time : Nat, admitted : BOOLEAN]) /\ Len(sent[c]) > 0
    BY <1>1 DEF IInv, TypeOK, ClientInv, EntryOK, Tracked
  <2>2. Len(sent[c]) \in DOMAIN sent[c]
    BY <2>1
  <2>3. Chronological(c) /\ connections[c].time = LastTime(c)
    BY <1>1 DEF IInv, ClientInv, EntryOK, Tracked
  <2> QED BY <2>2, <2>3 DEF Chronological, LastTime
<1> QED BY <1>1, <1>2, <1>3, ExpiredMonotone

(* A request of c leaves the invariant of every other client alone, though *)
(* it may evict that client's entry.                                       *)
LEMMA OthersKeepInv ==
  ASSUME IInv, NEW b \in Client, sent'[b] = sent[b], clock' = clock, inserted' \in Nat,
         inserted <= inserted',
         b \in DOMAIN connections' => b \in DOMAIN connections /\ connections'[b] = connections[b],
         b \in DOMAIN connections /\ b \notin DOMAIN connections' => Expired(connections[b].time, clock)
  PROVE  ClientInv(b)'
<1>1. Chronological(b)' /\ VerdictsOK(b)'
  BY DEF IInv, ClientInv, Chronological, VerdictsOK, Burst, Expired
<1>2. LastTime(b)' = LastTime(b) /\ Len(sent'[b]) = Len(sent[b])
  BY DEF LastTime
<1>3. EntryOK(b)
  BY DEF IInv, ClientInv
<1>5. CASE b \in DOMAIN connections'
  <2>1. connections[b].stamp \in Nat /\ inserted \in Nat
    BY <1>5 DEF IInv, TypeOK
  <2>2. Tracked(b)
    BY <1>3, <1>5 DEF EntryOK
  <2>3. connections'[b].stamp <= inserted'
    BY <1>5, <2>1, <2>2 DEF Tracked
  <2>4. connections'[b].count = Saturated(Cardinality(Burst(sent'[b], Len(sent'[b]))))
    BY <1>5, <2>2 DEF Tracked
  <2>5. Tracked(b)'
    BY <1>2, <1>5, <2>2, <2>3, <2>4 DEF Tracked, Saturated
  <2> QED BY <1>1, <1>5, <2>5 DEF EntryOK, ClientInv
<1>6. CASE b \notin DOMAIN connections'
  <2>1. Silent(b)
    BY <1>3, <1>6 DEF EntryOK, Tracked, Silent
  <2>2. Silent(b)'
    BY <1>2, <2>1 DEF Silent, Expired, as_secs
  <2> QED BY <1>1, <1>6, <2>2 DEF EntryOK, ClientInv
<1> QED BY <1>5, <1>6

(* register_request decides from the client's own requests.                *)
LEMMA RegisterKeepsOwnInv ==
  ASSUME IInv, register_request, NEW c \in Client, c = Head(waiting).client
  PROVE  ClientInv(c)'
<1> DEFINE n == Len(sent[c])
           stay == DOMAIN connections \ old_entries(clock)
           before == IF c \in stay THEN connections[c].count ELSE 0
           count == Increment(before)
           e == [time |-> clock, admitted |-> Admits(count)]
           fresh == n > 0 /\ ~Expired(LastTime(c), clock)
<1>1. n \in Nat /\ clock \in Nat /\ inserted \in Nat
  BY DEF IInv, TypeOK
<1>2. /\ connections' = [b \in stay \cup {c} |->
                           IF b = c THEN [count |-> count, time |-> clock, stamp |-> inserted + 1]
                           ELSE connections[b]]
      /\ sent' = [sent EXCEPT ![c] = Append(sent[c], e)]
      /\ clock' = clock /\ inserted' = inserted + 1
  BY DEF register_request, Now, Stamp
<1>3. EntryOK(c) /\ Chronological(c) /\ VerdictsOK(c)
  BY <1>1 DEF IInv, ClientInv
<1>4. c \in stay <=> fresh
  BY <1>1, <1>3, OldEntriesAreTheExpired DEF EntryOK, Tracked, Silent
<1> DEFINE s == sent'[c]
<1>5. /\ sent[c] \in Seq([time : Nat, admitted : BOOLEAN])
      /\ s = Append(sent[c], e) /\ Len(s) = n + 1 /\ DOMAIN s = 1 .. n + 1
      /\ \A i \in 1 .. n : s[i] = sent[c][i]
      /\ s[n + 1] = e /\ DOMAIN sent[c] = 1 .. n
  <2>1. sent \in [Client -> Seq([time : Nat, admitted : BOOLEAN])]
    BY DEF IInv, TypeOK
  <2> HIDE DEF e
  <2>2. s = Append(sent[c], e)
    BY <1>2, <2>1
  <2>3. sent[c] \in Seq([time : Nat, admitted : BOOLEAN])
    BY <2>1
  <2> QED BY <2>2, <2>3
<1> HIDE DEF n, stay, before, count, e, fresh, s
<1>6. ASSUME NEW k \in 1 .. n PROVE Burst(s, k) = Burst(sent[c], k)
  <2>1. k \in Nat /\ \A i \in 1 .. k : s[i] = sent[c][i]
    BY <1>1, <1>5
  <2> QED BY <2>1, BurstPrefix, Zenon
<1>7. s[n + 1].time = clock /\ s[n + 1].admitted = Admits(count)
  BY <1>5 DEF e
<1>last. LastTime(c) = sent[c][n].time /\ (n > 0 => s[n] = sent[c][n])
  <2>1. n > 0 => n \in 1 .. n
    BY <1>1
  <2> QED BY <1>5, <2>1 DEF LastTime, n
<1> DEFINE size == Cardinality(Burst(s, n + 1))
           old == Cardinality(Burst(sent[c], n))
<1>8. old \in Nat /\ size \in Nat
  BY <1>1, BurstFinite
<1>9. fresh => size = old + 1 /\ before = Saturated(old)
  <2> SUFFICES ASSUME fresh PROVE size = old + 1 /\ before = Saturated(old)
    OBVIOUS
  <2>1. n \in 1 .. n /\ s[n].time = LastTime(c)
    BY <1>1, <1>last DEF fresh
  <2>2. size = Cardinality(Burst(s, n)) + 1
    BY <1>1, <1>7, <2>1, BurstStep, Zenon DEF fresh
  <2>3. before = Saturated(old)
    BY <1>3, <1>4 DEF EntryOK, Tracked, fresh, before, stay, n
  <2> QED BY <1>6, <2>1, <2>2, <2>3
<1>10. ~fresh => size = 1 /\ before = 0
  <2> SUFFICES ASSUME ~fresh PROVE size = 1 /\ before = 0
    OBVIOUS
  <2>2. n = 0 \/ Expired(s[n].time, s[n + 1].time)
    BY <1>1, <1>7, <1>last DEF fresh
  <2> QED BY <1>1, <1>4, <2>2, BurstStep, Zenon DEF before
<1>11. count = Saturated(size)
  <2> HIDE DEF size, old
  <2> QED BY <1>8, <1>9, <1>10, RateLimiterAssumption DEF Increment, Saturated, count
<1>12. Admits(count) <=> size <= Limit
  <2> HIDE DEF size
  <2> QED BY <1>8, <1>11, RateLimiterAssumption DEF Admits, Saturated
<1>13. VerdictsOK(c)'
  <2> SUFFICES ASSUME NEW k \in 1 .. n + 1
               PROVE  s[k].admitted <=> Cardinality(Burst(s, k)) <= Limit
    BY <1>5, Zenon DEF VerdictsOK, s
  <2>1. CASE k = n + 1
    BY <1>7, <1>12, <2>1
  <2>2. CASE k \in 1 .. n
    BY <1>3, <1>5, <1>6, <2>2 DEF VerdictsOK
  <2> QED BY <1>1, <2>1, <2>2
<1>14. Chronological(c)'
  <2>1. \A i \in 1 .. n : s[i].time <= clock
    BY <1>3, <1>5, Zenon DEF Chronological
  <2>2. \A i, j \in 1 .. n : i <= j => s[i].time <= s[j].time
    BY <1>3, <1>5, Zenon DEF Chronological
  <2>3. \A i \in 1 .. n + 1 : s[i].time <= clock
    BY <1>1, <1>7, <2>1
  <2>4. \A i, j \in 1 .. n + 1 : i <= j => s[i].time <= s[j].time
    <3> SUFFICES ASSUME NEW i \in 1 .. n + 1, NEW j \in 1 .. n + 1, i <= j
                 PROVE  s[i].time <= s[j].time
      OBVIOUS
    <3>1. CASE j = n + 1
      BY <1>7, <2>3, <3>1
    <3>2. CASE j \in 1 .. n
      <4>1. i \in 1 .. n
        BY <1>1, <3>2
      <4> QED BY <2>2, <3>2, <4>1
    <3> QED BY <1>1, <3>1, <3>2
  <2>5. clock' = clock /\ DOMAIN sent'[c] = 1 .. n + 1
    BY <1>2, <1>5 DEF s
  <2> QED BY <2>3, <2>4, <2>5 DEF Chronological, s
<1>15. EntryOK(c)'
  <2>1. c \in DOMAIN connections'
    BY <1>2
  <2>2. connections'[c] = [count |-> count, time |-> clock, stamp |-> inserted + 1]
    BY <1>2, Zenon
  <2>3. LastTime(c)' = clock
    BY <1>5, <1>7, Zenon DEF LastTime, s
  <2>4. Len(sent'[c]) > 0 /\ connections'[c].time = LastTime(c)'
    BY <1>1, <1>5, <2>2, <2>3 DEF s
  <2>5. connections'[c].stamp <= inserted'
    BY <1>1, <1>2, <2>2
  <2>6. connections'[c].count = Saturated(Cardinality(Burst(sent'[c], Len(sent'[c]))))
    BY <1>5, <1>11, <2>2 DEF s
  <2>7. Tracked(c)'
    BY <2>4, <2>5, <2>6 DEF Tracked, Saturated
  <2> QED BY <2>1, <2>7 DEF EntryOK
<1> QED BY <1>13, <1>14, <1>15 DEF ClientInv

(* register_request preserves the invariant.                               *)
LEMMA RegisterIInv == ASSUME IInv, register_request PROVE IInv'
<1> DEFINE stay == DOMAIN connections \ old_entries(clock)
           before(c) == IF c \in stay THEN connections[c].count ELSE 0
<1>1. PICK c \in Client : c = Head(waiting).client
  <2>1. Head(waiting) \in [client : Client, time : Nat]
    BY HeadTailProperties, Zenon DEF register_request, IInv, TypeOK
  <2> QED BY <2>1
<1> DEFINE count == Increment(before(c))
           e == [time |-> clock, admitted |-> Admits(count)]
           entry == [count |-> count, time |-> clock, stamp |-> inserted + 1]
<1>2. /\ connections' = [b \in stay \cup {c} |-> IF b = c THEN entry ELSE connections[b]]
      /\ sent' = [sent EXCEPT ![c] = Append(sent[c], e)]
      /\ clock' = clock /\ inserted' = inserted + 1 /\ waiting' = Tail(waiting) /\ waiting # <<>>
  BY <1>1 DEF register_request, Now, Stamp
<1>3. DOMAIN connections' = stay \cup {c} /\ stay \subseteq Client /\ stay \subseteq DOMAIN connections
  BY <1>2 DEF IInv, TypeOK
<1>4. count \in 1 .. CountMax
  <2>1. before(c) \in 0 .. CountMax
    BY RateLimiterAssumption, SMTT(30) DEF IInv, TypeOK
  <2> HIDE DEF before
  <2> QED BY <2>1, RateLimiterAssumption DEF Increment
<1>5. TypeOK'
  <2> DEFINE E == [count : 1 .. CountMax, time : Nat, stamp : Nat]
  <2>1. entry \in E
    BY <1>4 DEF IInv, TypeOK
  <2>2. connections' \in [DOMAIN connections' -> E]
    <3> HIDE DEF entry, stay
    <3>1. \A b \in stay : connections[b] \in E
      BY <1>3 DEF IInv, TypeOK
    <3> HIDE DEF E
    <3> QED BY <1>2, <1>3, <2>1, <3>1
  <2>3. waiting' \in Seq([client : Client, time : Nat])
    BY <1>2 DEF IInv, TypeOK
  <2>4. sent' \in [Client -> Seq([time : Nat, admitted : BOOLEAN])]
    <3>1. e \in [time : Nat, admitted : BOOLEAN]
      BY DEF IInv, TypeOK, Admits
    <3> HIDE DEF e
    <3> QED BY <1>2, <3>1 DEF IInv, TypeOK
  <2>5. clock' \in Nat /\ inserted' \in Nat
    BY <1>2 DEF IInv, TypeOK
  <2> QED BY <1>3, <2>2, <2>3, <2>4, <2>5 DEF TypeOK
<1>6. ASSUME NEW b \in Client PROVE ClientInv(b)'
  <2>1. CASE b = c
    BY <1>1, <2>1, RegisterKeepsOwnInv
  <2>2. CASE b # c
    <3>1. sent'[b] = sent[b]
      BY <1>2, <2>2 DEF IInv, TypeOK
    <3>2. inserted' \in Nat /\ inserted <= inserted'
      BY <1>2 DEF IInv, TypeOK
    <3>3. b \in DOMAIN connections' => b \in DOMAIN connections /\ connections'[b] = connections[b]
      BY <1>2, <1>3, <2>2
    <3>4. b \in DOMAIN connections /\ b \notin DOMAIN connections' => Expired(connections[b].time, clock)
      BY <1>3, OldEntriesAreTheExpired
    <3> QED BY <1>2, <3>1, <3>2, <3>3, <3>4, OthersKeepInv, Zenon
  <2> QED BY <2>1, <2>2
<1>7. TemporalOrder'
  <2> SUFFICES ASSUME NEW a \in stay \cup {c}, NEW b \in stay \cup {c},
                      connections'[a].stamp <= connections'[b].stamp
               PROVE  connections'[a].time <= connections'[b].time
    BY <1>3 DEF TemporalOrder
  <2>1. connections'[c].time = clock /\ connections'[c].stamp = inserted + 1
    BY <1>2
  <2>2. ASSUME NEW d \in stay, d # c
        PROVE  /\ connections'[d] = connections[d]
               /\ connections[d].stamp \in Nat /\ connections[d].time \in Nat
               /\ connections[d].stamp <= inserted /\ connections[d].time <= clock
    <3>1. d \in Client /\ Tracked(d) /\ Chronological(d) /\ sent[d] \in Seq([time : Nat, admitted : BOOLEAN])
      BY <1>3, <2>2 DEF IInv, ClientInv, EntryOK, TypeOK
    <3>2. Len(sent[d]) \in DOMAIN sent[d]
      BY <3>1 DEF Tracked
    <3>3. connections[d].time <= clock
      BY <3>1, <3>2 DEF Tracked, Chronological, LastTime
    <3> QED BY <1>2, <1>3, <2>2, <3>1, <3>3, Zenon DEF Tracked, IInv, TypeOK
  <2>3. inserted \in Nat /\ clock \in Nat
    BY DEF IInv, TypeOK
  <2>4. CASE b = c
    BY <2>1, <2>2, <2>3, <2>4
  <2>5. CASE b # c /\ a = c
    BY <2>1, <2>2, <2>3, <2>5
  <2>6. CASE b # c /\ a # c
    BY <1>3, <2>2, <2>6 DEF IInv, TemporalOrder
  <2> QED BY <2>4, <2>5, <2>6
<1> QED BY <1>5, <1>6, <1>7 DEF IInv

(* Every step preserves the invariant.                                     *)
LEMMA NextIInv == ASSUME IInv, [Next]_vars PROVE IInv'
<1>1. ASSUME UNCHANGED <<clock, connections, inserted, sent>>,
             waiting' \in Seq([client : Client, time : Nat])
      PROVE  IInv'
  <2>1. TypeOK' /\ TemporalOrder'
    BY <1>1 DEF IInv, TypeOK, TemporalOrder
  <2>2. ASSUME NEW c \in Client PROVE ClientInv(c)'
    BY <1>1, OthersKeepInv DEF IInv, TypeOK
  <2> QED BY <2>1, <2>2 DEF IInv
<1>2. ASSUME NEW c \in Client, modify_request(c) PROVE IInv'
  BY <1>1, <1>2 DEF modify_request, IInv, TypeOK
<1>3. ASSUME NEW i \in DOMAIN waiting, Disconnect(i) PROVE IInv'
  <2>1. waiting \in Seq([client : Client, time : Nat]) /\ i \in 1 .. Len(waiting) /\ Len(waiting) \in Nat
    BY DEF IInv, TypeOK
  <2>2. \A j \in 1 .. Len(waiting) - 1 :
          (IF j < i THEN waiting[j] ELSE waiting[j + 1]) \in [client : Client, time : Nat]
    <3>1. \A j \in 1 .. Len(waiting) : waiting[j] \in [client : Client, time : Nat]
      BY <2>1, ElementOfSeq, Zenon
    <3>2. \A j \in 1 .. Len(waiting) - 1 : j \in 1 .. Len(waiting) /\ j + 1 \in 1 .. Len(waiting)
      BY <2>1
    <3> QED BY <3>1, <3>2
  <2>3. waiting' \in [1 .. Len(waiting) - 1 -> [client : Client, time : Nat]]
    BY <1>3, <2>2 DEF Disconnect
  <2>4. Len(waiting) - 1 \in Nat
    BY <2>1
  <2>5. waiting' \in Seq([client : Client, time : Nat])
    <3> DEFINE n == Len(waiting) - 1
               S == [client : Client, time : Nat]
    <3>1. waiting' \in [1 .. n -> S] /\ n \in Nat
      BY <2>3, <2>4
    <3> HIDE DEF n, S
    <3>2. waiting' \in Seq(S)
      BY <3>1, SeqDef
    <3> QED BY <3>2 DEF S
  <2> QED BY <1>1, <1>3, <2>5 DEF Disconnect
<1>4. ASSUME Tick PROVE IInv'
  <2>1. clock \in Nat /\ clock' = clock + 1 /\ UNCHANGED <<connections, inserted, waiting, sent>>
    BY <1>4 DEF Tick, IInv, TypeOK
  <2>2. TypeOK' /\ TemporalOrder'
    BY <2>1 DEF IInv, TypeOK, TemporalOrder
  <2>3. ASSUME NEW c \in Client PROVE ClientInv(c)'
    <3>1. Chronological(c) /\ EntryOK(c) /\ VerdictsOK(c) /\ sent[c] \in Seq([time : Nat, admitted : BOOLEAN])
      BY DEF IInv, TypeOK, ClientInv
    <3>2. VerdictsOK(c)'
      BY <2>1, <3>1 DEF VerdictsOK
    <3>3. Chronological(c)'
      <4>1. \A i \in DOMAIN sent[c] : sent[c][i].time \in Nat
        BY RequestTimes DEF IInv
      <4> QED BY <2>1, <3>1, <4>1 DEF Chronological
    <3>4. Tracked(c) => Tracked(c)'
      BY <2>1 DEF Tracked, LastTime, Saturated
    <3>5. Silent(c) => Silent(c)'
      <4>1. CASE Len(sent[c]) = 0
        BY <2>1, <4>1 DEF Silent
      <4>2. CASE Len(sent[c]) # 0
        <5>1. Len(sent[c]) \in DOMAIN sent[c]
          BY <3>1, <4>2
        <5>2. LastTime(c) \in Nat /\ LastTime(c) <= clock /\ LastTime(c)' = LastTime(c)
          <6>1. sent[c][Len(sent[c])].time \in Nat
            BY <5>1, RequestTimes DEF IInv
          <6> QED BY <2>1, <3>1, <5>1, <6>1 DEF Chronological, LastTime
        <5>3. Expired(LastTime(c), clock) => Expired(LastTime(c), clock + 1)
          BY <2>1, <5>2, ExpiredMonotone
        <5> QED BY <2>1, <4>2, <5>2, <5>3 DEF Silent, Expired
      <4> QED BY <4>1, <4>2
    <3> QED BY <2>1, <3>1, <3>2, <3>3, <3>4, <3>5 DEF EntryOK, ClientInv
  <2> QED BY <2>2, <2>3 DEF IInv
<1>5. CASE UNCHANGED vars
  BY <1>1, <1>5 DEF vars, IInv, TypeOK
<1> QED BY <1>2, <1>3, <1>4, <1>5, RegisterIInv DEF Next

(* No client has an entry at the start.                                    *)
LEMMA InitIInv == ASSUME Init PROVE IInv
<1>1. TypeOK /\ TemporalOrder
  BY EmptySeq DEF Init, TypeOK, TemporalOrder
<1>2. ASSUME NEW c \in Client PROVE ClientInv(c)
  <2>1. sent[c] = <<>> /\ c \notin DOMAIN connections
    BY DEF Init
  <2> QED BY <2>1 DEF ClientInv, Chronological, EntryOK, Silent, VerdictsOK
<1> QED BY <1>1, <1>2 DEF IInv

(* The inductive invariant holds in every reachable state.                 *)
THEOREM Invariance == Spec => []IInv
BY InitIInv, NextIInv, PTL DEF Spec

(* No count of the map exceeds u64, whatever the number of requests.       *)
THEOREM TypeCorrect == Spec => []TypeOK
<1>1. IInv => TypeOK
  BY DEF IInv
<1> QED BY <1>1, Invariance, PTL

(* A nonempty set of positions up to l has a last one.                     *)
LEMMA LastPosition ==
  ASSUME NEW l \in Nat, NEW A, A \subseteq 0 .. l, A # {}
  PROVE  \E m \in A : \A i \in A : i <= m
<1> DEFINE T == {l - i : i \in A}
           R == {ss \in Nat \X Nat : ss[1] < ss[2]}
<1>1. T \subseteq Nat /\ T # {}
  <2>1. PICK i : i \in A
    OBVIOUS
  <2>2. l - i \in T
    BY <2>1
  <2> QED BY <2>2
<1>2. IsWellFoundedOn(R, Nat)
  BY NatLessThanWellFounded, Zenon DEF OpToRel
<1>3. PICK x \in T : \A y \in T : ~(<<y, x>> \in R)
  <2> HIDE DEF R, T
  <2> QED BY <1>1, <1>2, WFMin, Zenon
<1>4. PICK m \in A : x = l - m
  BY <1>3
<1>5. ASSUME NEW i \in A PROVE i <= m
  <2>1. l - i \in T /\ l - i \in Nat /\ x \in Nat
    BY <1>1, <1>3
  <2>2. ~(l - i < x)
    <3> HIDE DEF T
    <3> QED BY <1>3, <2>1, Zenon
  <2> QED BY <1>4, <2>1, <2>2
<1> QED BY <1>5

(* The verdicts bound what passes within a window.                         *)
LEMMA VerdictsEnforceTheLimit == ASSUME IInv PROVE RateLimitEnforced
<1> SUFFICES ASSUME NEW c \in Client, NEW k \in DOMAIN sent[c], NEW l \in DOMAIN sent[c],
                    Cardinality({i \in k .. l : sent[c][i].admitted}) > Limit,
                    ~Expired(sent[c][k].time, sent[c][l].time)
             PROVE  FALSE
  BY DEF RateLimitEnforced
<1> DEFINE s == sent[c]
           n == Len(s)
           A == {i \in k .. l : s[i].admitted}
<1>1. s \in Seq([time : Nat, admitted : BOOLEAN]) /\ Chronological(c) /\ VerdictsOK(c)
  BY DEF IInv, TypeOK, ClientInv
<1>2. n \in Nat /\ DOMAIN s = 1 .. n /\ k \in 1 .. n /\ l \in 1 .. n /\ l \in Nat
  BY RequestTimes DEF IInv
<1>3. \A i \in 1 .. n : s[i].time \in Nat
  BY <1>2, RequestTimes DEF IInv
<1>4. A # {}
  <2>1. Cardinality(A) > Limit
    OBVIOUS
  <2> HIDE DEF A
  <2>2. A = {} => Cardinality(A) = 0
    BY FS_EmptySet
  <2>3. Cardinality(A) # 0
    BY <2>1, RateLimiterAssumption
  <2> QED BY <2>2, <2>3
<1>5. A \subseteq 0 .. l /\ A \subseteq 1 .. n
  BY <1>2
<1>6. PICK m \in A : \A i \in A : i <= m
  <2> HIDE DEF A
  <2> QED BY <1>2, <1>4, <1>5, LastPosition, Zenon
<1>7. m \in 1 .. n /\ m <= l /\ k <= m /\ s[m].admitted
  BY <1>2, <1>6
<1>8. ASSUME NEW j \in k .. m - 1 PROVE ~Expired(s[j].time, s[j + 1].time)
  <2>1. j \in 1 .. n /\ j + 1 \in 1 .. n /\ k <= j /\ j <= j + 1 /\ j + 1 <= l
    BY <1>2, <1>7
  <2>2. s[k].time <= s[j].time /\ s[j].time <= s[j + 1].time /\ s[j + 1].time <= s[l].time
    BY <1>1, <1>2, <2>1, Zenon DEF Chronological
  <2> QED BY <1>2, <1>3, <2>1, <2>2, ExpiredMonotone, Zenon
<1>9. A \subseteq Burst(s, m)
  <2> SUFFICES ASSUME NEW i \in A PROVE i \in Burst(s, m)
    OBVIOUS
  <2>1. i \in 1 .. m /\ k <= i
    BY <1>2, <1>6, <1>7
  <2>2. \A j \in i .. m - 1 : j \in k .. m - 1
    BY <1>2, <1>7, <2>1
  <2> QED BY <1>8, <2>1, <2>2, Zenon DEF Burst
<1>10. Cardinality(Burst(s, m)) <= Limit
  BY <1>1, <1>2, <1>7, Zenon DEF VerdictsOK
<1>11. m \in Nat /\ IsFiniteSet(Burst(s, m)) /\ Cardinality(Burst(s, m)) \in Nat
  <2>1. m \in Nat
    BY <1>7
  <2> HIDE DEF s
  <2> QED BY <2>1, BurstFinite
<1>12. IsFiniteSet(A) /\ Cardinality(A) <= Cardinality(Burst(s, m))
  <2> HIDE DEF A, s
  <2> QED BY <1>9, <1>11, FS_Subset, Zenon
<1>13. Cardinality(A) \in Nat /\ Cardinality(A) > Limit
  <2>1. Cardinality(A) > Limit
    OBVIOUS
  <2> HIDE DEF A
  <2> QED BY <1>12, <2>1, FS_CardinalityType
<1> HIDE DEF A, s
<1> QED BY <1>10, <1>11, <1>12, <1>13, RateLimiterAssumption
-----------------------------------------------------------------------------
(* The first n requests of a client have times.                            *)
Timed(requests, n) == \A k \in 1 .. n : requests[k].time \in Nat

(* Two stretches of requests, each after a pause, in the same rhythm.      *)
Alike(s, i, t, j, n) ==
  /\ i \in Nat \ {0} /\ j \in Nat \ {0} /\ n \in Nat
  /\ Timed(s, i + n) /\ Timed(t, j + n)
  /\ AfterPause(s, i) /\ AfterPause(t, j)
  /\ SameRhythm(s, i, t, j, n)

(* A burst that begins after a pause, moved to where another client's      *)
(* requests follow in the same rhythm, is part of that client's burst.     *)
LEMMA ShiftedBurst ==
  ASSUME NEW s, NEW t, NEW i, NEW j, NEW n, Alike(s, i, t, j, n), NEW x \in Burst(s, i + n)
  PROVE  x \in i .. i + n /\ x + j - i \in Burst(t, j + n)
<1> USE DEF Alike
<1>1. x \in 1 .. i + n /\ \A k \in x .. i + n - 1 : ~Expired(s[k].time, s[k + 1].time)
  BY DEF Burst
<1>2. x >= i
  <2> SUFFICES ASSUME x < i PROVE FALSE
    BY <1>1
  <2>1. i - 1 \in x .. i + n - 1 /\ i # 1 /\ (i - 1) + 1 = i
    BY <1>1
  <2>2. ~Expired(s[i - 1].time, s[i].time)
    BY <1>1, <2>1
  <2> QED BY <2>1, <2>2 DEF AfterPause
<1>3. x + j - i \in 1 .. j + n
  BY <1>1, <1>2
<1>4. ASSUME NEW k \in x + j - i .. j + n - 1 PROVE ~Expired(t[k].time, t[k + 1].time)
  <2> DEFINE m == k - j
  <2>1. /\ m \in 0 .. n /\ m + 1 \in 0 .. n /\ j + m = k /\ j + (m + 1) = k + 1
        /\ i + m \in x .. i + n - 1 /\ i + (m + 1) = (i + m) + 1
    BY <1>1, <1>2
  <2>2. /\ s[i + m].time - s[i].time = t[j + m].time - t[j].time
        /\ s[i + (m + 1)].time - s[i].time = t[j + (m + 1)].time - t[j].time
    <3> HIDE DEF m
    <3> QED BY <2>1, Zenon DEF SameRhythm
  <2>3. /\ s[i].time \in Nat /\ s[i + m].time \in Nat /\ s[(i + m) + 1].time \in Nat
        /\ t[j].time \in Nat /\ t[k].time \in Nat /\ t[k + 1].time \in Nat
    BY <1>1, <1>2 DEF Timed
  <2>4. s[(i + m) + 1].time - s[i + m].time = t[k + 1].time - t[k].time
    <3> HIDE DEF m
    <3>1. /\ s[i + m].time - s[i].time = t[k].time - t[j].time
          /\ s[(i + m) + 1].time - s[i].time = t[k + 1].time - t[j].time
      BY <2>1, <2>2, Zenon
    <3> DEFINE a == s[i].time
               u == s[i + m].time
               v == s[(i + m) + 1].time
               b == t[j].time
               y == t[k].time
               z == t[k + 1].time
    <3>2. a \in Nat /\ u \in Nat /\ v \in Nat /\ b \in Nat /\ y \in Nat /\ z \in Nat
      BY <2>3
    <3>3. u - a = y - b /\ v - a = z - b
      BY <3>1
    <3> HIDE DEF a, u, v, b, y, z
    <3>4. v - u = z - y
      BY <3>2, <3>3, SMTT(30)
    <3> QED BY <3>4 DEF u, v, y, z
  <2>5. ~Expired(s[i + m].time, s[(i + m) + 1].time)
    <3> HIDE DEF m
    <3> QED BY <1>1, <2>1, Zenon
  <2> HIDE DEF m
  <2> QED BY <2>4, <2>5, Zenon DEF Expired
<1> QED BY <1>1, <1>2, <1>3, <1>4 DEF Burst

(* Bursts of the same rhythm are of the same size.                         *)
LEMMA SameBursts ==
  ASSUME NEW s, NEW t, NEW i, NEW j, NEW n, Alike(s, i, t, j, n)
  PROVE  Cardinality(Burst(s, i + n)) = Cardinality(Burst(t, j + n))
<1> DEFINE B == Burst(s, i + n)
           C == Burst(t, j + n)
           f == [x \in B |-> x + j - i]
<1>1. Alike(t, j, s, i, n)
  BY Zenon DEF SameRhythm, Alike
<1>2. \A x \in B : x \in i .. i + n /\ x + j - i \in C
  BY ShiftedBurst, Zenon
<1>3. \A y \in C : y \in j .. j + n /\ y + i - j \in B
  BY <1>1, ShiftedBurst, Zenon
<1>4. IsFiniteSet(B) /\ i \in Nat /\ j \in Nat
  BY BurstFinite DEF Alike
<1> HIDE DEF B, C
<1>5. f \in [B -> C]
  BY <1>2
<1>6. \A x, y \in B : f[x] = f[y] => x = y
  BY <1>2, <1>4
<1>7. \A y \in C : \E x \in B : f[x] = y
  <2> SUFFICES ASSUME NEW y \in C PROVE \E x \in B : f[x] = y
    OBVIOUS
  <2>1. y + i - j \in B /\ f[y + i - j] = y
    BY <1>3, <1>4
  <2> QED BY <2>1, Zenon
<1> HIDE DEF f
<1>8. f \in Bijection(B, C)
  BY <1>5, <1>6, <1>7 DEF Bijection, Injection, Surjection, IsInjective
<1>9. Cardinality(C) = Cardinality(B)
  BY <1>4, <1>8, FS_Bijection, Zenon DEF ExistsBijection
<1> QED BY <1>9 DEF B, C

(* register_request decides every request from its own client's requests.  *)
THEOREM VerdictsAreOwn == Spec => []VerdictsFromOwnRequests
<1>1. ASSUME IInv PROVE VerdictsFromOwnRequests
  <2>1. \A c \in Client : VerdictsOK(c)
    BY <1>1 DEF IInv, ClientInv
  <2>2. ASSUME NEW b \in Client, NEW c \in Client, NEW i \in DOMAIN sent[b], NEW j \in DOMAIN sent[c],
               AfterPause(sent[b], i), AfterPause(sent[c], j), NEW n \in 0 .. Len(sent[b]) - i,
               j + n \in DOMAIN sent[c], SameRhythm(sent[b], i, sent[c], j, n)
        PROVE  sent[b][i + n].admitted = sent[c][j + n].admitted
    <3>1. /\ DOMAIN sent[b] = 1 .. Len(sent[b]) /\ Len(sent[b]) \in Nat
          /\ DOMAIN sent[c] = 1 .. Len(sent[c]) /\ Len(sent[c]) \in Nat
      BY <1>1, RequestTimes DEF IInv
    <3>2. i \in Nat \ {0} /\ j \in Nat \ {0} /\ n \in Nat /\ i + n \in DOMAIN sent[b]
      BY <3>1
    <3>3. Timed(sent[b], i + n) /\ Timed(sent[c], j + n)
      <4>1. \A k \in 1 .. i + n : k \in DOMAIN sent[b]
        BY <3>1, <3>2
      <4>2. \A k \in 1 .. j + n : k \in DOMAIN sent[c]
        BY <2>2, <3>1, <3>2
      <4> QED BY <1>1, <4>1, <4>2, RequestTimes, Zenon DEF IInv, Timed
    <3>4. Cardinality(Burst(sent[b], i + n)) = Cardinality(Burst(sent[c], j + n))
      <4>1. Alike(sent[b], i, sent[c], j, n)
        BY <2>2, <3>2, <3>3, Zenon DEF Alike
      <4> QED BY <4>1, SameBursts, SMTT(30)
    <3>5. /\ sent[b][i + n].admitted <=> Cardinality(Burst(sent[b], i + n)) <= Limit
          /\ sent[c][j + n].admitted <=> Cardinality(Burst(sent[c], j + n)) <= Limit
      BY <2>1, <2>2, <3>2, Zenon DEF VerdictsOK
    <3>6. sent[b][i + n].admitted \in BOOLEAN /\ sent[c][j + n].admitted \in BOOLEAN
      <4>1. /\ sent[b] \in Seq([time : Nat, admitted : BOOLEAN])
            /\ sent[c] \in Seq([time : Nat, admitted : BOOLEAN])
        BY <1>1 DEF IInv, TypeOK
      <4>2. /\ sent[b][i + n] \in [time : Nat, admitted : BOOLEAN]
            /\ sent[c][j + n] \in [time : Nat, admitted : BOOLEAN]
        BY <2>2, <3>1, <3>2, <4>1, ElementOfSeq, Zenon
      <4> QED BY <4>2
    <3> QED BY <3>4, <3>5, <3>6, Zenon
  <2>3. \A c \in Client : \A k \in DOMAIN sent[c] :
          Cardinality(Burst(sent[c], k)) <= Limit => sent[c][k].admitted
    BY <2>1, Zenon DEF VerdictsOK
  <2>4. \A b, c \in Client : \A i \in DOMAIN sent[b], j \in DOMAIN sent[c] :
          AfterPause(sent[b], i) /\ AfterPause(sent[c], j) =>
            \A n \in 0 .. Len(sent[b]) - i :
              j + n \in DOMAIN sent[c] /\ SameRhythm(sent[b], i, sent[c], j, n) =>
                sent[b][i + n].admitted = sent[c][j + n].admitted
    BY <2>2
  <2> QED BY <2>3, <2>4, Zenon DEF VerdictsFromOwnRequests
<1> QED BY <1>1, Invariance, PTL

(* No client gets more than the limit through within a window.             *)
THEOREM LimitIsEnforced == Spec => []RateLimitEnforced
BY VerdictsEnforceTheLimit, Invariance, PTL

(* The early stop of the eviction leaves no expired entry behind.          *)
THEOREM EvictionIsComplete == Spec => NoExpiredEntryStays
<1> DEFINE A == inserted' # inserted =>
                  \A c \in DOMAIN connections' : ~Expired(connections'[c].time, clock)
<1>1. ASSUME IInv, [Next]_vars PROVE [A]_vars
  <2> SUFFICES ASSUME inserted' # inserted, NEW b \in DOMAIN connections'
               PROVE  ~Expired(connections'[b].time, clock)
    OBVIOUS
  <2>1. register_request
    BY <1>1, Zenon DEF Next, vars, modify_request, Disconnect, Tick
  <2> DEFINE stay == DOMAIN connections \ old_entries(clock)
  <2>2. PICK c : /\ DOMAIN connections' = stay \cup {c}
                 /\ connections'[c].time = clock
                 /\ \A d \in stay : d # c => connections'[d] = connections[d]
    BY <2>1 DEF register_request, Now
  <2>3. CASE b = c
    <3>1. clock \in Nat /\ as_secs(0) = 0
      BY <1>1, RateLimiterAssumption DEF IInv, TypeOK, as_secs
    <3> QED BY <2>2, <2>3, <3>1, RateLimiterAssumption DEF Expired
  <2>4. CASE b # c
    BY <1>1, <2>2, <2>4, OldEntriesAreTheExpired
  <2> QED BY <2>3, <2>4
<1> QED BY <1>1, Invariance, PTL DEF Spec, NoExpiredEntryStays

=============================================================================
