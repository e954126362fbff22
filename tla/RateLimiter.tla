---------------------------- MODULE RateLimiter -----------------------------
(***************************************************************************)
(* The RateLimiter middleware of one pool.  Requests of all clients call   *)
(* register_request; they queue for the tokio mutex around the map, and    *)
(* the one that holds it reads the clock and runs to the end without an    *)
(* await.  The map is a LinkedHashMap: its iteration order is the order of *)
(* insertion, kept here as a stamp on every entry.                         *)
(***************************************************************************)
EXTENDS Integers, Sequences, FiniteSets

CONSTANTS
  Client,        \* client addresses (SocketAddr: one per client connection)
  Limit,         \* limit
  WindowSec,     \* window_sec
  CountMax,      \* u64::MAX
  TicksPerSec,   \* the clock's resolution
  MaxTime,       \* bound: ticks
  MaxRequests,   \* bound: requests registered
  MaxWaiting     \* bound: requests waiting for the mutex

ASSUME RateLimiterAssumption ==
  /\ Limit \in Nat
  /\ WindowSec \in Nat
  /\ TicksPerSec \in Nat \ {0}
  /\ CountMax \in Nat
  /\ Limit < CountMax
  /\ MaxTime \in Nat /\ MaxRequests \in Nat /\ MaxWaiting \in Nat

VARIABLES
  clock,         \* what Instant::now returns
  connections,   \* the map: count, time and insertion stamp per client
  inserted,      \* the number of insertions so far
  waiting,       \* calls waiting for the mutex, in the order they get it
  sent           \* history: a client's registered requests and their verdicts

vars == <<clock, connections, inserted, waiting, sent>>

Init ==
  /\ clock = 0
  /\ connections = [c \in {} |-> 0]
  /\ inserted = 0
  /\ waiting = <<>>
  /\ sent = [c \in Client |-> <<>>]

(* now.duration_since(time).as_secs()                                      *)
as_secs(duration) == duration \div TicksPerSec

Expired(time, now) == as_secs(now - time) > WindowSec

(* Mutated: the client's own entry is taken out before the eviction.       *)
old_entriesOfOthers(now) ==
  LET others == DOMAIN connections \ {Head(waiting).client} IN
  {c \in others :
     \A b \in others :
       connections[b].stamp <= connections[c].stamp => Expired(connections[b].time, now)}

(* take_while over the iteration order: the entries before the first one   *)
(* that is not expired.                                                    *)
old_entries(now) ==
  {c \in DOMAIN connections :
     \A b \in DOMAIN connections :
       connections[b].stamp <= connections[c].stamp => Expired(connections[b].time, now)}

(* Mutated: no check against overflow.                                     *)
IncrementUnchecked(count) == count + 1

Increment(count) == IF count < CountMax THEN count + 1 ELSE count

(* Removing and reinserting puts the entry at the end of the order.        *)
Stamp(c) == inserted + 1

(* Mutated: one request more than the limit.                               *)
AdmitsOffByOne(count) == count <= Limit + 1

Admits(count) == count <= Limit

(* Mutated: the time of the call, read before the mutex was locked.        *)
NowBeforeLock(call) == call.time

Now(call) == clock

(* register_request, from the moment it holds the mutex, and the verdict   *)
(* modify_request makes of it.                                             *)
register_request ==
  LET call  == Head(waiting)
      c     == call.client
      now   == Now(call)
      stay  == DOMAIN connections \ old_entries(now)
      count == Increment(IF c \in stay THEN connections[c].count ELSE 0)
  IN
  /\ waiting # <<>>
  /\ inserted < MaxRequests
  /\ connections' = [b \in stay \cup {c} |->
                       IF b = c THEN [count |-> count, time |-> now, stamp |-> Stamp(c)]
                       ELSE connections[b]]
  /\ inserted' = inserted + 1
  /\ waiting' = Tail(waiting)
  /\ sent' = [sent EXCEPT ![c] = Append(@, [time |-> clock, admitted |-> Admits(count)])]
  /\ UNCHANGED clock

(* modify_request calls register_request, which waits for the mutex.       *)
modify_request(c) ==
  /\ Len(waiting) < MaxWaiting
  /\ waiting' = Append(waiting, [client |-> c, time |-> clock])
  /\ UNCHANGED <<clock, connections, inserted, sent>>

(* The client's connection is closed: its call is dropped while it waits.  *)
Disconnect(i) ==
  /\ waiting' = [j \in 1 .. Len(waiting) - 1 |-> IF j < i THEN waiting[j] ELSE waiting[j + 1]]
  /\ UNCHANGED <<clock, connections, inserted, sent>>

Tick ==
  /\ clock < MaxTime
  /\ clock' = clock + 1
  /\ UNCHANGED <<connections, inserted, waiting, sent>>

Next ==
  \/ \E c \in Client : modify_request(c)
  \/ register_request
  \/ \E i \in DOMAIN waiting : Disconnect(i)
  \/ Tick

Spec == Init /\ [][Next]_vars
-----------------------------------------------------------------------------
TypeOK ==
  /\ clock \in Nat /\ inserted \in Nat
  /\ DOMAIN connections \subseteq Client
  /\ connections \in [DOMAIN connections -> [count : 1 .. CountMax, time : Nat, stamp : Nat]]
  /\ waiting \in Seq([client : Client, time : Nat])
  /\ sent \in [Client -> Seq([time : Nat, admitted : BOOLEAN])]

(* The requests of a client, up to its k-th, that follow one another, and  *)
(* lead to the k-th, without a pause longer than the window.               *)
Burst(requests, k) ==
  {i \in 1 .. k : \A j \in i .. k - 1 : ~Expired(requests[j].time, requests[j + 1].time)}

(* The client has not sent anything for longer than the window before it.  *)
AfterPause(requests, i) == i = 1 \/ Expired(requests[i - 1].time, requests[i].time)

(* From their i-th and j-th on, the next n requests of two clients follow  *)
(* at the same distances.                                                  *)
SameRhythm(these, i, those, j, n) ==
  \A m \in 0 .. n : these[i + m].time - these[i].time = those[j + m].time - those[j].time

(* The verdict on a request depends on nothing but its client's requests   *)
(* since that client last paused: who sends in the same rhythm after a     *)
(* pause gets the same verdicts, be it another client or the same one      *)
(* later.  And the first Limit requests after a pause pass.  Neither the   *)
(* requests of others, which evict entries, nor the early stop of the      *)
(* eviction, nor the saturation of the count, nor the wait for the mutex   *)
(* makes a difference.                                                     *)
VerdictsFromOwnRequests ==
  /\ \A b, c \in Client : \A i \in DOMAIN sent[b], j \in DOMAIN sent[c] :
       AfterPause(sent[b], i) /\ AfterPause(sent[c], j) =>
         \A n \in 0 .. Len(sent[b]) - i :
           j + n \in DOMAIN sent[c] /\ SameRhythm(sent[b], i, sent[c], j, n) =>
             sent[b][i + n].admitted = sent[c][j + n].admitted
  /\ \A c \in Client : \A k \in DOMAIN sent[c] :
       Cardinality(Burst(sent[c], k)) <= Limit => sent[c][k].admitted

(* Of a client's requests that come within the window, at most Limit pass: *)
(* a stretch of requests with more admitted ones is longer than that.      *)
RateLimitEnforced ==
  \A c \in Client : \A k, l \in DOMAIN sent[c] :
    Cardinality({i \in k .. l : sent[c][i].admitted}) > Limit
    => Expired(sent[c][k].time, sent[c][l].time)

(* "Due to temporal order in LinkedHashMap stopping early is possible":    *)
(* after every request the map holds no expired entry, so its size is      *)
(* bounded by the clients seen within the window.                          *)
NoExpiredEntryStays ==
  [][inserted' # inserted => \A c \in DOMAIN connections' : ~Expired(connections'[c].time, clock)]_vars
=============================================================================
