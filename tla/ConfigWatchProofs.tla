------------------------- MODULE ConfigWatchProofs --------------------------
(***************************************************************************)
(* Proofs about ConfigWatch, for any contents, any other events and any    *)
(* number of changes.                                                      *)
(***************************************************************************)
EXTENDS ConfigWatch, SequenceTheorems, TLAPS

IInv == TypeOK /\ ChangesAreNotForgotten
-----------------------------------------------------------------------------
(* Adding an event keeps the ones in the queue, and it is one of them.     *)
LEMMA Appended ==
  ASSUME TypeOK, NEW e \in {"Write"} \cup OtherEvents, events' = Append(events, e)
  PROVE  /\ events' \in Seq({"Write"} \cup OtherEvents)
         /\ \A i \in DOMAIN events : i \in DOMAIN events' /\ events'[i] = events[i]
         /\ \E i \in DOMAIN events' : events'[i] = e
<1>1. /\ events \in Seq({"Write"} \cup OtherEvents) /\ Len(events) \in Nat
      /\ DOMAIN events = 1 .. Len(events)
  BY DEF TypeOK
<1>2. /\ events' \in Seq({"Write"} \cup OtherEvents)
      /\ DOMAIN events' = 1 .. Len(events) + 1
      /\ \A i \in 1 .. Len(events) : events'[i] = events[i]
      /\ events'[Len(events) + 1] = e
  BY <1>1
<1>3. Len(events) + 1 \in DOMAIN events'
  BY <1>1, <1>2
<1> QED BY <1>1, <1>2, <1>3

(* An event in the queue is its head, or is still queued once the head is  *)
(* taken.                                                                  *)
LEMMA Taken ==
  ASSUME TypeOK, events # <<>>, events' = Tail(events)
  PROVE  /\ events' \in Seq({"Write"} \cup OtherEvents)
         /\ Head(events) \in {"Write"} \cup OtherEvents
         /\ \A i \in DOMAIN events :
              events[i] = Head(events) \/ \E j \in DOMAIN events' : events'[j] = events[i]
<1>1. /\ events \in Seq({"Write"} \cup OtherEvents) /\ Len(events) \in Nat
      /\ DOMAIN events = 1 .. Len(events)
  BY DEF TypeOK
<1>2. /\ events' \in Seq({"Write"} \cup OtherEvents) /\ Head(events) \in {"Write"} \cup OtherEvents
      /\ Len(events') = Len(events) - 1
      /\ \A j \in 1 .. Len(events') : events'[j] = events[j + 1]
  BY <1>1, HeadTailProperties
<1>3. DOMAIN events' = 1 .. Len(events')
  BY <1>2
<1>4. ASSUME NEW i \in DOMAIN events
      PROVE  events[i] = Head(events) \/ \E j \in DOMAIN events' : events'[j] = events[i]
  <2>1. CASE i = 1
    BY <1>1, <2>1
  <2>2. CASE i # 1
    <3>1. i - 1 \in 1 .. Len(events') /\ (i - 1) + 1 = i
      BY <1>1, <1>2, <2>2
    <3>2. events'[i - 1] = events[i]
      BY <1>2, <3>1
    <3> QED BY <1>3, <3>1, <3>2
  <2> QED BY <2>1, <2>2
<1> QED BY <1>2, <1>4

(* Forwarding an event.                                                    *)
LEMMA ForwardIInv == ASSUME IInv, Forward PROVE IInv'
<1> DEFINE e == Head(events)
<1>1. /\ watcher = "running" /\ events # <<>> /\ ~Borrowed /\ events' = Tail(events)
      /\ channel' = [value |-> e, version |-> channel.version + 1]
      /\ missed' = (missed \/ (e # "Write" /\ channel.value = "Write" /\ Unread /\ lastRead # file))
      /\ UNCHANGED <<file, edits, dirty, others, watcher, seen, task, lastRead, current, refused>>
  BY DEF Forward, Send, fileVars, taskVars
<1>2. /\ events' \in Seq({"Write"} \cup OtherEvents) /\ e \in {"Write"} \cup OtherEvents
      /\ \A i \in DOMAIN events : events[i] = e \/ \E j \in DOMAIN events' : events'[j] = events[i]
  BY <1>1, Taken DEF IInv
<1>3. channel.version \in Nat /\ seen \in 0 .. channel.version
  BY DEF IInv, TypeOK
<1>4. ~Borrowed'
  BY <1>1 DEF Borrowed
<1>5. TypeOK'
  <2>1. /\ file' \in Content /\ lastRead' \in Content /\ current' \in Content
        /\ edits' \in 0 .. MaxEdits /\ others' \in 0 .. MaxEvents
        /\ dirty' \in BOOLEAN /\ refused' \in BOOLEAN
        /\ watcher' \in {"starting", "running", "ended"}
        /\ task' \in {"looking", "reading", "issuing", "waiting", "panicked", "ended"}
    BY <1>1 DEF IInv, TypeOK
  <2>2. missed' \in BOOLEAN
    BY <1>1 DEF IInv, TypeOK
  <2>3. channel' \in [value : {"Write"} \cup OtherEvents, version : Nat]
    BY <1>1, <1>2, <1>3
  <2>4. seen' \in 0 .. channel'.version
    BY <1>1, <1>3
  <2> QED BY <1>2, <1>4, <2>1, <2>2, <2>3, <2>4 DEF TypeOK
<1>6. ChangesAreNotForgotten'
  <2> SUFFICES ASSUME Alive', lastRead' # file', ~missed' PROVE WriteInFlight'
    BY DEF ChangesAreNotForgotten
  <2>1. WriteInFlight
    BY <1>1, Zenon DEF IInv, ChangesAreNotForgotten, Alive
  <2>2. CASE e = "Write"
    <3>1. channel'.value = "Write" /\ channel'.version # seen'
      BY <1>1, <1>3, <2>2
    <3> QED BY <3>1 DEF WriteInFlight, Unread
  <2>3. CASE e # "Write"
    <3>1. ~(channel.value = "Write" /\ (Unread \/ task = "reading"))
      BY <1>1, <2>3, Zenon DEF Borrowed
    <3>2. dirty \/ \E i \in DOMAIN events : events[i] = "Write"
      BY <2>1, <3>1 DEF WriteInFlight
    <3>3. dirty' \/ \E j \in DOMAIN events' : events'[j] = "Write"
      BY <1>1, <1>2, <2>3, <3>2
    <3> QED BY <3>3 DEF WriteInFlight
  <2> QED BY <2>2, <2>3
<1> QED BY <1>5, <1>6 DEF IInv

(* Every step preserves the invariant.                                     *)
LEMMA NextIInv == ASSUME IInv, [Next]_vars PROVE IInv'
<1> USE DEF fileVars, taskVars
<1>1. ASSUME NEW c \in Content, Edit(c) PROVE IInv'
  <2>1. TypeOK'
    BY <1>1, ConfigWatchAssumption DEF Edit, IInv, TypeOK, Borrowed
  <2>2. ChangesAreNotForgotten'
    BY <1>1, Zenon DEF Edit, IInv, ChangesAreNotForgotten, WriteInFlight
  <2> QED BY <2>1, <2>2 DEF IInv
<1>2. ASSUME EmitWrite PROVE IInv'
  <2>1. events' \in Seq({"Write"} \cup OtherEvents) /\ \E i \in DOMAIN events' : events'[i] = "Write"
    BY <1>2, Appended DEF EmitWrite, IInv
  <2>2. TypeOK'
    BY <1>2, <2>1, Zenon DEF EmitWrite, IInv, TypeOK, Borrowed
  <2>3. ChangesAreNotForgotten'
    BY <2>1 DEF ChangesAreNotForgotten, WriteInFlight
  <2> QED BY <2>2, <2>3 DEF IInv
<1>3. ASSUME NEW e \in OtherEvents, EmitOther(e) PROVE IInv'
  <2>1. /\ events' \in Seq({"Write"} \cup OtherEvents)
        /\ \A i \in DOMAIN events : i \in DOMAIN events' /\ events'[i] = events[i]
    BY <1>3, Appended, Zenon DEF EmitOther, IInv
  <2>2. TypeOK'
    BY <1>3, <2>1, ConfigWatchAssumption DEF EmitOther, IInv, TypeOK, Borrowed
  <2>3. ChangesAreNotForgotten'
    BY <1>3, <2>1 DEF EmitOther, IInv, ChangesAreNotForgotten, WriteInFlight, Alive, Unread
  <2> QED BY <2>2, <2>3 DEF IInv
<1>4. ASSUME WatchFile PROVE IInv'
  BY <1>4 DEF WatchFile, IInv, TypeOK, Borrowed, ChangesAreNotForgotten, WriteInFlight, Alive, Unread
<1>5. ASSUME Look PROVE IInv'
  BY <1>5 DEF Look, IInv, TypeOK, Borrowed, ChangesAreNotForgotten, WriteInFlight, Alive, Unread
<1>6. ASSUME ReadFile PROVE IInv'
  <2>1. TypeOK'
    BY <1>6, ConfigWatchAssumption, Zenon DEF ReadFile, IInv, TypeOK, Borrowed
  <2>2. ChangesAreNotForgotten'
    BY <1>6 DEF ReadFile, ChangesAreNotForgotten
  <2> QED BY <2>1, <2>2 DEF IInv
<1>7. ASSUME FinishCertificates PROVE IInv'
  BY <1>7, Zenon DEF FinishCertificates, IInv, TypeOK, Borrowed, ChangesAreNotForgotten, WriteInFlight,
       Alive, Unread
<1>8. ASSUME Changed PROVE IInv'
  BY <1>8 DEF Changed, IInv, TypeOK, Borrowed, ChangesAreNotForgotten, WriteInFlight, Alive, Unread
<1>9. CASE UNCHANGED vars
  BY <1>9 DEF vars, IInv, TypeOK, Borrowed, ChangesAreNotForgotten, WriteInFlight, Alive, Unread
<1> QED BY <1>1, <1>2, <1>3, <1>4, <1>5, <1>6, <1>7, <1>8, <1>9, ForwardIInv DEF Next, TaskStep

(* At the start the file is the one that was read.                         *)
LEMMA InitIInv == ASSUME Init PROVE IInv
<1>1. events \in Seq({"Write"} \cup OtherEvents)
  BY EmptySeq DEF Init
<1>2. channel \in [value : {"Write"} \cup OtherEvents, version : Nat] /\ channel.version = 0
  BY DEF Init
<1>3. file \in Content /\ lastRead = file /\ current = file
  BY DEF Init
<1>4. TypeOK
  <2>1. edits \in 0 .. MaxEdits /\ others \in 0 .. MaxEvents /\ seen \in 0 .. channel.version
    BY <1>2, ConfigWatchAssumption DEF Init
  <2>2. dirty \in BOOLEAN /\ refused \in BOOLEAN /\ missed \in BOOLEAN
    BY Zenon DEF Init
  <2>3. task = "looking" /\ watcher = "starting"
    BY DEF Init
  <2> QED BY <1>1, <1>2, <1>3, <2>1, <2>2, <2>3 DEF TypeOK, Borrowed
<1> QED BY <1>3, <1>4 DEF IInv, ChangesAreNotForgotten

(* The inductive invariant holds in every reachable state.                 *)
THEOREM Invariance == Spec => []IInv
BY InitIInv, NextIInv, PTL DEF Spec
-----------------------------------------------------------------------------
(* A reload works on the event it was started for.                         *)
THEOREM TypeCorrect == Spec => []TypeOK
<1>1. IInv => TypeOK
  BY DEF IInv
<1> QED BY <1>1, Invariance, PTL

(* A change of the file is read, or its Write is on its way, or it is one  *)
(* of the two kinds of changes that are missed.                            *)
THEOREM NoChangeIsForgotten == Spec => []ChangesAreNotForgotten
<1>1. IInv => ChangesAreNotForgotten
  BY DEF IInv
<1> QED BY <1>1, Invariance, PTL

=============================================================================
