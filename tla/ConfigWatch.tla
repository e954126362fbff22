---------------------------- MODULE ConfigWatch -----------------------------
(***************************************************************************)
(* How a change of the configuration file reaches the requests.  notify's  *)
(* debouncer turns changes of the file into events in an mpsc channel.  A  *)
(* thread (watch_config_blocking) forwards them into a tokio watch         *)
(* channel, which holds one value, the last.  The watch_config future      *)
(* borrows that value and, when it is a Write, reads the file and stores   *)
(* the new configuration; the borrow is a read lock that it holds until    *)
(* the reload is over, certificates included, and that keeps the thread    *)
(* from sending.                                                           *)
(***************************************************************************)
EXTENDS Integers, Sequences

CONSTANTS
  Content,       \* what the file may contain
  Kind,          \* what read_runtime_config makes of a content
  OtherEvents,   \* the events besides Write that the debouncer may emit
  MaxEdits,      \* bound: changes of the file
  MaxEvents      \* bound: events other than Write, and events queued

ASSUME ConfigWatchAssumption ==
  /\ Kind \in [Content -> {"plain", "acme", "rejected", "panics"}]
  /\ "Write" \notin OtherEvents
  /\ MaxEdits \in Nat /\ MaxEvents \in Nat

VARIABLES
  file,          \* the content of the file
  edits,         \* the number of changes so far
  dirty,         \* the debouncer has seen a change and not emitted its Write
  events,        \* the mpsc channel
  others,        \* the number of other events so far
  watcher,       \* the thread: starting, running or ended
  channel,       \* the watch channel: its value and version
  seen,          \* the version the receiver has seen last
  task,          \* where watch_config is
  lastRead,      \* the content that was read last
  current,       \* the content of the configuration in use
  refused,       \* the last reload failed
  missed         \* history: a change of the file no event will tell of

vars == <<file, edits, dirty, events, others, watcher, channel, seen, task, lastRead, current,
          refused, missed>>

fileVars == <<file, edits, dirty>>
taskVars == <<seen, task, lastRead, current, refused>>

(* read_initial_config has succeeded, and start_config_watcher has made    *)
(* the channel, with a Write in it, and spawned the thread.                *)
Init ==
  /\ file \in {c \in Content : Kind[c] \in {"plain", "acme"}}
  /\ edits = 0 /\ dirty = FALSE /\ events = <<>> /\ others = 0
  /\ watcher = "starting"
  /\ channel = [value |-> "Write", version |-> 0]
  /\ seen = 0 /\ task = "looking"
  /\ lastRead = file /\ current = file
  /\ refused = FALSE /\ missed = FALSE

(* Main has not ended; its end is the end of every thread.                 *)
Alive == task \notin {"panicked", "ended"}

(* receiver.borrow() lives to the end of the match, across the awaits.     *)
Borrowed == task \in {"reading", "issuing"}
-----------------------------------------------------------------------------
(* Someone changes the file.  Before the watch is set up nobody notices.   *)
Edit(c) ==
  /\ Alive /\ edits < MaxEdits
  /\ c # file
  /\ file' = c
  /\ edits' = edits + 1
  /\ dirty' = (dirty \/ watcher = "running")
  /\ missed' = (missed \/ watcher # "running")
  /\ UNCHANGED <<events, others, watcher, channel, taskVars>>

(* The debouncer emits the Write once the file was left alone for a while. *)
EmitWrite ==
  /\ Alive /\ dirty
  /\ Len(events) < MaxEvents
  /\ events' = Append(events, "Write")
  /\ dirty' = FALSE
  /\ UNCHANGED <<file, edits, others, watcher, channel, taskVars, missed>>

(* NoticeWrite, Chmod, Rescan, ...: the debouncer's other events.          *)
EmitOther(e) ==
  /\ Alive /\ watcher = "running"
  /\ others < MaxEvents
  /\ Len(events) < MaxEvents
  /\ events' = Append(events, e)
  /\ others' = others + 1
  /\ UNCHANGED <<fileVars, watcher, channel, taskVars, missed>>
-----------------------------------------------------------------------------
(* watch_config_blocking sets up the watch, or returns with an error,      *)
(* which drops the sender.                                                 *)
WatchFile ==
  /\ Alive /\ watcher = "starting"
  /\ watcher' \in {"running", "ended"}
  /\ UNCHANGED <<fileVars, events, others, channel, taskVars, missed>>

(* The value in the channel has not been looked at.                        *)
Unread == channel.version # seen \/ task = "looking"

(* async_sender.send(e): the value is replaced, looked at or not.          *)
Send(e) ==
  /\ channel' = [value |-> e, version |-> channel.version + 1]
  /\ missed' = (missed \/ (e # "Write" /\ channel.value = "Write" /\ Unread /\ lastRead # file))

(* Mutated: a send that gives up when the value is borrowed.               *)
ForwardOrDrop ==
  /\ Alive /\ watcher = "running" /\ events # <<>>
  /\ events' = Tail(events)
  /\ IF Borrowed THEN UNCHANGED <<channel, missed>> ELSE Send(Head(events))
  /\ UNCHANGED <<fileVars, others, watcher, taskVars>>

(* Mutated: the borrow lives on while watch_config waits for a change.     *)
ForwardBetweenWaits ==
  /\ Alive /\ watcher = "running" /\ events # <<>> /\ ~Borrowed /\ task # "waiting"
  /\ events' = Tail(events)
  /\ Send(Head(events))
  /\ UNCHANGED <<fileVars, others, watcher, taskVars>>

(* Mutated: the borrow has ended before the reload.                        *)
ForwardUnlocked ==
  /\ Alive /\ watcher = "running" /\ events # <<>>
  /\ events' = Tail(events)
  /\ Send(Head(events))
  /\ UNCHANGED <<fileVars, others, watcher, taskVars>>

(* The thread takes the next event and sends it, once it gets the lock.    *)
Forward ==
  /\ Alive /\ watcher = "running" /\ events # <<>> /\ ~Borrowed
  /\ events' = Tail(events)
  /\ Send(Head(events))
  /\ UNCHANGED <<fileVars, others, watcher, taskVars>>
-----------------------------------------------------------------------------
(* config.load() and receiver.borrow(): other events are only logged.      *)
Look ==
  /\ task = "looking"
  /\ task' = IF channel.value = "Write" THEN "reading" ELSE "waiting"
  /\ UNCHANGED <<fileVars, events, others, watcher, channel, seen, lastRead, current, refused, missed>>

(* read_runtime_config up to the certificates.  Without ACME certificates  *)
(* the result is stored, or refused, in the same step; a matcher that does *)
(* not parse panics, in the main task.                                     *)
ReadFile ==
  LET kind == Kind[file] IN
  /\ task = "reading"
  /\ lastRead' = file
  /\ missed' = FALSE
  /\ task' = CASE kind = "acme" -> "issuing"
               [] kind = "panics" -> "panicked"
               [] OTHER -> "waiting"
  /\ current' = IF kind = "plain" THEN file ELSE current
  /\ refused' = IF kind \in {"plain", "rejected"} THEN kind = "rejected" ELSE refused
  /\ UNCHANGED <<fileVars, events, others, watcher, channel, seen>>

(* initiate_challenge returns, with a certificate or an error.             *)
FinishCertificates ==
  /\ task = "issuing"
  /\ task' = "waiting"
  /\ \/ current' = lastRead /\ refused' = FALSE
     \/ refused' = TRUE /\ UNCHANGED current
  /\ UNCHANGED <<fileVars, events, others, watcher, channel, seen, lastRead, missed>>

(* receiver.changed().await: a new version, or an error when the sender is *)
(* gone, which ends main.                                                  *)
Changed ==
  /\ task = "waiting"
  /\ \/ channel.version # seen /\ seen' = channel.version /\ task' = "looking"
     \/ channel.version = seen /\ watcher = "ended" /\ task' = "ended" /\ UNCHANGED seen
  /\ UNCHANGED <<fileVars, events, others, watcher, channel, lastRead, current, refused, missed>>

TaskStep == Look \/ ReadFile \/ FinishCertificates \/ Changed

Next ==
  \/ \E c \in Content : Edit(c)
  \/ EmitWrite
  \/ \E e \in OtherEvents : EmitOther(e)
  \/ WatchFile
  \/ Forward
  \/ TaskStep

Spec == Init /\ [][Next]_vars

(* The operating system runs the thread, the runtime polls the task, the   *)
(* debouncer's delay ends, and the ACME server answers.                    *)
Fairness ==
  /\ WF_vars(EmitWrite)
  /\ WF_vars(WatchFile)
  /\ WF_vars(Forward)
  /\ WF_vars(TaskStep)

FairSpec == Spec /\ Fairness
-----------------------------------------------------------------------------
(* The types, and: the event that a reload answers stays in the channel    *)
(* until the reload is over.                                               *)
TypeOK ==
  /\ file \in Content /\ lastRead \in Content /\ current \in Content
  /\ edits \in 0 .. MaxEdits /\ others \in 0 .. MaxEvents
  /\ dirty \in BOOLEAN /\ refused \in BOOLEAN /\ missed \in BOOLEAN
  /\ events \in Seq({"Write"} \cup OtherEvents)
  /\ watcher \in {"starting", "running", "ended"}
  /\ channel \in [value : {"Write"} \cup OtherEvents, version : Nat]
  /\ seen \in 0 .. channel.version
  /\ task \in {"looking", "reading", "issuing", "waiting", "panicked", "ended"}
  /\ Borrowed => channel.value = "Write"

WriteInFlight ==
  \/ dirty
  \/ \E i \in DOMAIN events : events[i] = "Write"
  \/ channel.value = "Write" /\ (Unread \/ task = "reading")

(* While the file differs from what was read last, a Write is on its way   *)
(* to watch_config: the slot of one event, the read without an update of   *)
(* the seen version and the lock around the reload lose no change.  Two    *)
(* things do, and are recorded in missed: a change before the watch is set *)
(* up, and a Write that another event replaced before it was looked at.    *)
ChangesAreNotForgotten == Alive /\ lastRead # file /\ ~missed => WriteInFlight

(* Once the file is left alone it is read, and then it is in use or was    *)
(* refused with a warning.                                                 *)
ChangesAreApplied ==
  <>[](Alive /\ ~missed => lastRead = file /\ (current = file \/ refused))
-----------------------------------------------------------------------------
(* What watch_config logs when a reload fails: "Keeping old                *)
(* configuration".  No content of the file ends the process.               *)
FailedReloadKeepsOld == task # "panicked"

=============================================================================
