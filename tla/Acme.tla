-------------------------------- MODULE Acme --------------------------------
(***************************************************************************)
(* AcmeHandler: how the reload of a configuration gets the certificates of *)
(* its ACME domains.  The watch_config future calls initiate_challenge for *)
(* one domain after the other; each call that needs an order spawns a      *)
(* thread, which talks to the ACME server and reports through a channel.   *)
(* The future publishes the token the thread sends, so that requests of    *)
(* the ACME server for it, which other tasks serve, find the proof.  The   *)
(* HTTP listener is a future of the same task as watch_config, and comes   *)
(* after it in the task's order.                                           *)
(***************************************************************************)
EXTENDS Integers, Sequences

CONSTANTS
  Domain,       \* the domains, each with the token of its authorization
  Domains,      \* the domains of the configuration, in order
  NoDomain,     \* no token
  MaxRounds     \* bound: rounds in which the server leaves an order pending

ASSUME AcmeAssumption ==
  /\ Domains \in Seq(Domain)
  /\ NoDomain \notin Domain
  /\ MaxRounds \in Nat

VARIABLES
  task,         \* where watch_config is
  next,         \* the position of the domain in hand
  held,         \* the token initiate_challenge will remove
  message,      \* the message initiate_challenge has received
  challenges,   \* AcmeHandler::challenges
  chan,         \* the messages of the thread
  thread,       \* where the thread is
  rounds,       \* the number of challenges the thread has sent
  verdict,      \* what the ACME server says of the challenge
  listening     \* the HTTP listener accepts connections

taskVars == <<task, next, held, message, challenges>>
threadVars == <<thread, rounds, verdict>>
vars == <<taskVars, threadVars, chan, listening>>

Left(token) == [kind |-> "challenge", token |-> token, ok |-> FALSE]
Right(ok) == [kind |-> "result", token |-> NoDomain, ok |-> ok]
NoMessage == Right(FALSE)
Messages == {Left(d) : d \in Domain} \cup {Right(TRUE), Right(FALSE)}

(* The first poll of main's task is in the first reload.                   *)
Init ==
  /\ task = "issuing" /\ next = 1
  /\ held = NoDomain /\ message = NoMessage /\ challenges = <<>>
  /\ chan = <<>>
  /\ thread = "none" /\ rounds = 0 /\ verdict = "pending"
  /\ listening = FALSE

Current == Domains[next]
-----------------------------------------------------------------------------
Reload ==
  /\ task = "idle"
  /\ task' = "issuing" /\ next' = 1
  /\ UNCHANGED <<held, message, challenges, threadVars, chan, listening>>

(* initiate_challenge up to its first await: the account or the order is   *)
(* refused, a certificate that is still valid is on disk, or a thread is   *)
(* started for the order.                                                  *)
InitiateChallenge ==
  /\ task = "issuing" /\ next <= Len(Domains)
  /\ \/ task' = "idle" /\ UNCHANGED <<next, threadVars>>
     \/ next' = next + 1 /\ UNCHANGED <<task, threadVars>>
     \/ /\ task' = "recv" /\ UNCHANGED next
        /\ thread' = "confirming" /\ rounds' = 0 /\ verdict' = "pending"
  /\ UNCHANGED <<held, message, challenges, chan, listening>>

(* Every domain has its certificate.                                       *)
FinishReload ==
  /\ task = "issuing" /\ next > Len(Domains)
  /\ task' = "idle"
  /\ UNCHANGED <<next, held, message, challenges, threadVars, chan, listening>>

(* The challenges without the first that has the token, if one has it.     *)
remove_challenge(token) ==
  LET first == {i \in DOMAIN challenges :
                  challenges[i] = token /\ \A j \in 1 .. i - 1 : challenges[j] # token}
  IN IF first = {} THEN challenges
     ELSE [i \in 1 .. Len(challenges) - 1 |->
             IF \E j \in first : j <= i THEN challenges[i + 1] ELSE challenges[i]]

add_challenge(token) == challenges' = Append(challenges, token)

(* Mutated: the challenge is removed only when another one comes.          *)
ReceiveKeepsLast ==
  /\ task = "recv" /\ chan # <<>>
  /\ task' = "handling" /\ message' = Head(chan) /\ chan' = Tail(chan)
  /\ challenges' = IF Head(chan).kind = "challenge" THEN remove_challenge(held) ELSE challenges
  /\ held' = NoDomain
  /\ UNCHANGED <<next, threadVars, listening>>

(* cr.recv().await, and the removal of the challenge before.               *)
Receive ==
  /\ task = "recv" /\ chan # <<>>
  /\ task' = "handling" /\ message' = Head(chan) /\ chan' = Tail(chan)
  /\ challenges' = remove_challenge(held)
  /\ held' = NoDomain
  /\ UNCHANGED <<next, threadVars, listening>>

(* Mutated: the challenge is removed without waiting for a message.        *)
HandleMessageAtOnce ==
  /\ task = "handling"
  /\ IF message.kind = "challenge"
     THEN task' = "recv" /\ UNCHANGED <<next, held, challenges>>
     ELSE /\ task' = IF message.ok THEN "issuing" ELSE "idle"
          /\ next' = IF message.ok THEN next + 1 ELSE next
          /\ UNCHANGED <<held, challenges>>
  /\ message' = NoMessage
  /\ UNCHANGED <<threadVars, chan, listening>>

(* Mutated: a failed order does not end the reload.                        *)
HandleMessageGoesOn ==
  /\ task = "handling"
  /\ IF message.kind = "challenge"
     THEN /\ task' = "recv" /\ UNCHANGED next
          /\ add_challenge(message.token)
          /\ held' = message.token
     ELSE /\ task' = "issuing" /\ next' = next + 1
          /\ UNCHANGED <<held, challenges>>
  /\ message' = NoMessage
  /\ UNCHANGED <<threadVars, chan, listening>>

(* Mutated: a failed order is tried again, at once and for ever.           *)
HandleMessageRetries ==
  /\ task = "handling"
  /\ IF message.kind = "challenge"
     THEN /\ task' = "recv" /\ UNCHANGED next
          /\ add_challenge(message.token)
          /\ held' = message.token
     ELSE /\ task' = "issuing"
          /\ next' = IF message.ok THEN next + 1 ELSE next
          /\ UNCHANGED <<held, challenges>>
  /\ message' = NoMessage
  /\ UNCHANGED <<threadVars, chan, listening>>

(* The match on the message: add_challenge, or the end of                  *)
(* initiate_challenge, whose error is the end of the reload.               *)
HandleMessage ==
  /\ task = "handling"
  /\ IF message.kind = "challenge"
     THEN /\ task' = "recv" /\ UNCHANGED next
          /\ add_challenge(message.token)
          /\ held' = message.token
     ELSE /\ task' = IF message.ok THEN "issuing" ELSE "idle"
          /\ next' = IF message.ok THEN next + 1 ELSE next
          /\ UNCHANGED <<held, challenges>>
  /\ message' = NoMessage
  /\ UNCHANGED <<threadVars, chan, listening>>
-----------------------------------------------------------------------------
(* The thread sends the result of generate_and_validate_challenge.         *)
Report(ok) ==
  /\ chan' = Append(chan, Right(ok))
  /\ thread' = "none"

(* confirm_validations: the order is ready, at once or after a challenge,  *)
(* and is finalized and downloaded, or fails there; or it is not ready.    *)
Confirm ==
  /\ thread = "confirming"
  /\ \/ (rounds = 0 \/ verdict = "valid") /\ \E ok \in BOOLEAN : Report(ok)
     \/ rounds <= MaxRounds /\ thread' = "authorizing" /\ UNCHANGED chan
  /\ UNCHANGED <<taskVars, rounds, verdict, listening>>

(* Mutated: an error ends the thread without a result.                     *)
AuthorizeSilently ==
  /\ thread = "authorizing"
  /\ \/ thread' = "none" /\ UNCHANGED <<chan, rounds, verdict>>
     \/ /\ chan' = Append(chan, Left(Current))
        /\ thread' = "validating" /\ rounds' = rounds + 1
        /\ verdict' \in {verdict, "pending"}
  /\ UNCHANGED <<taskVars, listening>>

(* authorizations(), and the challenge sent to initiate_challenge.  Behind *)
(* a first one, the server asks again, or its verdict on that one stands.  *)
Authorize ==
  /\ thread = "authorizing"
  /\ \/ Report(FALSE) /\ UNCHANGED <<rounds, verdict>>
     \/ /\ chan' = Append(chan, Left(Current))
        /\ thread' = "validating" /\ rounds' = rounds + 1
        /\ verdict' \in {verdict, "pending"}
  /\ UNCHANGED <<taskVars, listening>>

(* The proof respond_to_challenge finds for the token.                     *)
get_proof_for_challenge(token) == \E i \in DOMAIN challenges : challenges[i] = token

(* The ACME server asks for the proof and makes up its mind.               *)
ServerAsks ==
  /\ thread = "validating" /\ verdict = "pending"
  /\ verdict' = IF listening /\ get_proof_for_challenge(Current) THEN "valid" ELSE "invalid"
  /\ UNCHANGED <<taskVars, thread, rounds, chan, listening>>

(* chall.validate and ord_new.refresh return.                              *)
Validate ==
  /\ thread = "validating" /\ verdict # "pending"
  /\ \/ Report(FALSE)
     \/ verdict = "valid" /\ thread' = "confirming" /\ UNCHANGED chan
  /\ UNCHANGED <<taskVars, rounds, verdict, listening>>
-----------------------------------------------------------------------------
(* listen_for_http_request is polled once watch_config has yielded.        *)
Listen ==
  /\ ~listening /\ task \in {"recv", "idle"}
  /\ listening' = TRUE
  /\ UNCHANGED <<taskVars, threadVars, chan>>

TaskStep == InitiateChallenge \/ FinishReload \/ Receive \/ HandleMessage
ThreadStep == Confirm \/ Authorize \/ Validate

Next == Reload \/ TaskStep \/ ThreadStep \/ ServerAsks \/ Listen

Spec == Init /\ [][Next]_vars
-----------------------------------------------------------------------------
TypeOK ==
  /\ task \in {"idle", "issuing", "recv", "handling"}
  /\ rounds \in Nat /\ next \in 1 .. Len(Domains) + 1
  /\ held \in Domain \cup {NoDomain}
  /\ message \in Messages
  /\ challenges \in Seq(Domain)
  /\ chan \in Seq(Messages)
  /\ thread \in {"none", "confirming", "authorizing", "validating"}
  /\ verdict \in {"pending", "valid", "invalid"}
  /\ listening \in BOOLEAN

(* A challenge is published only while initiate_challenge waits for the    *)
(* next message about it: none is left over when a reload ends, well or    *)
(* badly, and there is never more than one.                                *)
ChallengesAreRemoved ==
  challenges = IF task = "recv" /\ held # NoDomain THEN <<held>> ELSE <<>>

(* While the ACME server may ask for a token, and the future has read all  *)
(* messages, the token it asks for is published.                           *)
PublishedWhileValidating ==
  thread = "validating" /\ chan = <<>> /\ task = "recv" => get_proof_for_challenge(Current)

(* cr.recv().await.unwrap() never meets a closed channel: the thread's     *)
(* last message is its result, and the future reads no further.            *)
ResultIsAwaited ==
  task = "recv" /\ thread = "none" => chan # <<>> /\ chan[Len(chan)].kind = "result"
=============================================================================
