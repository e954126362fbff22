-------------------------- MODULE ListenersProofs ---------------------------
(***************************************************************************)
(* Proofs about Acme and about Listeners, which runs it: for any domains,  *)
(* any number of rounds the ACME server takes and any connections.         *)
(***************************************************************************)
EXTENDS Listeners, SequenceTheorems, TLAPS

(* What the thread's messages s, not handled yet, say of it: they are      *)
(* challenges for the domain in hand, and a result comes last and once the *)
(* thread has ended.                                                       *)
Conversation(s) ==
  /\ \A i \in DOMAIN s : s[i].kind = "challenge" => s[i].token = Current
  /\ \A i \in DOMAIN s : s[i].kind = "result" <=> thread = "none" /\ i = Len(s)
  /\ thread = "none" => s # <<>>

(* Where initiate_challenge is against where its thread is.                *)
InStep ==
  /\ task \in {"idle", "issuing"} => thread = "none" /\ chan = <<>>
  /\ task \in {"recv", "handling"} => next <= Len(Domains)
  /\ task = "recv" => Conversation(chan)
  /\ task = "handling" /\ message.kind = "challenge" => message.token = Current /\ Conversation(chan)
  /\ task = "handling" /\ message.kind = "result" => thread = "none" /\ chan = <<>>

(* The token to remove is the one of the domain in hand, and is held when  *)
(* the thread waits for the validation and no message is left to handle.   *)
Holding ==
  /\ held # NoDomain => task = "recv" /\ held = Current
  /\ task = "recv" /\ thread = "validating" /\ chan = <<>> => held = Current

IInv == TypeOK /\ ChallengesAreRemoved /\ InStep /\ Holding
-----------------------------------------------------------------------------
(* A message is a challenge or a result, and only a challenge's token      *)
(* names a domain.                                                         *)
LEMMA MessageKinds ==
  /\ \A m \in Messages : m.kind \in {"challenge", "result"} /\ m.ok \in BOOLEAN
  /\ \A m \in Messages : m.kind = "challenge" => m.token \in Domain
  /\ NoMessage \in Messages /\ NoMessage.kind = "result"
  /\ \A ok \in BOOLEAN : Right(ok) \in Messages /\ Right(ok).kind = "result"
  /\ \A d \in Domain : Left(d) \in Messages /\ Left(d).kind = "challenge" /\ Left(d).token = d
<1>1. \A d \in Domain : Left(d) \in Messages /\ Left(d).kind = "challenge" /\ Left(d).token = d /\ Left(d).ok = FALSE
  BY Zenon DEF Messages, Left
<1>2. \A ok \in BOOLEAN : Right(ok) \in Messages /\ Right(ok).kind = "result" /\ Right(ok).ok = ok
  BY Zenon DEF Messages, Right
<1>3. \A m \in Messages : (\E d \in Domain : m = Left(d)) \/ (\E ok \in BOOLEAN : m = Right(ok))
  BY Zenon DEF Messages
<1>4. ASSUME NEW m \in Messages
      PROVE  m.kind \in {"challenge", "result"} /\ m.ok \in BOOLEAN /\ (m.kind = "challenge" => m.token \in Domain)
  <2>1. CASE \E d \in Domain : m = Left(d)
    BY <1>1, <2>1, Zenon
  <2>2. CASE \E ok \in BOOLEAN : m = Right(ok)
    <3>1. PICK ok \in BOOLEAN : m = Right(ok)
      BY <2>2
    <3>2. m.kind = "result" /\ m.ok = ok
      BY <1>2, <3>1
    <3> QED BY <3>2
  <2> QED BY <1>3, <2>1, <2>2
<1>5. NoMessage = Right(FALSE)
  BY DEF NoMessage
<1> QED BY <1>1, <1>2, <1>4, <1>5, Zenon

(* The domain in hand is one of the configuration's.                       *)
LEMMA CurrentIsDomain ==
  ASSUME TypeOK, next <= Len(Domains)
  PROVE  next \in DOMAIN Domains /\ Current \in Domain /\ Current # NoDomain
BY AcmeAssumption DEF TypeOK, Current

(* Removing the held token empties the list: it is the only one published. *)
LEMMA RemovesAll ==
  ASSUME TypeOK, ChallengesAreRemoved, task = "recv"
  PROVE  remove_challenge(held) = <<>>
<1>1. CASE held = NoDomain
  BY <1>1 DEF ChallengesAreRemoved, remove_challenge
<1>2. CASE held # NoDomain
  <2> DEFINE first == {i \in DOMAIN challenges :
                         challenges[i] = held /\ \A j \in 1 .. i - 1 : challenges[j] # held}
  <2>1. challenges = <<held>>
    BY <1>2 DEF ChallengesAreRemoved
  <2>2. 1 \in first
    BY <2>1
  <2>3. Len(challenges) - 1 = 0
    BY <2>1
  <2> DEFINE f == [i \in 1 .. Len(challenges) - 1 |->
                     IF \E j \in first : j <= i THEN challenges[i + 1] ELSE challenges[i]]
  <2>4. f = <<>>
    <3>1. DOMAIN f = 1 .. 0
      BY <2>3, Zenon
    <3>2. f \in [1 .. 0 -> Domain]
      <4>1. \A i \in 1 .. 0 : FALSE
        OBVIOUS
      <4> HIDE DEF first
      <4> QED BY <2>3, <4>1, Zenon
    <3> HIDE DEF f
    <3>3. f \in Seq(Domain)
      BY <3>2, SeqDef
    <3>4. Len(f) = 0
      BY <3>1, <3>3
    <3> QED BY <3>3, <3>4, EmptySeq
  <2> QED BY <2>2, <2>4 DEF remove_challenge
<1> QED BY <1>1, <1>2

(* Every message of the thread leaves the conversation in order: a         *)
(* challenge while it goes on, a result when it ends.                      *)
LEMMA Says ==
  ASSUME TypeOK, NEW m \in Messages, Conversation(chan), thread # "none",
         chan' = Append(chan, m), next' = next,
         m.kind = "challenge" => m.token = Current,
         m.kind = "result" <=> thread' = "none"
  PROVE  /\ Conversation(chan)' /\ chan' \in Seq(Messages) /\ chan' # <<>>
<1>1. /\ chan' \in Seq(Messages) /\ Len(chan') = Len(chan) + 1 /\ chan' # <<>>
      /\ \A i \in DOMAIN chan : chan'[i] = chan[i]
      /\ chan'[Len(chan) + 1] = m
      /\ DOMAIN chan = 1 .. Len(chan) /\ DOMAIN chan' = 1 .. Len(chan) + 1 /\ Len(chan) \in Nat
  BY DEF TypeOK
<1>2. ASSUME NEW i \in DOMAIN chan'
      PROVE  /\ chan'[i].kind = "challenge" => chan'[i].token = Current
             /\ chan'[i].kind = "result" <=> thread' = "none" /\ i = Len(chan')
  BY <1>1, <1>2 DEF Conversation
<1> QED BY <1>1, <1>2 DEF Conversation, Current

(* The thread's steps, with the future's variables as they are: the result *)
(* or the challenge it sends, or none.                                     *)
LEMMA ThreadIInv ==
  ASSUME IInv, UNCHANGED <<taskVars, listening>>, thread # "none",
         rounds' \in Nat, verdict' \in {"pending", "valid", "invalid"},
         \/ \E ok \in BOOLEAN : Report(ok)
         \/ chan' = Append(chan, Left(Current)) /\ thread' = "validating"
         \/ chan' = chan /\ thread' \in {"confirming", "authorizing"}
         \/ chan' = chan /\ thread' = thread
  PROVE  IInv'
<1>1. /\ task' = task /\ next' = next /\ held' = held /\ message' = message
      /\ challenges' = challenges /\ listening' = listening
  BY DEF taskVars
<1>2. task \in {"recv", "handling"} /\ next <= Len(Domains) /\ Conversation(chan)
  BY MessageKinds DEF IInv, InStep, TypeOK
<1>3. Current \in Domain
  BY <1>2, CurrentIsDomain DEF IInv
<1>4. /\ chan' \in Seq(Messages) /\ Conversation(chan)'
      /\ thread' \in {"none", "confirming", "authorizing", "validating"}
      /\ chan' # <<>> \/ (chan' = chan /\ (thread' = "validating" => thread = "validating"))
  <2>1. CASE \E ok \in BOOLEAN : Report(ok)
    <3>1. PICK ok \in BOOLEAN : chan' = Append(chan, Right(ok)) /\ thread' = "none"
      BY <2>1 DEF Report
    <3> QED BY <1>1, <1>2, <3>1, MessageKinds, Says DEF IInv
  <2>2. CASE chan' = Append(chan, Left(Current)) /\ thread' = "validating"
    BY <1>1, <1>2, <1>3, <2>2, MessageKinds, Says DEF IInv
  <2>3. CASE chan' = chan /\ thread' \in {"confirming", "authorizing", thread}
    <3>1. thread' # "none"
      BY <2>3
    <3>2. Conversation(chan)'
      BY <1>1, <1>2, <2>3, <3>1 DEF Conversation, Current
    <3> QED BY <2>3, <3>2 DEF IInv, TypeOK
  <2> QED BY <2>1, <2>2, <2>3
<1>5. TypeOK'
  BY <1>1, <1>4 DEF IInv, TypeOK
<1>6. ChallengesAreRemoved'
  BY <1>1 DEF IInv, ChallengesAreRemoved
<1>7. InStep'
  BY <1>1, <1>2, <1>4 DEF IInv, InStep, Current
<1>8. Holding'
  BY <1>1, <1>4 DEF IInv, Holding, Current
<1> QED BY <1>5, <1>6, <1>7, <1>8 DEF IInv

(* watch_config goes from one domain to the next, or starts a thread.      *)
LEMMA IssueIInv == ASSUME IInv, Reload \/ InitiateChallenge \/ FinishReload PROVE IInv'
<1>1. /\ held' = held /\ message' = message /\ challenges' = challenges
      /\ chan' = chan /\ listening' = listening
  BY DEF Reload, InitiateChallenge, FinishReload
<1>2. task \in {"idle", "issuing"} /\ held = NoDomain /\ chan = <<>> /\ challenges = <<>> /\ thread = "none"
  BY DEF Reload, InitiateChallenge, FinishReload, IInv, InStep, Holding, ChallengesAreRemoved
<1>3. next' \in 1 .. Len(Domains) + 1
  BY AcmeAssumption DEF Reload, InitiateChallenge, FinishReload, IInv, TypeOK
<1>4. \/ task' \in {"idle", "issuing"} /\ UNCHANGED threadVars
      \/ /\ task' = "recv" /\ next' <= Len(Domains)
         /\ thread' = "confirming" /\ rounds' = 0 /\ verdict' = "pending"
  BY DEF Reload, InitiateChallenge, FinishReload
<1>5. TypeOK'
  BY <1>1, <1>3, <1>4 DEF IInv, TypeOK, threadVars
<1>6. ChallengesAreRemoved' /\ Holding'
  BY <1>1, <1>2, <1>4 DEF ChallengesAreRemoved, Holding, threadVars
<1>7. InStep'
  BY <1>1, <1>2, <1>4 DEF InStep, Conversation, threadVars
<1> QED BY <1>5, <1>6, <1>7 DEF IInv

(* The future takes the next message, and the published token is removed.  *)
LEMMA ReceiveIInv == ASSUME IInv, Receive PROVE IInv'
<1>1. /\ task = "recv" /\ chan # <<>> /\ task' = "handling" /\ message' = Head(chan)
      /\ chan' = Tail(chan) /\ held' = NoDomain /\ challenges' = <<>>
      /\ next' = next /\ thread' = thread /\ rounds' = rounds /\ verdict' = verdict /\ listening' = listening
  BY RemovesAll DEF Receive, IInv, threadVars
<1>2. /\ Len(chan) \in Nat \ {0} /\ DOMAIN chan = 1 .. Len(chan)
      /\ chan' \in Seq(Messages) /\ Len(chan') = Len(chan) - 1 /\ DOMAIN chan' = 1 .. Len(chan) - 1
      /\ message' = chan[1] /\ message' \in Messages
      /\ \A i \in DOMAIN chan' : i + 1 \in DOMAIN chan /\ chan'[i] = chan[i + 1]
  BY <1>1 DEF IInv, TypeOK
<1>3. Conversation(chan)
  BY <1>1 DEF IInv, InStep
<1>4. TypeOK'
  BY <1>1, <1>2, EmptySeq DEF IInv, TypeOK
<1>5. ChallengesAreRemoved' /\ Holding'
  BY <1>1 DEF ChallengesAreRemoved, Holding
<1>6. ASSUME message'.kind = "challenge" PROVE message'.token = Current' /\ Conversation(chan)'
  <2>1. 1 \in DOMAIN chan /\ chan[1].kind = "challenge"
    BY <1>2, <1>6
  <2>2. chan[1].token = Current /\ (thread = "none" => Len(chan) # 1)
    BY <1>2, <1>3, <2>1 DEF Conversation
  <2>3. thread = "none" => chan' # <<>>
    BY <1>2, <2>2, EmptySeq
  <2>4. \A i \in DOMAIN chan' : i = Len(chan') <=> i + 1 = Len(chan)
    BY <1>2
  <2> QED BY <1>1, <1>2, <1>3, <2>2, <2>3, <2>4 DEF Conversation, Current
<1>7. ASSUME message'.kind = "result" PROVE thread' = "none" /\ chan' = <<>>
  <2>1. thread = "none" /\ Len(chan) = 1
    BY <1>2, <1>3, <1>7 DEF Conversation
  <2> QED BY <1>1, <1>2, <2>1, EmptySeq
<1>8. InStep'
  BY <1>1, <1>6, <1>7 DEF IInv, InStep
<1> QED BY <1>4, <1>5, <1>8 DEF IInv

(* The future publishes the token, or ends with the thread's result.       *)
LEMMA HandleIInv == ASSUME IInv, HandleMessage PROVE IInv'
<1>1. /\ task = "handling" /\ message' = NoMessage /\ chan' = chan /\ thread' = thread
      /\ rounds' = rounds /\ verdict' = verdict /\ listening' = listening
  BY DEF HandleMessage, threadVars
<1>2. message.kind \in {"challenge", "result"} /\ challenges = <<>> /\ held = NoDomain /\ next <= Len(Domains)
  BY <1>1, MessageKinds DEF IInv, TypeOK, ChallengesAreRemoved, Holding, InStep
<1>3. Current \in Domain /\ Current # NoDomain
  BY <1>2, CurrentIsDomain DEF IInv
<1>4. CASE message.kind = "challenge"
  <2>1. message.token = Current /\ Conversation(chan)
    BY <1>1, <1>4 DEF IInv, InStep
  <2>2. task' = "recv" /\ next' = next /\ held' = Current /\ challenges' = <<Current>>
    BY <1>2, <1>4, <2>1 DEF HandleMessage, add_challenge
  <2>3. TypeOK'
    BY <1>1, <1>3, <2>2, MessageKinds DEF IInv, TypeOK
  <2>4. ChallengesAreRemoved' /\ Holding'
    BY <1>3, <2>2 DEF ChallengesAreRemoved, Holding, Current
  <2>5. InStep'
    BY <1>1, <1>2, <2>1, <2>2 DEF InStep, Conversation, Current
  <2> QED BY <2>3, <2>4, <2>5 DEF IInv
<1>5. CASE message.kind = "result"
  <2>1. thread = "none" /\ chan = <<>>
    BY <1>1, <1>5 DEF IInv, InStep
  <2>2. task' \in {"issuing", "idle"} /\ next' \in {next, next + 1} /\ held' = held /\ challenges' = challenges
    BY <1>5 DEF HandleMessage
  <2>3. TypeOK'
    BY <1>1, <1>2, <2>2, MessageKinds, AcmeAssumption DEF IInv, TypeOK
  <2> QED BY <1>1, <1>2, <2>1, <2>2, <2>3 DEF IInv, ChallengesAreRemoved, Holding, InStep
<1> QED BY <1>2, <1>4, <1>5

(* Every step preserves the invariant.                                     *)
LEMMA NextIInv == ASSUME IInv, [Next]_vars PROVE IInv'
<1>1. CASE Reload \/ TaskStep
  BY <1>1, IssueIInv, ReceiveIInv, HandleIInv DEF TaskStep
<1>2. CASE ThreadStep \/ ServerAsks
  <2>1. UNCHANGED <<taskVars, listening>> /\ thread # "none"
    BY <1>2, Zenon DEF ThreadStep, Confirm, Authorize, Validate, ServerAsks
  <2>2. rounds' \in Nat /\ verdict' \in {"pending", "valid", "invalid"}
    <3>1. rounds' \in {rounds, rounds + 1}
      BY <1>2, Zenon DEF ThreadStep, Confirm, Authorize, Validate, ServerAsks
    <3>2. verdict' \in {verdict, "pending", "valid", "invalid"}
      BY <1>2, Zenon DEF ThreadStep, Confirm, Authorize, Validate, ServerAsks
    <3> QED BY <3>1, <3>2 DEF IInv, TypeOK
  <2>3. \/ \E ok \in BOOLEAN : Report(ok)
        \/ chan' = Append(chan, Left(Current)) /\ thread' = "validating"
        \/ chan' = chan /\ thread' \in {"confirming", "authorizing"}
        \/ chan' = chan /\ thread' = thread
    BY <1>2, Zenon DEF ThreadStep, Confirm, Authorize, Validate, ServerAsks
  <2> QED BY <2>1, <2>2, <2>3, ThreadIInv
<1>3. CASE Listen \/ UNCHANGED vars
  <2>1. /\ UNCHANGED <<task, next, held, message, challenges, thread, rounds, verdict, chan>>
        /\ listening' \in BOOLEAN
    BY <1>3, Zenon DEF Listen, vars, taskVars, threadVars, IInv, TypeOK
  <2> QED BY <2>1 DEF IInv, TypeOK, ChallengesAreRemoved, InStep, Holding, Conversation, Current
<1> QED BY <1>1, <1>2, <1>3 DEF Next

(* Nothing is published when the process starts.                           *)
LEMMA InitIInv == ASSUME Init PROVE IInv
<1>1. TypeOK
  <2>1. Len(Domains) \in Nat
    BY AcmeAssumption
  <2>2. message \in Messages /\ listening \in BOOLEAN
    BY MessageKinds, Zenon DEF Init
  <2>3. challenges \in Seq(Domain) /\ chan \in Seq(Messages)
    BY DEF Init
  <2> QED BY <2>1, <2>2, <2>3 DEF Init, TypeOK
<1> QED BY <1>1 DEF Init, IInv, ChallengesAreRemoved, InStep, Holding

(* What the inductive invariant says of the messages and the tokens.       *)
LEMMA IInvSuffices == ASSUME IInv PROVE PublishedWhileValidating /\ ResultIsAwaited
<1>1. PublishedWhileValidating
  <2> SUFFICES ASSUME thread = "validating", chan = <<>>, task = "recv"
               PROVE  get_proof_for_challenge(Current)
    BY DEF PublishedWhileValidating
  <2>1. Current # NoDomain
    BY CurrentIsDomain DEF IInv, InStep
  <2>2. challenges = <<Current>>
    BY <2>1 DEF IInv, Holding, ChallengesAreRemoved
  <2> QED BY <2>2 DEF get_proof_for_challenge
<1>2. ResultIsAwaited
  <2> SUFFICES ASSUME task = "recv", thread = "none"
               PROVE  chan # <<>> /\ chan[Len(chan)].kind = "result"
    BY DEF ResultIsAwaited
  <2>1. Conversation(chan) /\ chan # <<>> /\ chan \in Seq(Messages)
    BY DEF IInv, InStep, Conversation, TypeOK
  <2>2. Len(chan) \in DOMAIN chan
    BY <2>1
  <2> QED BY <2>1, <2>2 DEF Conversation
<1> QED BY <1>1, <1>2

(* The inductive invariant holds in every reachable state of AcmeHandler.  *)
THEOREM Invariance == Spec => []IInv
BY InitIInv, NextIInv, PTL DEF Spec

(* No token outlives the wait for its validation, whatever the thread and  *)
(* the ACME server do and however the reload ends.                         *)
THEOREM NoChallengeLeaks == Spec => [](TypeOK /\ ChallengesAreRemoved)
<1>1. IInv => TypeOK /\ ChallengesAreRemoved
  BY DEF IInv
<1> QED BY <1>1, Invariance, PTL

(* The thread never waits for a validation whose token the future has seen *)
(* and not published.                                                      *)
THEOREM ChallengeIsPublished == Spec => []PublishedWhileValidating
BY IInvSuffices, Invariance, PTL

(* cr.recv().await.unwrap() does not panic: a result is in the channel of  *)
(* a thread that has ended.                                                *)
THEOREM ReceiveNeverPanics == Spec => []ResultIsAwaited
BY IInvSuffices, Invariance, PTL
-----------------------------------------------------------------------------
(* The certificates of the domains the reload is done with are obtained.   *)
DoneAreObtained == task # "idle" => \A i \in 1 .. next - 1 : Domains[i] \in obtained

MainInv ==
  /\ IInv /\ MainTypeOK /\ DoneAreObtained
  /\ backlog \in [{"HTTP", "HTTPS"} -> Seq(Http \cup Https)]
-----------------------------------------------------------------------------
(* A step of main is a step of AcmeHandler or leaves it as it is.          *)
LEMMA MainStepIsAcmeStep == ASSUME [MainNext]_mainVars PROVE [Next]_vars
BY DEF MainNext, mainVars, WatchConfig, StoreCertificates, AcmeOrder, AcmeThread, AcmeServer, Bind,
       HttpListener, AcceptFails, AcceptHttp, HttpsListener, AcceptHttps, HandshakeEnds, Connect, Leave,
       Next, TaskStep

(* main implements AcmeHandler's specification: the listeners, the clients *)
(* and the end of the process do not interfere with the orders.            *)
THEOREM MainImplementsAcme == MainSpec => Spec
BY MainStepIsAcmeStep, PTL DEF MainSpec, MainInit, Spec

(* So the theorems about AcmeHandler hold of the process.                  *)
THEOREM ChallengesInMain ==
  MainSpec => [](TypeOK /\ ChallengesAreRemoved /\ PublishedWhileValidating /\ ResultIsAwaited)
BY MainImplementsAcme, NoChallengeLeaks, ChallengeIsPublished, ReceiveNeverPanics, PTL
-----------------------------------------------------------------------------
(* The domain whose certificate initiate_challenge returned is obtained.   *)
LEMMA ObtainsCurrent ==
  ASSUME TypeOK, NEW ok \in BOOLEAN, Obtain(ok), next <= Len(Domains), obtained \subseteq Domain
  PROVE  obtained \subseteq obtained' /\ obtained' \subseteq Domain /\ (ok => Domains[next] \in obtained')
<1>1. next \in DOMAIN Domains /\ \A i \in DOMAIN Domains : Domains[i] \in Domain
  BY AcmeAssumption DEF TypeOK
<1> QED BY <1>1, Zenon DEF Obtain

(* watch_config keeps count of the certificates it has got.                *)
LEMMA WatchConfigObtains ==
  ASSUME MainInv, WatchConfig
  PROVE  /\ DoneAreObtained' /\ obtained' \subseteq Domain
         /\ certificates' # certificates => certificates' \subseteq Local \cup obtained
<1>1. next \in Int /\ Len(Domains) \in Nat /\ obtained \subseteq Domain /\ TypeOK
  BY AcmeAssumption DEF MainInv, MainTypeOK, IInv, TypeOK
<1>2. CASE Reload /\ obtained' = {} /\ UNCHANGED certificates
  BY <1>2 DEF Reload, DoneAreObtained
<1>3. CASE InitiateChallenge /\ Obtain(next' > next) /\ UNCHANGED certificates
  <2>1. next <= Len(Domains) /\ task = "issuing" /\ next' \in {next, next + 1}
    BY <1>3 DEF InitiateChallenge
  <2>2. obtained \subseteq obtained' /\ obtained' \subseteq Domain /\ (next' > next => Domains[next] \in obtained')
    <3> DEFINE ok == next' > next
    <3>1. ok \in BOOLEAN /\ Obtain(ok)
      BY <1>3
    <3> HIDE DEF ok
    <3>2. obtained \subseteq obtained' /\ obtained' \subseteq Domain /\ (ok => Domains[next] \in obtained')
      BY <1>1, <2>1, <3>1, ObtainsCurrent
    <3> QED BY <3>2 DEF ok
  <2>3. \A i \in 1 .. next' - 1 : i \in 1 .. next - 1 \/ (i = next /\ next' > next)
    <3>1. CASE next' = next
      BY <3>1
    <3>2. CASE next' = next + 1
      BY <1>1, <3>2
    <3> QED BY <2>1, <3>1, <3>2
  <2> QED BY <1>3, <2>1, <2>2, <2>3 DEF MainInv, DoneAreObtained
<1>4. CASE HandleMessage /\ Obtain(message.ok) /\ UNCHANGED certificates
  <2>1. next <= Len(Domains) /\ task = "handling" /\ message.ok \in BOOLEAN
    BY <1>4, MessageKinds DEF HandleMessage, MainInv, IInv, InStep, TypeOK
  <2>2. next' = next \/ (message.ok /\ next' = next + 1)
    BY <1>4 DEF HandleMessage
  <2>3. obtained \subseteq obtained' /\ obtained' \subseteq Domain /\ (message.ok => Domains[next] \in obtained')
    BY <1>1, <1>4, <2>1, ObtainsCurrent
  <2>4. \A i \in 1 .. next' - 1 : i \in 1 .. next - 1 \/ (i = next /\ message.ok)
    BY <1>1, <2>2
  <2> QED BY <1>4, <2>1, <2>3, <2>4 DEF MainInv, DoneAreObtained
<1>5. CASE Receive /\ UNCHANGED certVars
  BY <1>1, <1>5 DEF Receive, certVars, MainInv, DoneAreObtained
<1>6. CASE StoreCertificates /\ UNCHANGED obtained
  <2>1. /\ task = "issuing" /\ next > Len(Domains) /\ task' = "idle"
        /\ certificates' \in {certificates, Local \cup {Domains[i] : i \in DOMAIN Domains}}
    BY <1>6 DEF StoreCertificates, FinishReload
  <2>2. \A i \in DOMAIN Domains : i \in 1 .. next - 1
    BY <1>1, <2>1, AcmeAssumption
  <2>3. \A i \in DOMAIN Domains : Domains[i] \in obtained
    BY <2>1, <2>2 DEF MainInv, DoneAreObtained
  <2> QED BY <1>1, <1>6, <2>1, <2>3 DEF DoneAreObtained
<1> QED BY <1>2, <1>3, <1>4, <1>5, <1>6 DEF WatchConfig

(* The queues, the handshake and the clients keep their types.             *)
LEMMA ListenersType ==
  ASSUME MainInv, MainNext
  PROVE  /\ process' \in {"running", "ended"} /\ https' \in BOOLEAN
         /\ backlog' \in [{"HTTP", "HTTPS"} -> Seq(Http \cup Https)]
         /\ backlog'["HTTP"] \in Seq(Http) /\ backlog'["HTTPS"] \in Seq(Https)
         /\ shaking' \subseteq Https /\ \A c, d \in shaking' : c = d
         /\ gone' \cup hanging' \subseteq Http \cup Https
<1> DEFINE P == /\ process' \in {"running", "ended"} /\ https' \in BOOLEAN
                /\ backlog' \in [{"HTTP", "HTTPS"} -> Seq(Http \cup Https)]
                /\ backlog'["HTTP"] \in Seq(Http) /\ backlog'["HTTPS"] \in Seq(Https)
                /\ shaking' \subseteq Https /\ \A c, d \in shaking' : c = d
                /\ gone' \cup hanging' \subseteq Http \cup Https
<1>1. /\ process \in {"running", "ended"} /\ https \in BOOLEAN
      /\ backlog \in [{"HTTP", "HTTPS"} -> Seq(Http \cup Https)]
      /\ backlog["HTTP"] \in Seq(Http) /\ backlog["HTTPS"] \in Seq(Https)
      /\ shaking \subseteq Https /\ \A c, d \in shaking : c = d
      /\ gone \subseteq Http \cup Https /\ hanging \subseteq Http \cup Https
  BY DEF MainInv, MainTypeOK
<1>2. ASSUME UNCHANGED <<process, https, backlog, shaking, gone, hanging>> PROVE P
  BY <1>1, <1>2
<1>3. ASSUME End, https' = https PROVE P
  <2>1. /\ backlog' = [scheme \in {"HTTP", "HTTPS"} |-> <<>>] /\ process' = "ended"
        /\ shaking' = {} /\ gone' = {} /\ hanging' = {}
    BY <1>3 DEF End, NoBacklog
  <2> QED BY <1>1, <1>3, <2>1
<1>4. CASE WatchConfig \/ AcmeOrder
  BY <1>2, <1>4 DEF WatchConfig, AcmeOrder, AcmeThread, AcmeServer, connVars
<1>5. CASE Bind
  BY <1>1, <1>2, <1>3, <1>5, Zenon DEF Bind, connVars
<1>6. CASE AcceptFails
  BY <1>3, <1>6 DEF AcceptFails
<1>7. CASE AcceptHttp
  <2>1. CASE End
    BY <1>3, <1>7, <2>1 DEF AcceptHttp
  <2>2. CASE process' = process /\ gone' \subseteq gone /\ hanging' \subseteq hanging
    <3>1. /\ backlog' = [backlog EXCEPT !["HTTP"] = Tail(backlog["HTTP"])] /\ backlog["HTTP"] # <<>>
          /\ shaking' = shaking /\ https' = https
      BY <1>7, <2>2 DEF AcceptHttp, Polled
    <3>2. Tail(backlog["HTTP"]) \in Seq(Http) /\ Tail(backlog["HTTP"]) \in Seq(Http \cup Https)
      BY <1>1, <3>1
    <3> QED BY <1>1, <2>2, <3>1, <3>2
  <2> QED BY <1>7, <2>1, <2>2 DEF AcceptHttp, Create, HandOn
<1>8. CASE AcceptHttps
  <2>1. /\ backlog' = [backlog EXCEPT !["HTTPS"] = Tail(backlog["HTTPS"])] /\ backlog["HTTPS"] # <<>>
        /\ shaking' = {Head(backlog["HTTPS"])} /\ UNCHANGED <<process, https, gone, hanging>>
    BY <1>8 DEF AcceptHttps
  <2>2. /\ Tail(backlog["HTTPS"]) \in Seq(Https) /\ Tail(backlog["HTTPS"]) \in Seq(Http \cup Https)
        /\ Head(backlog["HTTPS"]) \in Https
    BY <1>1, <2>1
  <2> QED BY <1>1, <2>1, <2>2
<1>9. CASE HandshakeEnds
  <2>1. End \/ (process' = process /\ gone' \subseteq gone /\ hanging' \subseteq hanging)
    BY <1>9 DEF HandshakeEnds, Create, HandOn
  <2>2. CASE process' = process /\ gone' \subseteq gone /\ hanging' \subseteq hanging
    BY <1>1, <1>9, <2>2 DEF HandshakeEnds, Polled
  <2> QED BY <1>3, <1>9, <2>1, <2>2 DEF HandshakeEnds
<1>10. ASSUME NEW c \in Http \cup Https, Connect(c) PROVE P
  <2>1. UNCHANGED <<process, https, shaking>> /\ gone' \subseteq gone /\ hanging' \subseteq hanging \cup {c}
    BY <1>10 DEF Connect
  <2>2. CASE c \in Http /\ backlog' = [backlog EXCEPT !["HTTP"] = Append(backlog["HTTP"], c)]
    <3>1. Append(backlog["HTTP"], c) \in Seq(Http) /\ Append(backlog["HTTP"], c) \in Seq(Http \cup Https)
      BY <1>1, <2>2
    <3> QED BY <1>1, <2>1, <2>2, <3>1
  <2>3. CASE c \in Https /\ backlog' = [backlog EXCEPT !["HTTPS"] = Append(backlog["HTTPS"], c)]
    <3>1. Append(backlog["HTTPS"], c) \in Seq(Https) /\ Append(backlog["HTTPS"], c) \in Seq(Http \cup Https)
      BY <1>1, <2>3
    <3> QED BY <1>1, <2>1, <2>3, <3>1
  <2> QED BY <1>10, <2>2, <2>3 DEF Connect
<1>11. ASSUME NEW c \in Http \cup Https, Leave(c) PROVE P
  BY <1>1, <1>11 DEF Leave
<1> QED BY <1>4, <1>5, <1>6, <1>7, <1>8, <1>9, <1>10, <1>11 DEF MainNext, HttpListener, HttpsListener

(* Every step of main preserves the invariant.                             *)
LEMMA MainNextInv == ASSUME MainInv, [MainNext]_mainVars PROVE MainInv'
<1>1. IInv' /\ TypeOK'
  BY MainStepIsAcmeStep, NextIInv, Zenon DEF MainInv, IInv
<1>2. CASE UNCHANGED mainVars
  <2>1. UNCHANGED <<task, next, obtained, certificates, process, https, backlog, shaking, gone, hanging>>
    BY <1>2 DEF mainVars, vars, taskVars, connVars, certVars
  <2> QED BY <1>1, <2>1 DEF MainInv, MainTypeOK, DoneAreObtained
<1>3. CASE MainNext
  <2>1. DoneAreObtained' /\ obtained' \subseteq Domain /\ certificates' \subseteq Local \cup Domain
    <3>1. CASE WatchConfig
      BY <3>1, WatchConfigObtains DEF MainInv, MainTypeOK
    <3>2. CASE AcmeOrder \/ Bind \/ HttpListener \/ HttpsListener \/ \E c \in Http \cup Https : Connect(c) \/ Leave(c)
      <4>1. UNCHANGED <<task, next, obtained, certificates>>
        BY <3>2, Zenon DEF AcmeOrder, AcmeThread, AcmeServer, ThreadStep, Confirm, Authorize, Validate, ServerAsks,
             Bind, Listen, HttpListener, AcceptFails, AcceptHttp, HttpsListener, AcceptHttps, HandshakeEnds,
             Connect, Leave, certVars, vars, taskVars
      <4> QED BY <4>1, Zenon DEF MainInv, MainTypeOK, DoneAreObtained
    <3> QED BY <1>3, <3>1, <3>2 DEF MainNext
  <2> QED BY <1>1, <1>3, <2>1, ListenersType DEF MainInv, MainTypeOK
<1> QED BY <1>2, <1>3

(* Neither a connection nor an ACME certificate is there at the start.     *)
LEMMA MainInitInv == ASSUME MainInit PROVE MainInv
<1>1. IInv /\ TypeOK /\ next = 1
  BY InitIInv, Zenon DEF MainInit, Init, IInv
<1>2. backlog = [scheme \in {"HTTP", "HTTPS"} |-> <<>>]
  BY DEF MainInit, NoBacklog
<1>3. MainTypeOK
  <2>1. https \in BOOLEAN
    BY Zenon DEF MainInit
  <2>2. backlog["HTTP"] \in Seq(Http) /\ backlog["HTTPS"] \in Seq(Https)
    BY <1>2
  <2> QED BY <1>1, <2>1, <2>2 DEF MainInit, MainTypeOK
<1> QED BY <1>1, <1>2, <1>3 DEF MainInv, DoneAreObtained

(* The inductive invariant holds in every reachable state of main.         *)
THEOREM MainInvariance == MainSpec => []MainInv
BY MainInitInv, MainNextInv, PTL DEF MainSpec

(* Each listener keeps its own connections, one handshake goes on at a     *)
(* time, and only configured names are certified.                          *)
THEOREM MainTypeCorrect == MainSpec => []MainTypeOK
<1>1. MainInv => MainTypeOK
  BY DEF MainInv
<1> QED BY <1>1, MainInvariance, PTL

(* A reload stores the ACME names only when it has the certificate of each *)
(* of them: initiate_challenge has returned one for every domain.          *)
THEOREM OnlyObtainedAreStored == MainSpec => CertificatesWereObtained
<1> DEFINE A == certificates' # certificates => certificates' \subseteq Local \cup obtained
<1>1. ASSUME MainInv, [MainNext]_mainVars PROVE [A]_mainVars
  <2>1. WatchConfig \/ certificates' = certificates
    BY <1>1 DEF MainNext, mainVars, AcmeOrder, AcmeThread, AcmeServer, Bind, HttpListener, AcceptFails,
         AcceptHttp, HttpsListener, AcceptHttps, HandshakeEnds, Connect, Leave, certVars
  <2> QED BY <1>1, <2>1, WatchConfigObtains, Zenon
<1> QED BY <1>1, MainInvariance, PTL DEF MainSpec, CertificatesWereObtained

=============================================================================
