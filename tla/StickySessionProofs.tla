------------------------ MODULE StickySessionProofs -------------------------
(***************************************************************************)
(* RoundRobin stays inside its list and serves a list that does not change *)
(* in turn, for all lists of all lengths; and a StickyCookie pool over it, *)
(* or over IPHash or Random, forwards every request to one working         *)
(* address, for any number of requests and whatever the cookies say.       *)
(***************************************************************************)
EXTENDS StickySession, SequenceTheorems, TLAPS

(* The index selected d selections before the index r in a list of n.      *)
Earlier(r, d, n) == IF d <= r THEN r - d ELSE r - d + n

(* The recent indices lead up to the counter one by one, wrapping around.  *)
InTurn ==
  /\ Len(recent) <= Len(addresses)
  /\ \A k \in 1 .. Len(recent) : recent[k] = Earlier(rrc, Len(recent) - k, Len(addresses))

IInv == TypeOK /\ InTurn

(* The counter of a list of n addresses stays below n.                     *)
LEMMA AdvanceInRange ==
  ASSUME NEW n \in Nat \ {0}, rrc \in Nat
  PROVE  Advance(n) \in 0 .. n - 1
BY SMT DEF Advance

(* Below n, advancing is adding one or wrapping around.                    *)
LEMMA AdvanceByOne ==
  ASSUME NEW n \in Nat \ {0}, rrc \in Nat, rrc < n
  PROVE  Advance(n) = IF rrc + 1 = n THEN 0 ELSE rrc + 1
<1>1. CASE rrc + 1 = n
  BY <1>1, SMT DEF Advance
<1>2. CASE rrc + 1 < n
  BY <1>2, SMT DEF Advance
<1> QED BY <1>1, <1>2

(* A selection later, every index is one selection earlier.                *)
LEMMA EarlierShifts ==
  ASSUME NEW n \in Nat \ {0}, NEW r \in 0 .. n - 1, NEW d \in 0 .. n - 2
  PROVE  Earlier(IF r + 1 = n THEN 0 ELSE r + 1, d + 1, n) = Earlier(r, d, n)
BY DEF Earlier

(* No selections earlier it is the index itself.                           *)
LEMMA EarlierByNone ==
  ASSUME NEW n \in Nat, NEW r \in Nat
  PROVE  Earlier(r, 0, n) = r
BY SMT DEF Earlier

(* Within one turn, different distances lead to different indices.         *)
LEMMA EarlierInjective ==
  ASSUME NEW n \in Nat, NEW r \in 0 .. n - 1, NEW d \in 0 .. n - 1, NEW e \in 0 .. n - 1,
         Earlier(r, d, n) = Earlier(r, e, n)
  PROVE  d = e
<1>1. CASE d <= r /\ e <= r
  BY <1>1 DEF Earlier
<1>2. CASE d <= r /\ e > r
  BY <1>2 DEF Earlier
<1>3. CASE d > r /\ e <= r
  BY <1>3 DEF Earlier
<1>4. CASE d > r /\ e > r
  BY <1>4 DEF Earlier
<1> QED BY <1>1, <1>2, <1>3, <1>4

LEMMA InitIInv == Init => IInv
BY DEF Init, IInv, TypeOK, InTurn

LEMMA NextIInv == IInv /\ [Next]_vars => IInv'
<1> SUFFICES ASSUME IInv, [Next]_vars PROVE IInv'
  OBVIOUS
<1>1. CASE UNCHANGED vars
  BY <1>1 DEF vars, IInv, TypeOK, InTurn
<1>2. ASSUME NEW list \in Lists, select_backend(list) PROVE IInv'
  <2> DEFINE n == Len(list)
  <2>1. n \in Nat \ {0} /\ list \in Seq(Address)
    BY ListsAssumption
  <2>2. rrc' \in 0 .. n - 1 /\ addresses' = list
    BY <1>2, <2>1, AdvanceInRange DEF select_backend, IInv, TypeOK
  <2>3. CASE list # addresses
    <3>1. recent' = <<rrc'>>
      BY <1>2, <2>3 DEF select_backend
    <3> QED BY <2>1, <2>2, <3>1 DEF IInv, TypeOK, InTurn, Earlier
  <2>4. CASE list = addresses
    <3>1. rrc \in 0 .. n - 1 /\ recent \in Seq(Nat) /\ Len(recent) \in 0 .. n
      BY <2>1, <2>4 DEF IInv, TypeOK, InTurn
    <3>2. rrc' = IF rrc + 1 = n THEN 0 ELSE rrc + 1
      BY <1>2, <2>1, <3>1, AdvanceByOne DEF select_backend
    <3>3. \A k \in 1 .. Len(recent) :
            Len(recent) - k <= n - 2 => recent[k] = Earlier(rrc', Len(recent) - k + 1, n)
      <4> SUFFICES ASSUME NEW k \in 1 .. Len(recent), Len(recent) - k <= n - 2
                   PROVE  recent[k] = Earlier(rrc', Len(recent) - k + 1, n)
        OBVIOUS
      <4>1. recent[k] = Earlier(rrc, Len(recent) - k, n)
        BY <2>4 DEF IInv, InTurn
      <4>2. Len(recent) - k \in 0 .. n - 2
        BY <2>1, <3>1
      <4>3. Earlier(rrc', (Len(recent) - k) + 1, n) = Earlier(rrc, Len(recent) - k, n)
        BY <2>1, <3>1, <3>2, <4>2, EarlierShifts, Zenon
      <4> QED BY <4>1, <4>3
    <3>4. Earlier(rrc', 0, n) = rrc'
      BY <2>1, <2>2, EarlierByNone
    <3>5. CASE Len(recent) < n
      <4>1. recent' = Append(recent, rrc')
        BY <1>2, <2>4, <3>5 DEF select_backend
      <4>2. /\ recent' \in Seq(Nat) /\ Len(recent') = Len(recent) + 1
            /\ recent'[Len(recent) + 1] = rrc'
            /\ \A k \in 1 .. Len(recent) : recent'[k] = recent[k]
        BY <4>1, <3>1, <2>2
      <4>3. \A k \in 1 .. Len(recent') : recent'[k] = Earlier(rrc', Len(recent') - k, n)
        <5> TAKE k \in 1 .. Len(recent')
        <5>1. CASE k = Len(recent) + 1
          BY <5>1, <4>2, <3>1, <3>4
        <5>2. CASE k \in 1 .. Len(recent)
          <6>1. recent[k] = Earlier(rrc', Len(recent) - k + 1, n)
            BY <5>2, <3>1, <3>3, <3>5, <2>1
          <6>2. Len(recent') - k = Len(recent) - k + 1
            BY <5>2, <4>2, <3>1
          <6> QED BY <5>2, <6>1, <6>2, <4>2
        <5> QED BY <5>1, <5>2, <4>2, <3>1
      <4> QED BY <4>2, <4>3, <3>5, <3>1, <2>1, <2>2 DEF IInv, TypeOK, InTurn
    <3>6. CASE Len(recent) = n
      <4>1. recent' = Append(Tail(recent), rrc')
        BY <1>2, <2>4, <3>6, <2>1 DEF select_backend
      <4>2. Tail(recent) \in Seq(Nat) /\ Len(Tail(recent)) = n - 1
            /\ \A k \in 1 .. n - 1 : Tail(recent)[k] = recent[k + 1]
        BY <3>1, <3>6, <2>1
      <4>3. /\ recent' \in Seq(Nat) /\ Len(recent') = n
            /\ recent'[n] = rrc'
            /\ \A k \in 1 .. n - 1 : recent'[k] = recent[k + 1]
        BY <4>1, <4>2, <2>1, <2>2
      <4>4. \A k \in 1 .. n : recent'[k] = Earlier(rrc', n - k, n)
        <5> TAKE k \in 1 .. n
        <5>1. CASE k = n
          BY <5>1, <4>3, <3>4, <2>1
        <5>2. CASE k # n
          <6>1. k + 1 \in 1 .. Len(recent) /\ Len(recent) - (k + 1) <= n - 2
            BY <5>2, <3>6, <2>1
          <6>2. recent[k + 1] = Earlier(rrc', Len(recent) - (k + 1) + 1, n)
            BY <6>1, <3>3
          <6> QED BY <5>2, <6>2, <4>3, <3>6, <2>1
        <5> QED BY <5>1, <5>2
      <4> QED BY <4>3, <4>4, <2>1, <2>2 DEF IInv, TypeOK, InTurn
    <3> QED BY <3>1, <3>5, <3>6, <2>1
  <2> QED BY <2>3, <2>4
<1> QED BY <1>1, <1>2 DEF Next

(* The invariant that the other theorems rest on.                          *)
THEOREM Invariance == Spec => []IInv
BY InitIInv, NextIInv, PTL DEF Spec

(* select_backend never indexes its list out of bounds, whatever lists the *)
(* counter was advanced for before.                                        *)
THEOREM IndexInBounds == Spec => []TypeOK
<1>1. IInv => TypeOK
  BY DEF IInv
<1> QED BY <1>1, Invariance, PTL

(* Requests that bring the same list are spread over it evenly: as many    *)
(* selections in a row as it has addresses select each of them once.       *)
THEOREM TurnsAreFair == Spec => []EachOncePerTurn
<1>1. IInv => EachOncePerTurn
  <2> SUFFICES ASSUME IInv PROVE EachOncePerTurn
    OBVIOUS
  <2> DEFINE n == Len(addresses)
             m == Len(recent)
  <2>1. /\ recent \in Seq(Nat) /\ m \in Nat /\ DOMAIN recent = 1 .. m
        /\ addresses \in Seq(Address) /\ n \in Nat /\ m <= n
    BY ListsAssumption DEF IInv, TypeOK, InTurn
  <2>2. ASSUME NEW j \in DOMAIN recent, NEW k \in DOMAIN recent, recent[j] = recent[k]
        PROVE  j = k
    <3>1. Earlier(rrc, m - j, n) = Earlier(rrc, m - k, n)
      BY <2>1, <2>2 DEF IInv, InTurn
    <3>2. rrc \in Nat /\ rrc < n
      BY <2>1, <2>2 DEF IInv, TypeOK
    <3>3. j \in 1 .. m /\ k \in 1 .. m
      BY <2>1
    <3> HIDE DEF n, m
    <3>4. m - j \in 0 .. n - 1 /\ m - k \in 0 .. n - 1 /\ rrc \in 0 .. n - 1
      BY <2>1, <3>2, <3>3
    <3>5. m - j = m - k
      BY <2>1, <3>1, <3>4, EarlierInjective
    <3> QED BY <2>1, <3>3, <3>5
  <2> QED BY <2>1, <2>2 DEF EachOncePerTurn
<1> QED BY <1>1, Invariance, PTL
-----------------------------------------------------------------------------
Flight == [phase : {"idle", "sent", "forwarded"}, directory : SUBSET Directory,
           cookies : Seq(Cookie), backend : Cookie, set_cookie : Cookie]

SessionInv ==
  /\ IInv /\ SessionTypeOK
  /\ working \in Lists
  /\ flight \in [Request -> Flight]

(* A list of working addresses is not empty, and of addresses.             *)
LEMMA WorkingIsList ==
  ASSUME working \in Lists
  PROVE  /\ working \in Seq(Address) /\ Len(working) \in Nat \ {0}
         /\ DOMAIN working = 1 .. Len(working) /\ Set(working) \subseteq Address
BY ListsAssumption DEF Set

(* The first cookie with the name, if there is one.                        *)
LEMMA StickyIsCookie ==
  ASSUME NEW cookies \in Seq(Cookie)
  PROVE  try_parse_sticky_cookie(cookies) \in Cookie
<1> DEFINE firsts == {i \in DOMAIN cookies : \A j \in 1 .. i - 1 : cookies[j] = {}}
<1>1. /\ DOMAIN cookies = 1 .. Len(cookies) /\ Len(cookies) \in Nat
      /\ \A i \in DOMAIN cookies : cookies[i] \in Cookie
  OBVIOUS
<1>2. CASE \A i \in firsts : cookies[i] = {}
  <2>1. UNION {cookies[i] : i \in firsts} = {}
    BY <1>2, Zenon
  <2> QED BY <2>1, Zenon DEF try_parse_sticky_cookie, Cookie
<1>3. CASE \E i \in firsts : cookies[i] # {}
  <2>1. PICK k \in firsts : cookies[k] # {}
    BY <1>3
  <2>2. ASSUME NEW i \in firsts PROVE cookies[i] \subseteq cookies[k]
    <3>1. i \in Int /\ k \in Int /\ 1 <= i /\ 1 <= k
      BY <1>1
    <3>2. CASE i < k
      <4>1. i \in 1 .. k - 1
        BY <3>1, <3>2
      <4> QED BY <2>1, <4>1
    <3>3. CASE i = k
      BY <3>3
    <3>4. CASE k < i
      <4>1. k \in 1 .. i - 1
        BY <3>1, <3>4
      <4> QED BY <2>1, <2>2, <4>1
    <3> QED BY <3>1, <3>2, <3>3, <3>4
  <2>3. UNION {cookies[i] : i \in firsts} = cookies[k]
    <3> HIDE DEF firsts
    <3> QED BY <2>1, <2>2, Zenon
  <2>4. cookies[k] \in Cookie
    BY <1>1, <2>1
  <2> QED BY <2>3, <2>4, Zenon DEF try_parse_sticky_cookie
<1> QED BY <1>2, <1>3

(* A sticky address is one of the working ones.                            *)
LEMMA StickyWorks ==
  ASSUME NEW cookies \in Seq(Cookie), NEW offered, StickyAddress(cookies, offered) # {}
  PROVE  \E a \in offered : StickyAddress(cookies, offered) = {a}
<1>1. try_parse_sticky_cookie(cookies) \in Cookie
  BY StickyIsCookie
<1> QED BY <1>1, Zenon DEF StickyAddress, Cookie

(* RoundRobin's index, from 0, is inside the list it was advanced for.     *)
LEMMA RoundRobinWorks ==
  ASSUME rrc \in Nat, working \in Lists, select_backend(working)
  PROVE  \E a \in Set(working) : RoundRobin(working) = {a}
<1>1. rrc' \in 0 .. Len(working) - 1
  BY WorkingIsList, AdvanceInRange DEF select_backend
<1>2. rrc' + 1 \in DOMAIN working
  <2>1. Len(working) \in Nat \ {0} /\ DOMAIN working = 1 .. Len(working)
    BY WorkingIsList
  <2>2. ASSUME NEW n \in Nat \ {0}, NEW k \in 0 .. n - 1 PROVE k + 1 \in 1 .. n
    OBVIOUS
  <2>3. rrc' + 1 \in 1 .. Len(working)
    BY <1>1, <2>1, <2>2, Zenon
  <2> QED BY <2>1, <2>3
<1>3. RoundRobin(working) = {working[rrc' + 1]}
  BY <1>2 DEF RoundRobin
<1> QED BY <1>2, <1>3 DEF Set

(* IPHash's index, from 0, is inside the list.                             *)
LEMMA IPHashWorks == ASSUME working \in Lists PROVE IPHash(working) \subseteq Set(working)
<1> DEFINE h == Hash % Len(working)
<1>1. h \in 0 .. Len(working) - 1
  BY WorkingIsList, SessionAssumption
<1>2. IPHash(working) = {working[h + 1]}
  BY DEF IPHash
<1> HIDE DEF h
<1>3. h + 1 \in DOMAIN working
  <2> DEFINE n == Len(working)
  <2>1. n \in Nat /\ h \in 0 .. n - 1 /\ DOMAIN working = 1 .. n
    BY <1>1, WorkingIsList
  <2> HIDE DEF n
  <2> QED BY <2>1
<1> QED BY <1>2, <1>3 DEF Set

(* A selection gives the request one working address, and sets it as the   *)
(* cookie unless the request had named it.                                 *)
LEMMA SelectForwards ==
  ASSUME SessionInv, NEW r \in Request, Select(r)
  PROVE  \E a \in Set(working), set_cookie \in Cookie :
           /\ set_cookie \in {{}, {a}}
           /\ flight' = [flight EXCEPT ![r] = [flight[r] EXCEPT !.phase = "forwarded", !.cookies = <<>>,
                                                 !.backend = {a}, !.set_cookie = set_cookie]]
<1> DEFINE sticky == StickyAddress(flight[r].cookies, Set(working))
<1>0. /\ flight[r].cookies \in Seq(Cookie) /\ working \in Lists /\ rrc \in Nat
      /\ \A a \in Set(working) : {} \in Cookie /\ {a} \in Cookie
  BY WorkingIsList DEF SessionInv, SessionTypeOK, IInv, TypeOK, Cookie
<1>1. CASE sticky # {} /\ Forward(r, sticky, {})
  <2>1. PICK a \in Set(working) : sticky = {a}
    BY <1>0, <1>1, StickyWorks, Zenon
  <2> QED BY <1>0, <1>1, <2>1 DEF Forward
<1>2. CASE select_backend(working) /\ Forward(r, RoundRobin(working), modify_response(RoundRobin(working)))
  <2>1. PICK a \in Set(working) : RoundRobin(working) = {a}
    BY <1>0, <1>2, RoundRobinWorks, Zenon
  <2> QED BY <1>0, <1>2, <2>1 DEF Forward, modify_response
<1>3. CASE \E a \in IF inner = "IPHash" THEN IPHash(working) ELSE Random(working) :
             Forward(r, {a}, modify_response({a}))
  <2>1. PICK a \in Set(working) : Forward(r, {a}, modify_response({a}))
    BY <1>0, <1>3, IPHashWorks, Zenon DEF Random
  <2> QED BY <1>0, <2>1 DEF Forward, modify_response
<1> QED BY <1>1, <1>2, <1>3, Zenon DEF Select

(* A session's step is a selection of RoundRobin's or leaves it alone.     *)
LEMMA SessionStepIsRoundRobinStep ==
  ASSUME working \in Lists, [SessionNext]_sessionVars PROVE [Next]_vars
BY Zenon DEF SessionNext, sessionVars, Select, Receive, Lose, Send, Change, Next

(* Every step preserves the invariant.                                     *)
LEMMA SessionNextInv == ASSUME SessionInv, [SessionNext]_sessionVars PROVE SessionInv'
<1>1. IInv'
  BY SessionStepIsRoundRobinStep, NextIInv DEF SessionInv
<1>2. /\ inner \in Inner /\ jar \in [Directory -> Cookie] /\ working \in Lists
      /\ flight \in [Request -> Flight] /\ {} \in Cookie /\ Idle \in Flight
      /\ \A r \in Request : flight[r].set_cookie \in {{}, flight[r].backend}
  <2>1. {} \in Cookie
    BY DEF Cookie
  <2> QED BY <2>1, EmptySeq DEF SessionInv, SessionTypeOK, Flight, Idle
<1>3. ASSUME inner' = inner, jar' \in [Directory -> Cookie], working' \in Lists,
             flight' \in [Request -> Flight],
             \A r \in Request : flight'[r].set_cookie \in {{}, flight'[r].backend}
      PROVE  SessionInv'
  BY <1>1, <1>2, <1>3 DEF SessionInv, SessionTypeOK, Flight
<1>4. ASSUME NEW r \in Request, NEW f \in Flight, f.set_cookie \in {{}, f.backend},
             flight' = [flight EXCEPT ![r] = f]
      PROVE  /\ flight' \in [Request -> Flight]
             /\ \A q \in Request : flight'[q].set_cookie \in {{}, flight'[q].backend}
  BY <1>2, <1>4
<1>5. ASSUME NEW r \in Request, Select(r) PROVE SessionInv'
  <2>1. PICK a \in Set(working), set_cookie \in Cookie :
          /\ set_cookie \in {{}, {a}}
          /\ flight' = [flight EXCEPT ![r] = [flight[r] EXCEPT !.phase = "forwarded", !.cookies = <<>>,
                                                !.backend = {a}, !.set_cookie = set_cookie]]
    BY <1>5, SelectForwards, Zenon
  <2> DEFINE f == [flight[r] EXCEPT !.phase = "forwarded", !.cookies = <<>>,
                                    !.backend = {a}, !.set_cookie = set_cookie]
  <2>2. {a} \in Cookie /\ flight[r] \in Flight
    BY <1>2, <2>1, WorkingIsList DEF Cookie
  <2>3. f \in Flight /\ f.set_cookie = set_cookie /\ f.backend = {a}
    BY <2>2, EmptySeq, Zenon DEF Flight
  <2>4. UNCHANGED <<inner, working, jar>>
    BY <1>5 DEF Select
  <2> HIDE DEF f
  <2> QED BY <1>2, <1>3, <1>4, <2>1, <2>3, <2>4, Zenon DEF f
<1>6. ASSUME NEW r \in Request, Receive(r) PROVE SessionInv'
  <2>1. flight' = [flight EXCEPT ![r] = Idle] /\ UNCHANGED <<inner, working>>
    BY <1>6 DEF Receive
  <2>2. jar' \in [Directory -> Cookie]
    <3>1. flight[r].set_cookie \in Cookie
      BY <1>2 DEF Flight
    <3> QED BY <1>2, <1>6, <3>1 DEF Receive
  <2>3. Idle.set_cookie = {}
    BY DEF Idle
  <2> QED BY <1>2, <1>3, <1>4, <2>1, <2>2, <2>3
<1>7. ASSUME NEW r \in Request, Lose(r) PROVE SessionInv'
  <2>1. flight' = [flight EXCEPT ![r] = Idle] /\ UNCHANGED <<inner, working, jar>>
    BY <1>7 DEF Lose
  <2>2. Idle.set_cookie = {}
    BY DEF Idle
  <2> QED BY <1>2, <1>3, <1>4, <2>1, <2>2
<1>8. ASSUME NEW r \in Request, NEW d \in Directory, Send(r, d) PROVE SessionInv'
  <2> DEFINE f == [Idle EXCEPT !.phase = "sent", !.directory = {d}, !.cookies = Cookies(d)]
  <2>1. flight' = [flight EXCEPT ![r] = f] /\ UNCHANGED <<inner, working, jar>>
    BY <1>8 DEF Send
  <2>2. Cookies(d) \in Seq(Cookie)
    <3>1. /\ Above[d] \in Seq(Directory) /\ DOMAIN Above[d] = 1 .. Len(Above[d]) /\ Len(Above[d]) \in Nat
          /\ \A i \in DOMAIN Above[d] : Above[d][i] \in Directory
      BY SessionAssumption
    <3> QED BY <1>2, <3>1 DEF Cookies
  <2>3. f \in Flight /\ f.set_cookie = {}
    BY <1>2, <2>2, Zenon DEF Idle, Flight
  <2> HIDE DEF f
  <2> QED BY <1>2, <1>3, <1>4, <2>1, <2>3
<1>9. CASE Change \/ UNCHANGED sessionVars
  BY <1>2, <1>3, <1>9 DEF Change, sessionVars
<1> QED BY <1>5, <1>6, <1>7, <1>8, <1>9 DEF SessionNext

(* The browser starts without cookies and without requests.                *)
LEMMA SessionInitInv == ASSUME SessionInit PROVE SessionInv
<1>1. IInv /\ {} \in Cookie
  BY InitIInv DEF SessionInit, Cookie
<1>2. Idle \in Flight /\ Idle.set_cookie = {}
  BY <1>1, EmptySeq DEF Flight, Idle
<1> QED BY <1>1, <1>2 DEF SessionInit, SessionInv, SessionTypeOK, Flight

(* The inductive invariant holds in every reachable state of a session.    *)
THEOREM SessionInvariance == SessionSpec => []SessionInv
BY SessionInitInv, SessionNextInv, PTL DEF SessionSpec

(* A StickyCookie pool uses RoundRobin as its specification allows: the    *)
(* sticky requests leave the counter alone, the others advance it for the  *)
(* list they bring.                                                        *)
THEOREM SessionImplementsRoundRobin == SessionSpec => Spec
<1>1. SessionInit => Init
  BY DEF SessionInit
<1>2. SessionInv /\ [SessionNext]_sessionVars => [Next]_vars
  BY SessionStepIsRoundRobinStep DEF SessionInv
<1> QED BY <1>1, <1>2, SessionInvariance, PTL DEF SessionSpec, Spec

(* So inside StickyCookie the counter stays in bounds and serves in turn.  *)
THEOREM TurnsInSession == SessionSpec => [](TypeOK /\ EachOncePerTurn)
BY SessionImplementsRoundRobin, IndexInBounds, TurnsAreFair, PTL

(* A response sets no other cookie than the one of the backend it comes    *)
(* from, and the browser holds addresses of the pool only.                 *)
THEOREM SessionTypeCorrect == SessionSpec => []SessionTypeOK
<1>1. SessionInv => SessionTypeOK
  BY DEF SessionInv
<1> QED BY <1>1, SessionInvariance, PTL

(* Whatever the cookies name and however the health changes, a request is  *)
(* forwarded to one address of the list it was selected from.              *)
THEOREM StickyNeverForwardsToGone == SessionSpec => ForwardedToWorking
<1> DEFINE A == \A r \in Request : flight'[r].phase = "forwarded" /\ flight[r].phase # "forwarded"
                                    => \E a \in Set(working) : flight'[r].backend = {a}
<1>1. ASSUME SessionInv, [SessionNext]_sessionVars PROVE [A]_sessionVars
  <2> SUFFICES ASSUME NEW r \in Request, flight'[r].phase = "forwarded", flight[r].phase # "forwarded"
               PROVE  \E a \in Set(working) : flight'[r].backend = {a}
    OBVIOUS
  <2>1. flight \in [Request -> Flight]
    BY <1>1 DEF SessionInv
  <2>2. ASSUME NEW q \in Request, Select(q) PROVE \E a \in Set(working) : flight'[r].backend = {a}
    <3>1. PICK a \in Set(working), set_cookie \in Cookie :
            /\ set_cookie \in {{}, {a}}
            /\ flight' = [flight EXCEPT ![q] = [flight[q] EXCEPT !.phase = "forwarded", !.cookies = <<>>,
                                                  !.backend = {a}, !.set_cookie = set_cookie]]
      BY <1>1, <2>2, SelectForwards, Zenon
    <3>2. q = r
      BY <2>1, <3>1
    <3> QED BY <2>1, <3>1, <3>2 DEF Flight
  <2>3. ASSUME NEW q \in Request, Receive(q) \/ Lose(q) \/ \E d \in Directory : Send(q, d) PROVE FALSE
    <3>1. PICK f : flight' = [flight EXCEPT ![q] = f] /\ f.phase # "forwarded"
      BY <2>3, Zenon DEF Receive, Lose, Send, Idle
    <3> QED BY <2>1, <3>1, Zenon
  <2>4. CASE Change \/ UNCHANGED sessionVars
    BY <2>4 DEF Change, sessionVars
  <2> QED BY <1>1, <2>2, <2>3, <2>4 DEF SessionNext
<1> QED BY <1>1, SessionInvariance, PTL DEF SessionSpec, ForwardedToWorking

=============================================================================
