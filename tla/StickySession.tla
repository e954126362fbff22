---------------------------- MODULE StickySession ---------------------------
(***************************************************************************)
(* A pool with the StickyCookie strategy over RoundRobin, IPHash or Random *)
(* and a browser that has several requests to it under way.  The working   *)
(* addresses change meanwhile.  The cookie is set without a Path, so that  *)
(* the browser keeps one per directory, and sends those of the directory   *)
(* of a request and of the ones above, the nearest first.  Responses come  *)
(* in any order, or are lost.                                              *)
(***************************************************************************)
EXTENDS RoundRobin, StickyCookie

CONSTANTS
  Request,     \* the requests the browser has under way at the same time
  Directory,   \* the directories it asks for
  Above,       \* the directories whose cookies a directory sees, in order
  Inner,       \* the names of inner strategies
  Hash         \* the hash of the client's IP address

ASSUME SessionAssumption == Above \in [Directory -> Seq(Directory)] /\ Hash \in Nat

VARIABLES
  inner,       \* the inner strategy of the pool
  working,     \* the working addresses, in order
  jar,         \* the cookie the browser holds for a directory, if any
  flight       \* what becomes of each request

sessionVars == <<vars, inner, working, jar, flight>>

Idle == [phase |-> "idle", directory |-> {}, cookies |-> <<>>, backend |-> {}, set_cookie |-> {}]

SessionInit ==
  /\ Init
  /\ inner \in Inner
  /\ working \in Lists
  /\ jar = [d \in Directory |-> {}]
  /\ flight = [r \in Request |-> Idle]

(* The cookies that the browser puts into a request.                       *)
Cookies(d) == [i \in DOMAIN Above[d] |-> jar[Above[d][i]]]

Send(r, d) ==
  /\ flight[r].phase = "idle"
  /\ flight' = [flight EXCEPT ![r] = [Idle EXCEPT !.phase = "sent", !.directory = {d},
                                                  !.cookies = Cookies(d)]]
  /\ UNCHANGED <<vars, inner, working, jar>>

Set(list) == {list[i] : i \in DOMAIN list}

(* The request is forwarded, and its response will set the cookies.        *)
Forward(r, backend, set_cookie) ==
  flight' = [flight EXCEPT ![r] = [@ EXCEPT !.phase = "forwarded", !.cookies = <<>>,
                                            !.backend = backend, !.set_cookie = set_cookie]]

(* The index of RoundRobin::select_backend into the list.                  *)
RoundRobin(list) == {list[i] : i \in DOMAIN list \cap {rrc' + 1}}

(* IPHash::select_backend.                                                 *)
IPHash(list) == {list[(Hash % Len(list)) + 1]}

(* Random::select_backend.                                                 *)
Random(list) == Set(list)

(* Mutated: the cookie names the first of the working addresses.           *)
modify_response_first(backend) == {working[1]}

(* The cookie that StickyCookie::modify_response adds to the response.     *)
modify_response(backend) == backend

(* StickyCookie::select_backend, with the list the request has found.      *)
Select(r) ==
  LET sticky == StickyAddress(flight[r].cookies, Set(working)) IN
  /\ flight[r].phase = "sent"
  /\ \/ sticky # {} /\ Forward(r, sticky, {}) /\ UNCHANGED vars
     \/ /\ sticky = {} /\ inner = "RoundRobin"
        /\ select_backend(working)
        /\ Forward(r, RoundRobin(working), modify_response(RoundRobin(working)))
     \/ /\ sticky = {} /\ inner # "RoundRobin"
        /\ \E a \in IF inner = "IPHash" THEN IPHash(working) ELSE Random(working) :
             Forward(r, {a}, modify_response({a}))
        /\ UNCHANGED vars
  /\ UNCHANGED <<inner, working, jar>>

(* The response, and the browser's part of what modify_response asks for.  *)
Receive(r) ==
  /\ flight[r].phase = "forwarded"
  /\ jar' = [d \in Directory |->
               IF d \in flight[r].directory /\ flight[r].set_cookie # {}
               THEN flight[r].set_cookie ELSE jar[d]]
  /\ flight' = [flight EXCEPT ![r] = Idle]
  /\ UNCHANGED <<vars, inner, working>>

Lose(r) ==
  /\ flight[r].phase = "forwarded"
  /\ flight' = [flight EXCEPT ![r] = Idle]
  /\ UNCHANGED <<vars, inner, working, jar>>

(* Health checks find other addresses working.                             *)
Change ==
  /\ working' \in Lists
  /\ UNCHANGED <<vars, inner, jar, flight>>

SessionNext ==
  \/ \E r \in Request : Select(r) \/ Receive(r) \/ Lose(r) \/ \E d \in Directory : Send(r, d)
  \/ Change

SessionSpec == SessionInit /\ [][SessionNext]_sessionVars
-----------------------------------------------------------------------------
Cookie == {{}} \cup {{a} : a \in Address}

SessionTypeOK ==
  /\ inner \in Inner
  /\ jar \in [Directory -> Cookie]
  /\ \A r \in Request :
       /\ flight[r].phase \in {"idle", "sent", "forwarded"}
       /\ flight[r].directory \subseteq Directory
       /\ flight[r].cookies \in Seq(Cookie)
       /\ flight[r].backend \in Cookie
       /\ flight[r].set_cookie \in {{}, flight[r].backend}

(* A request goes to one address, which works when it is selected,         *)
(* whatever cookie it carries: the browser may have got it long ago.       *)
ForwardedToWorking ==
  [][\A r \in Request : flight'[r].phase = "forwarded" /\ flight[r].phase # "forwarded"
                         => \E a \in Set(working) : flight'[r].backend = {a}]_sessionVars

(* Once the working addresses no longer change, the cookies settle, each   *)
(* on one backend, although requests that were under way without a cookie  *)
(* overwrite each other's, and directories have cookies of their own that  *)
(* may name addresses that are gone.                                       *)
SessionsSettle == <>[][FALSE]_working => <>[][FALSE]_jar
=============================================================================
