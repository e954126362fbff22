---------------------------- MODULE StickyCookie ----------------------------
(***************************************************************************)
(* The StickyCookie strategy: what it makes of the cookies of a request.   *)
(* It has no state of its own, the browser has it.  A request carries the  *)
(* cookies of its header, in order, each the set of its value; a cookie    *)
(* that does not parse or has not the strategy's name is the empty set.    *)
(***************************************************************************)
EXTENDS Integers, Sequences

(* Mutated: the cookie that comes last is taken.                           *)
LastStickyCookie(cookies) ==
  UNION {cookies[i] : i \in {i \in DOMAIN cookies : \A j \in i + 1 .. Len(cookies) : cookies[j] = {}}}

(* find_map stops at the first cookie with the name.                       *)
try_parse_sticky_cookie(cookies) ==
  UNION {cookies[i] : i \in {i \in DOMAIN cookies : \A j \in 1 .. i - 1 : cookies[j] = {}}}

(* Mutated: the address in the cookie is used without looking it up.       *)
StickyAddressUnchecked(cookies, offered) == try_parse_sticky_cookie(cookies)

(* The address the cookie names, if it is among the offered ones.  If not, *)
(* the inner strategy selects, and its choice is set as a cookie.          *)
StickyAddress(cookies, offered) == try_parse_sticky_cookie(cookies) \cap offered
=============================================================================
