------------------------------ MODULE ApiClient -----------------------------
(***************************************************************************)
(* What the pages of the web client share (frontend/src/lib/api.ts and     *)
(* auth.ts, the layout and the sign-in page): the token in session         *)
(* storage, the page on screen, and the requests the browser is waiting    *)
(* for, which the API answers in any order.                                *)
(*                                                                         *)
(* A request keeps the token it was sent with.  The API looks at it when   *)
(* it takes the request up, so a token that ends in between gets a 401.    *)
(* Leaving a page does not stop its requests: they come back to code whose *)
(* page is gone, and only what apiFetch itself does still shows.           *)
(***************************************************************************)
EXTENDS Naturals, SequencesExt

CONSTANT MaxRequests   \* bound: requests the browser waits for at a time

VARIABLES
  token,      \* session storage: no token, a good one or an ended one
  page,       \* the page on screen
  going,      \* the page goto() is on its way to, or Nowhere
  signingIn,  \* the sign-in form was submitted
  requests    \* requests without an answer yet, oldest first

sessionVars == <<token, page, going, signingIn>>

Token   == {"none", "good", "ended"}
Page    == {"login", "dashboard", "records"}
Nowhere == "nowhere"
Gone    == "gone"

SessionTypeOK ==
  /\ token \in Token
  /\ page \in Page
  /\ going \in Page \union {Nowhere}
  /\ signingIn \in BOOLEAN
  /\ Len(requests) <= MaxRequests
  /\ \A i \in DOMAIN requests : /\ requests[i].from \in Page \union {Gone}
                                /\ requests[i].token \in Token

SessionInit ==
  /\ token = "none"
  /\ page = "login"
  /\ going = Nowhere
  /\ signingIn = FALSE
  /\ requests = <<>>

-----------------------------------------------------------------------------
(* apiFetch: sending, and what becomes of the answer.                      *)

Request(from, call) == [from |-> from, token |-> token, call |-> call]
Room(n) == Len(requests) + n <= MaxRequests

Sent(call)      == Append(requests, Request(page, call))
Send(call)      == Room(1) /\ requests' = Sent(call)
Waiting(i, op)  == requests[i].from # Gone /\ requests[i].call.op = op
Without(i)      == RemoveAt(requests, i)

(* JwtAuthGuard lets a request in: it is the sign-in, or its token holds.  *)
Admitted(r) == r.call.op = "login" \/ r.token = "good"

(* Request i succeeds, or ends in an error that is not a 401: refused,     *)
(* throttled, timed out.  The page's code goes on.                         *)
Answered(i, op) == Waiting(i, op) /\ Admitted(requests[i])
Failed(i, op)   == Waiting(i, op)
Done(i)         == requests' = Without(i)
DoneSend(i, call) == requests' = Append(Without(i), Request(page, call))

(* Mutant: the token goes, the page stays.                                 *)
UnauthorizedStay(i) ==
  /\ ~Admitted(requests[i])
  /\ token' = "none"
  /\ Done(i)
  /\ UNCHANGED <<page, going, signingIn>>

(* 401: apiFetch drops whatever token is stored by now and leaves for the  *)
(* sign-in page.  The caller's catch runs after that, on a page that is    *)
(* gone.                                                                   *)
Unauthorized(i) ==
  /\ ~Admitted(requests[i])
  /\ token' = "none"
  /\ going' = "login"
  /\ Done(i)
  /\ UNCHANGED <<page, signingIn>>

(* An answer, or an error, for code whose page is gone.                    *)
Forgotten(i) ==
  /\ requests[i].from = Gone
  /\ Done(i)
  /\ UNCHANGED sessionVars

(* The sign-in form.                                                       *)
SubmitLogin ==
  /\ page = "login" /\ ~signingIn
  /\ Send([op |-> "login"])
  /\ signingIn' = TRUE
  /\ UNCHANGED <<token, page, going>>

(* The form stays busy until goto is done.                                 *)
LoggedIn(i) ==
  /\ Answered(i, "login")
  /\ token' = "good"
  /\ going' = "dashboard"
  /\ Done(i)
  /\ UNCHANGED <<page, signingIn>>

(* Wrong credentials are a 401 as well; the page is the one it is sent to. *)
LoginRefused(i) ==
  /\ Answered(i, "login")
  /\ token' = "none"
  /\ going' = "login"
  /\ signingIn' = FALSE
  /\ Done(i)
  /\ UNCHANGED page

LoginFailed(i) ==
  /\ Failed(i, "login")
  /\ signingIn' = FALSE
  /\ Done(i)
  /\ UNCHANGED <<token, page, going>>

Logout ==
  /\ page # "login" /\ token # "none"
  /\ token' = "none"
  /\ going' = "login"
  /\ UNCHANGED <<page, signingIn, requests>>

(* A link of the header, or the browser's history.                         *)
Visit(p) ==
  /\ p # page
  /\ going' = p
  /\ UNCHANGED <<token, page, signingIn, requests>>

(* The token's hour is over.  The API has taken up some of the requests    *)
(* already, and not others.                                                *)
TokenEnds ==
  /\ \/ token = "good"
     \/ \E i \in DOMAIN requests : requests[i].token = "good"
  /\ token' = IF token = "good" THEN "ended" ELSE token
  /\ \E taken \in SUBSET DOMAIN requests :
       requests' = [i \in DOMAIN requests |->
                      IF i \in taken \/ requests[i].token # "good"
                        THEN requests[i]
                        ELSE [requests[i] EXCEPT !.token = "ended"]]
  /\ UNCHANGED <<page, going, signingIn>>

(* Mutant: only the sign-in page looks for a token.                        *)
ArrivalUnchecked(target) ==
  IF target = "login" /\ token # "none" THEN "dashboard" ELSE target

(* The layout's load function: where a navigation ends.                    *)
Arrival(target) ==
  IF target # "login" /\ token = "none" THEN "login"
  ELSE IF target = "login" /\ token # "none" THEN "dashboard"
  ELSE target

(* The requests of the page that is left.                                  *)
Orphaned ==
  [i \in DOMAIN requests |->
     [requests[i] EXCEPT !.from = Gone, !.call = [op |-> Gone]]]

(* Navigation ends on the page it started from, or on another one, which   *)
(* sends the calls it makes when it is mounted.                            *)
Stay ==
  /\ going # Nowhere /\ Arrival(going) = page
  /\ going' = Nowhere
  /\ signingIn' = \E i \in DOMAIN requests : Waiting(i, "login")
  /\ UNCHANGED <<token, page, requests>>

Leave(calls) ==
  LET next == Arrival(going)
  IN /\ going # Nowhere /\ next # page
     /\ Room(Len(calls))
     /\ page' = next
     /\ going' = Nowhere
     /\ signingIn' = FALSE
     /\ requests' = Orphaned
                     \o [k \in DOMAIN calls |-> Request(next, calls[k])]
     /\ UNCHANGED token
=============================================================================
