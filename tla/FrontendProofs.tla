--------------------------- MODULE FrontendProofs ---------------------------
(***************************************************************************)
(* What the web client keeps true for any number of records, windows, page *)
(* offsets and requests under way, whatever the user clicks and in         *)
(* whichever order the answers come: TypeOK, ShowsLatest, UpdateOwn,       *)
(* ArchiveOwn and SingleRenew; and what it is told of the records,         *)
(* whichever they are: MetricsAgree, PagesComplete and PresetIsExpiring.   *)
(*                                                                         *)
(* The inductive invariant says what a page may conclude from its own      *)
(* state about the requests under way: whose calls they are (Placed), that *)
(* the latest of each load asks for what is chosen on screen (Asked), and  *)
(* that a busy button has one request under way, or the load that follows  *)
(* it, and a button that is ready none (ArchiveInv, RenewInv).             *)
(*                                                                         *)
(* All of these speak of the calls under way, never of their order.  So    *)
(* what a step does to the sequence of requests is said once, in Follows:  *)
(* which request it takes out and which call it adds.                      *)
(***************************************************************************)
EXTENDS Frontend, DashboardQueriesProofs

(* The calls of api.ts, by the page that makes them.                       *)
MetricsCall  == [op : {"metrics"}, ticked : SUBSET Breakdowns,
                 latest : BOOLEAN]
ExpiringCall == [op : {"expiring"}, filter : Filters, offset : Offsets,
                 latest : BOOLEAN]
ListCall     == [op : {"list"}, busy : {"none", "form", "renew", "archive"}]
CreateCall   == [op : {"create"}, origin : Rows \union {NoRow}]
UpdateCall   == [op : {"update"}, id : Rows, origin : Rows \union {NoRow}]
RowCall      == [op : {"get", "renew", "archive"}, id : Rows]
PlainCall    == [op : {"login", "employees", Gone}]

Call == MetricsCall \union ExpiringCall \union ListCall \union CreateCall
          \union UpdateCall \union RowCall \union PlainCall

Requested ==
  {r \in [from : Page \union {Gone}, token : Token, call : Call] :
     r.from = Gone => r.call.op = Gone}

DashOps == {"metrics", "expiring"}
RecsOps == {"employees", "list", "get", "create", "update", "renew", "archive"}

InFlight == DOMAIN requests
OpOf(i)  == requests[i].call.op

RequestsOK == requests \in Seq(Requested) /\ Len(requests) <= MaxRequests

(* A page that is left takes its calls with it.                            *)
Placed ==
  \A i \in InFlight :
    /\ OpOf(i) = "login" => page = "login"
    /\ OpOf(i) \in DashOps => page = "dashboard"
    /\ OpOf(i) \in RecsOps => page = "records"

(* The latest request of each load asks for what is chosen on screen.      *)
Asked ==
  \A i \in InFlight :
    /\ OpOf(i) = "metrics" /\ requests[i].call.latest =>
         requests[i].call.ticked = dash.ticked
    /\ OpOf(i) = "expiring" /\ requests[i].call.latest =>
         /\ requests[i].call.filter = dash.filter
         /\ requests[i].call.offset = dash.offset

(* A call that keeps a button busy: the button's own, or the load of the   *)
(* list that its handler waits for afterwards.                             *)
CallOf(call, button) ==
  call.op = button \/ (call.op = "list" /\ call.busy = button)
Under(i, button) == CallOf(requests[i].call, button)

OneUnder(button) ==
  \A i, j \in InFlight : Under(i, button) /\ Under(j, button) => i = j

FormOwn == recs.formOpen => recs.origin = recs.editing

ArchiveInv ==
  /\ OneUnder("archive")
  /\ \A i \in InFlight :
       /\ Under(i, "archive") => recs.archiveBusy
       /\ OpOf(i) = "archive" => recs.archiveTarget = requests[i].call.id

RenewInv ==
  /\ OneUnder("renew")
  /\ \A i \in InFlight : Under(i, "renew") => recs.renewSubmitting

FInv ==
  /\ TypeOK
  /\ RequestsOK
  /\ Placed
  /\ Asked
  /\ ShowsLatest
  /\ FormOwn
  /\ UpdateOwn
  /\ ArchiveInv
  /\ RenewInv

-----------------------------------------------------------------------------
(* What a step does to the requests under way: at most one of them, lost,  *)
(* comes back, at most one call, sent, is made, and the others stay.  The  *)
(* new request at place j was at src[j] before; 0 is the call just made.   *)
(* A lost of 0 is no request, and Nothing as sent is no call of a page.    *)

Nothing == [op |-> Gone]

Comes(src, lost, sent) ==
  /\ src \in [DOMAIN requests' -> InFlight \union {0}]
  /\ \A j \in DOMAIN requests' :
       IF src[j] = 0 THEN requests'[j].call = sent
       ELSE src[j] # lost /\ requests'[j].call = requests[src[j]].call
  /\ \A j, k \in DOMAIN requests' : src[j] = src[k] => j = k

Follows(lost, sent) ==
  /\ RequestsOK'
  /\ \E src : Comes(src, lost, sent)

LEMMA RequestFields ==
  ASSUME RequestsOK, NEW i \in InFlight
  PROVE  /\ requests[i] \in Requested
         /\ requests[i].call \in Call
         /\ i \in Nat /\ i # 0
<1>1. requests[i] \in Requested /\ i \in 1..Len(requests)
  BY DEF RequestsOK, InFlight
<1>2. requests[i].call \in Call
  BY <1>1 DEF Requested
<1>3. QED
  BY <1>1, <1>2

LEMMA NewRequest ==
  ASSUME token \in Token, NEW from \in Page, NEW call \in Call
  PROVE  Request(from, call) \in Requested /\ Request(from, call).call = call
<1>1. Gone \notin Page
  BY DEF Gone, Page
<1>2. QED
  BY <1>1 DEF Request, Requested

LEMMA Concatenated ==
  ASSUME NEW S, NEW a \in Seq(S), NEW b \in Seq(S)
  PROVE  /\ a \o b \in Seq(S)
         /\ Len(a \o b) = Len(a) + Len(b)
         /\ \A j \in 1..(Len(a) + Len(b)) :
              (a \o b)[j] = IF j <= Len(a) THEN a[j] ELSE b[j - Len(a)]
OBVIOUS

(* RemoveAt of the community modules, as a function of the place.          *)
LEMMA Removed ==
  ASSUME NEW S, NEW s \in Seq(S), NEW i \in DOMAIN s
  PROVE  /\ RemoveAt(s, i) \in Seq(S)
         /\ Len(RemoveAt(s, i)) = Len(s) - 1
         /\ \A j \in 1..(Len(s) - 1) :
              RemoveAt(s, i)[j] = IF j < i THEN s[j] ELSE s[j + 1]
<1> DEFINE a == SubSeq(s, 1, i - 1)
           b == SubSeq(s, i + 1, Len(s))
<1>1. i \in 1..Len(s) /\ Len(s) \in Nat
  OBVIOUS
<1>2. /\ a \in Seq(S) /\ Len(a) = i - 1
      /\ \A j \in 1..(i - 1) : a[j] = s[j]
  BY <1>1
<1>3. /\ b \in Seq(S) /\ Len(b) = Len(s) - i
      /\ \A j \in 1..(Len(s) - i) : b[j] = s[j + i]
  BY <1>1
<1> HIDE DEF a, b
<1>4. /\ a \o b \in Seq(S) /\ Len(a \o b) = Len(s) - 1
      /\ \A j \in 1..(Len(s) - 1) :
           (a \o b)[j] = IF j < i THEN a[j] ELSE b[j - (i - 1)]
  <2>1. /\ a \o b \in Seq(S)
        /\ Len(a \o b) = Len(a) + Len(b)
        /\ \A j \in 1..(Len(a) + Len(b)) :
             (a \o b)[j] = IF j <= Len(a) THEN a[j] ELSE b[j - Len(a)]
    BY <1>2, <1>3, Concatenated
  <2>2. Len(a) + Len(b) = Len(s) - 1
    BY <1>1, <1>2, <1>3
  <2>3. ASSUME NEW j \in 1..(Len(s) - 1)
        PROVE  (a \o b)[j] = IF j < i THEN a[j] ELSE b[j - (i - 1)]
    <3>1. (a \o b)[j] = IF j <= i - 1 THEN a[j] ELSE b[j - (i - 1)]
      BY <1>2, <2>1, <2>2
    <3>2. j <= i - 1 <=> j < i
      BY <1>1
    <3>3. QED
      BY <3>1, <3>2
  <2>4. QED
    BY <2>1, <2>2, <2>3
<1>5. ASSUME NEW j \in 1..(Len(s) - 1)
      PROVE  (a \o b)[j] = IF j < i THEN s[j] ELSE s[j + 1]
  <2>1. CASE j < i
    BY <1>1, <1>2, <1>4, <2>1
  <2>2. CASE ~(j < i)
    <3>1. j - (i - 1) \in 1..(Len(s) - i) /\ (j - (i - 1)) + i = j + 1
      BY <1>1, <2>2
    <3>2. QED
      BY <1>1, <1>3, <1>4, <2>2, <3>1
  <2>3. QED
    BY <2>1, <2>2
<1>6. QED
  BY <1>4, <1>5 DEF RemoveAt, a, b

LEMMA KeptFollows ==
  ASSUME RequestsOK, requests' = requests
  PROVE  Follows(0, Nothing)
<1> DEFINE src == [j \in InFlight |-> j]
<1>1. \A j \in InFlight : j # 0
  BY RequestFields
<1>2. Comes(src, 0, Nothing)
  BY <1>1 DEF Comes, InFlight
<1>3. QED
  BY <1>2 DEF Follows, RequestsOK

LEMMA SentFollows ==
  ASSUME RequestsOK, token \in Token, page \in Page, MaxRequests \in Nat,
         NEW call \in Call, Send(call)
  PROVE  Follows(0, call)
<1> DEFINE n   == Len(requests)
           new == Request(page, call)
           src == [j \in 1..(n + 1) |-> IF j = n + 1 THEN 0 ELSE j]
<1>1. new \in Requested /\ new.call = call
  BY NewRequest
<1>2. /\ requests \in Seq(Requested) /\ n \in Nat /\ InFlight = 1..n
      /\ requests' = Append(requests, new) /\ n + 1 <= MaxRequests
  BY DEF RequestsOK, Send, Sent, Room, InFlight
<1> HIDE DEF new
<1>3. /\ requests' \in Seq(Requested) /\ Len(requests') = n + 1
      /\ DOMAIN requests' = 1..(n + 1)
      /\ \A j \in 1..n : requests'[j] = requests[j]
      /\ requests'[n + 1] = new
  BY <1>1, <1>2
<1>4. RequestsOK'
  BY <1>2, <1>3 DEF RequestsOK
<1>5. Comes(src, 0, call)
  <2>1. src \in [DOMAIN requests' -> InFlight \union {0}]
    BY <1>2, <1>3
  <2>2. ASSUME NEW j \in DOMAIN requests'
        PROVE  IF src[j] = 0 THEN requests'[j].call = call
               ELSE src[j] # 0 /\ requests'[j].call = requests[src[j]].call
    BY <1>1, <1>2, <1>3, <2>2
  <2>3. ASSUME NEW j \in DOMAIN requests', NEW k \in DOMAIN requests',
               src[j] = src[k]
        PROVE  j = k
    BY <1>2, <1>3, <2>3
  <2>4. QED
    BY <2>1, <2>2, <2>3 DEF Comes
<1>6. QED
  BY <1>4, <1>5 DEF Follows

LEMMA DoneFollows ==
  ASSUME RequestsOK, MaxRequests \in Nat, NEW i \in InFlight, Done(i)
  PROVE  Follows(i, Nothing)
<1> DEFINE n   == Len(requests)
           src == [j \in 1..(n - 1) |-> IF j < i THEN j ELSE j + 1]
<1>1. /\ requests \in Seq(Requested) /\ n \in Nat /\ InFlight = 1..n
      /\ i \in 1..n /\ n <= MaxRequests
  BY DEF RequestsOK, InFlight
<1>2. /\ requests' \in Seq(Requested) /\ Len(requests') = n - 1
      /\ \A j \in 1..(n - 1) :
           requests'[j] = IF j < i THEN requests[j] ELSE requests[j + 1]
  BY <1>1, Removed DEF Done, Without, InFlight
<1>3. DOMAIN requests' = 1..(n - 1)
  BY <1>1, <1>2
<1>4. RequestsOK'
  BY <1>1, <1>2 DEF RequestsOK
<1>5. Comes(src, i, Nothing)
  <2>1. src \in [DOMAIN requests' -> InFlight \union {0}]
    BY <1>1, <1>3
  <2>2. ASSUME NEW j \in DOMAIN requests'
        PROVE  /\ src[j] # 0 /\ src[j] # i
               /\ requests'[j].call = requests[src[j]].call
    BY <1>1, <1>2, <1>3, <2>2
  <2>3. ASSUME NEW j \in DOMAIN requests', NEW k \in DOMAIN requests',
               src[j] = src[k]
        PROVE  j = k
    BY <1>1, <1>3, <2>3
  <2>4. QED
    BY <2>1, <2>2, <2>3 DEF Comes
<1>6. QED
  BY <1>4, <1>5 DEF Follows

LEMMA DoneSentFollows ==
  ASSUME RequestsOK, token \in Token, page \in Page, MaxRequests \in Nat,
         NEW i \in InFlight, NEW call \in Call, DoneSend(i, call)
  PROVE  Follows(i, call)
<1> DEFINE n    == Len(requests)
           rest == Without(i)
           new  == Request(page, call)
           src  == [j \in 1..n |-> IF j = n THEN 0
                                   ELSE IF j < i THEN j ELSE j + 1]
<1>1. /\ requests \in Seq(Requested) /\ n \in Nat /\ InFlight = 1..n
      /\ i \in 1..n /\ n <= MaxRequests
  BY DEF RequestsOK, InFlight
<1>2. /\ rest \in Seq(Requested) /\ Len(rest) = n - 1
      /\ \A j \in 1..(n - 1) :
           rest[j] = IF j < i THEN requests[j] ELSE requests[j + 1]
  BY <1>1, Removed DEF Without, InFlight
<1>3. new \in Requested /\ new.call = call
  BY NewRequest
<1>4. requests' = Append(rest, new)
  BY DEF DoneSend
<1> HIDE DEF rest, new
<1>5. /\ requests' \in Seq(Requested) /\ Len(requests') = n
      /\ DOMAIN requests' = 1..n
      /\ \A j \in 1..(n - 1) : requests'[j] = rest[j]
      /\ requests'[n] = new
  BY <1>1, <1>2, <1>3, <1>4
<1>6. RequestsOK'
  BY <1>1, <1>5 DEF RequestsOK
<1>7. Comes(src, i, call)
  <2>1. src \in [DOMAIN requests' -> InFlight \union {0}]
    BY <1>1, <1>5
  <2>2. ASSUME NEW j \in DOMAIN requests'
        PROVE  IF src[j] = 0 THEN requests'[j].call = call
               ELSE src[j] # i /\ requests'[j].call = requests[src[j]].call
    <3>1. CASE j = n
      BY <1>1, <1>3, <1>5, <3>1
    <3>2. CASE j # n
      <4>1. j \in 1..(n - 1) /\ requests'[j] = rest[j]
        BY <1>1, <1>5, <2>2, <3>2
      <4>2. QED
        BY <1>1, <1>2, <4>1
    <3>3. QED
      BY <3>1, <3>2
  <2>3. ASSUME NEW j \in DOMAIN requests', NEW k \in DOMAIN requests',
               src[j] = src[k]
        PROVE  j = k
    BY <1>1, <1>5, <2>3
  <2>4. QED
    BY <2>1, <2>2, <2>3 DEF Comes
<1>8. QED
  BY <1>6, <1>7 DEF Follows

(* A token that ends changes no call.                                      *)
LEMMA EndedFollows ==
  ASSUME RequestsOK, TokenEnds
  PROVE  Follows(0, Nothing)
<1>1. /\ requests \in Seq(Requested) /\ InFlight = 1..Len(requests)
      /\ Len(requests) \in Nat /\ Len(requests) <= MaxRequests
  BY DEF RequestsOK, InFlight
<1>2. PICK taken \in SUBSET InFlight :
        requests' = [i \in InFlight |->
                       IF i \in taken \/ requests[i].token # "good"
                         THEN requests[i]
                         ELSE [requests[i] EXCEPT !.token = "ended"]]
  BY DEF TokenEnds, InFlight
<1>3. ASSUME NEW i \in InFlight
      PROVE  requests'[i] \in Requested /\ requests'[i].call = requests[i].call
  <2>1. requests[i] \in Requested
    BY RequestFields
  <2>2. requests'[i] \in {requests[i], [requests[i] EXCEPT !.token = "ended"]}
    BY <1>2
  <2>3. QED
    BY <2>1, <2>2 DEF Requested, Token
<1>4. DOMAIN requests' = InFlight
  BY <1>2
<1>5. requests' \in Seq(Requested) /\ Len(requests') = Len(requests)
  <2>1. requests' = [i \in 1..Len(requests) |-> requests'[i]]
    BY <1>1, <1>2
  <2>2. QED
    BY <1>1, <1>3, <2>1
<1>6. RequestsOK'
  BY <1>1, <1>5 DEF RequestsOK
<1> DEFINE src == [j \in InFlight |-> j]
<1>7. Comes(src, 0, Nothing)
  <2>1. \A j \in InFlight : j # 0
    BY RequestFields
  <2>2. QED
    BY <1>3, <1>4, <2>1 DEF Comes
<1>8. QED
  BY <1>6, <1>7 DEF Follows

(* A load of the dashboard: the requests of its kind are late from now on. *)
Outdates(op, call) ==
  /\ RequestsOK'
  /\ \A j \in DOMAIN requests' :
       \/ requests'[j].call = call
       \/ /\ j \in InFlight
          /\ OpOf(j) = op => requests'[j].call.op = op
                             /\ ~requests'[j].call.latest
          /\ OpOf(j) # op => requests'[j].call = requests[j].call

LEMMA OutdatedCall ==
  ASSUME NEW r \in Requested, r.call.op \in DashOps
  PROVE  /\ [r EXCEPT !.call.latest = FALSE] \in Requested
         /\ [r EXCEPT !.call.latest = FALSE].call.op = r.call.op
         /\ ~[r EXCEPT !.call.latest = FALSE].call.latest
<1> DEFINE late == [r.call EXCEPT !.latest = FALSE]
<1>1. r.call \in MetricsCall \union ExpiringCall
  BY DEF Requested, Call, ListCall, CreateCall, UpdateCall, RowCall, PlainCall,
         DashOps, Gone
<1>2. /\ late \in MetricsCall \union ExpiringCall
      /\ late.op = r.call.op /\ late.latest = FALSE
  BY <1>1 DEF MetricsCall, ExpiringCall
<1>3. late \in Call
  BY <1>2 DEF Call
<1>4. [r EXCEPT !.call.latest = FALSE] = [r EXCEPT !.call = late]
  OBVIOUS
<1> HIDE DEF late
<1>5. /\ [r EXCEPT !.call = late] \in Requested
      /\ [r EXCEPT !.call = late].call = late
  BY <1>2, <1>3 DEF Requested
<1>6. QED
  BY <1>2, <1>4, <1>5

LEMMA LoadOutdates ==
  ASSUME RequestsOK, token \in Token, page \in Page, MaxRequests \in Nat,
         NEW op \in DashOps, NEW call \in Call, NEW state,
         Load(op, call, state)
  PROVE  Outdates(op, call)
<1> DEFINE n   == Len(requests)
           old == Outdated(op)
           new == Request(page, call)
<1>1. /\ requests \in Seq(Requested) /\ n \in Nat /\ InFlight = 1..n
      /\ requests' = Append(old, new) /\ n + 1 <= MaxRequests
  BY DEF RequestsOK, Load, Room, InFlight
<1>2. new \in Requested /\ new.call = call
  BY NewRequest
<1>3. ASSUME NEW j \in InFlight
      PROVE  /\ old[j] \in Requested
             /\ OpOf(j) = op => old[j].call.op = op /\ ~old[j].call.latest
             /\ OpOf(j) # op => old[j].call = requests[j].call
  <2>1. requests[j] \in Requested
    BY RequestFields
  <2>2. old[j] = IF Waiting(j, op)
                   THEN [requests[j] EXCEPT !.call.latest = FALSE]
                   ELSE requests[j]
    BY DEF Outdated, InFlight
  <2>3. CASE OpOf(j) = op
    <3>1. Waiting(j, op)
      BY <2>1, <2>3 DEF Requested, Waiting, OpOf, DashOps, Gone
    <3>2. QED
      BY <2>1, <2>2, <2>3, <3>1, OutdatedCall DEF OpOf
  <2>4. CASE OpOf(j) # op
    BY <2>1, <2>2, <2>4 DEF Waiting, OpOf
  <2>5. QED
    BY <2>3, <2>4
<1>4. old \in Seq(Requested) /\ Len(old) = n
  <2>1. old = [j \in 1..n |-> old[j]]
    BY <1>1 DEF Outdated, InFlight
  <2> HIDE DEF old
  <2>2. QED
    BY <1>1, <1>3, <2>1
<1> HIDE DEF old, new
<1>5. /\ requests' \in Seq(Requested) /\ Len(requests') = n + 1
      /\ DOMAIN requests' = 1..(n + 1)
      /\ \A j \in 1..n : requests'[j] = old[j]
      /\ requests'[n + 1] = new
  BY <1>1, <1>2, <1>4
<1>6. RequestsOK'
  BY <1>1, <1>5 DEF RequestsOK
<1>7. ASSUME NEW j \in DOMAIN requests'
      PROVE  \/ requests'[j].call = call
             \/ /\ j \in InFlight
                /\ OpOf(j) = op => requests'[j].call.op = op
                                   /\ ~requests'[j].call.latest
                /\ OpOf(j) # op => requests'[j].call = requests[j].call
  <2>1. CASE j = n + 1
    BY <1>2, <1>5, <2>1
  <2>2. CASE j # n + 1
    <3>1. j \in InFlight /\ requests'[j] = old[j]
      BY <1>1, <1>5, <1>7, <2>2
    <3>2. QED
      BY <1>3, <3>1
  <2>3. QED
    BY <2>1, <2>2
<1>8. QED
  BY <1>6, <1>7 DEF Outdates

(* A navigation: what was under way is nobody's any more, and the page     *)
(* that opens makes its first calls.                                       *)
MountCall(p, call) ==
  \/ p = "dashboard" /\ call \in {Metrics({}), Expiring(DefaultFilter, 0)}
  \/ p = "records" /\ call = listEmployees

LEMMA ArrivalPage ==
  ASSUME going \in Page
  PROVE  Arrival(going) \in Page
BY DEF Arrival, Page

LEMMA TwoCalls ==
  ASSUME NEW S, NEW a \in S, NEW b \in S
  PROVE  <<a, b>> \in Seq(S) /\ \A k \in DOMAIN <<a, b>> : <<a, b>>[k] \in {a, b}
<1>1. DOMAIN <<a, b>> = 1..2
  OBVIOUS
<1>2. \A k \in 1..2 : <<a, b>>[k] \in {a, b}
  OBVIOUS
<1>3. QED
  BY <1>1, <1>2

LEMMA MountedCalls ==
  ASSUME NEW p \in Page
  PROVE  /\ Mounted(p) \in Seq(Call)
         /\ \A k \in DOMAIN Mounted(p) : MountCall(p, Mounted(p)[k])
<1>1. Metrics({}) \in Call
  BY DEF Metrics, MetricsCall, Call
<1>2. Expiring(DefaultFilter, 0) \in Call
  BY FrontendConstantsOK, DashboardConstantsOK DEF Expiring, ExpiringCall, Call
<1>3. listEmployees \in Call
  BY DEF listEmployees, PlainCall, Call
<1>4. CASE p = "dashboard"
  <2>1. Mounted(p) = <<Metrics({}), Expiring(DefaultFilter, 0)>>
    BY <1>4 DEF Mounted, DashCalls
  <2> DEFINE a == Metrics({})
             b == Expiring(DefaultFilter, 0)
  <2>2. \A call \in {a, b} : MountCall(p, call)
    BY <1>4 DEF MountCall
  <2> HIDE DEF a, b
  <2>3. QED
    BY <1>1, <1>2, <2>1, <2>2, TwoCalls DEF a, b
<1>5. CASE p = "records"
  <2>1. Mounted(p) = <<listEmployees>>
    BY <1>5 DEF Mounted, RecsCalls
  <2>2. QED
    BY <1>3, <1>5, <2>1 DEF MountCall
<1>6. CASE p = "login"
  <2>1. Mounted(p) = <<>>
    BY <1>6 DEF Mounted
  <2>2. QED
    BY <2>1
<1>7. QED
  BY <1>4, <1>5, <1>6 DEF Page

LEMMA OrphanedCalls ==
  ASSUME RequestsOK
  PROVE  /\ Orphaned \in Seq(Requested)
         /\ Len(Orphaned) = Len(requests)
         /\ \A i \in 1..Len(requests) : Orphaned[i].call.op = Gone
<1>1. /\ requests \in Seq(Requested) /\ InFlight = 1..Len(requests)
      /\ Len(requests) \in Nat
  BY DEF RequestsOK, InFlight
<1>2. ASSUME NEW i \in InFlight
      PROVE  Orphaned[i] \in Requested /\ Orphaned[i].call.op = Gone
  <2>1. requests[i] \in Requested
    BY RequestFields
  <2>2. Orphaned[i] = [requests[i] EXCEPT !.from = Gone, !.call = [op |-> Gone]]
    BY DEF Orphaned, InFlight
  <2> DEFINE nobodys == [op |-> Gone]
  <2>3. nobodys \in Call /\ nobodys.op = Gone
    BY DEF Call, PlainCall
  <2> HIDE DEF nobodys
  <2>4. Orphaned[i] = [requests[i] EXCEPT !.from = Gone, !.call = nobodys]
    BY <2>2 DEF nobodys
  <2>5. QED
    BY <2>1, <2>3, <2>4 DEF Requested
<1>3. Orphaned = [i \in 1..Len(requests) |-> Orphaned[i]]
  BY <1>1 DEF Orphaned, InFlight
<1>4. QED
  BY <1>1, <1>2, <1>3

LEMMA LeaveMounts ==
  ASSUME RequestsOK, token \in Token, going \in Page, MaxRequests \in Nat,
         Leave(Mounted(Arrival(going)))
  PROVE  /\ RequestsOK'
         /\ \A j \in DOMAIN requests' :
              \/ requests'[j].call.op = Gone
              \/ MountCall(page', requests'[j].call)
<1> DEFINE p     == Arrival(going)
           calls == Mounted(p)
           new   == [k \in DOMAIN calls |-> Request(p, calls[k])]
           n     == Len(requests)
           m     == Len(calls)
<1>1. p \in Page /\ page' = p
  BY ArrivalPage DEF Leave
<1>2. /\ calls \in Seq(Call) /\ m \in Nat /\ DOMAIN calls = 1..m
      /\ \A k \in DOMAIN calls : MountCall(p, calls[k])
  BY <1>1, MountedCalls
<1>3. n \in Nat /\ n + m <= MaxRequests
  BY DEF RequestsOK, Leave, Room
<1>4. requests' = Orphaned \o new
  BY DEF Leave
<1> HIDE DEF calls, p
<1>5. /\ new \in Seq(Requested) /\ Len(new) = m
      /\ \A k \in 1..m : new[k].call = calls[k]
  <2>1. \A k \in 1..m : new[k] \in Requested /\ new[k].call = calls[k]
    BY <1>1, <1>2, NewRequest
  <2>2. new = [k \in 1..m |-> new[k]]
    BY <1>2
  <2> HIDE DEF new
  <2>3. QED
    BY <1>2, <2>1, <2>2
<1> HIDE DEF new
<1>6. /\ requests' \in Seq(Requested) /\ Len(requests') = n + m
      /\ \A j \in 1..(n + m) :
           requests'[j] = IF j <= n THEN Orphaned[j] ELSE new[j - n]
  BY <1>4, <1>5, OrphanedCalls, Concatenated
<1>7. RequestsOK'
  BY <1>3, <1>6 DEF RequestsOK
<1>8. ASSUME NEW j \in DOMAIN requests'
      PROVE  \/ requests'[j].call.op = Gone
             \/ MountCall(page', requests'[j].call)
  <2>1. j \in 1..(n + m)
    BY <1>6
  <2>2. CASE j <= n
    BY <1>3, <1>6, <2>1, <2>2, OrphanedCalls
  <2>3. CASE ~(j <= n)
    <3>1. j - n \in 1..m
      BY <1>2, <1>3, <2>1, <2>3
    <3>2. requests'[j].call = calls[j - n]
      BY <1>5, <1>6, <2>1, <2>3, <3>1
    <3>3. QED
      BY <1>1, <1>2, <3>1, <3>2
  <2>4. QED
    BY <2>2, <2>3
<1>9. QED
  BY <1>7, <1>8

-----------------------------------------------------------------------------
(* The state of the records page.                                          *)

RecsState ==
  [rows : BOOLEAN, loading : BOOLEAN, listError : BOOLEAN,
   formOpen : BOOLEAN, formMode : {"create", "edit"},
   editing : Rows \union {NoRow}, origin : Rows \union {NoRow},
   formSubmitting : BOOLEAN,
   renewing : Rows \union {NoRow}, renewSubmitting : BOOLEAN,
   archiveTarget : Rows \union {NoRow}, archiveBusy : BOOLEAN]

FormFine(s) == s.formOpen => s.origin = s.editing

FormSame(s, t) ==
  t.formOpen = s.formOpen /\ t.origin = s.origin /\ t.editing = s.editing
ArchiveSame(s, t) ==
  t.archiveBusy = s.archiveBusy /\ t.archiveTarget = s.archiveTarget
RenewSame(s, t) == t.renewSubmitting = s.renewSubmitting

LEMMA FilledState ==
  ASSUME NEW s \in RecsState
  PROVE  /\ Filled(s) \in RecsState
         /\ FormFine(Filled(s))
         /\ ArchiveSame(s, Filled(s)) /\ RenewSame(s, Filled(s))
BY DEF Filled, RecsState, FormFine, ArchiveSame, RenewSame

LEMMA ClosedState ==
  ASSUME NEW s \in RecsState
  PROVE  /\ Closed(s) \in RecsState
         /\ FormFine(Closed(s))
         /\ ArchiveSame(s, Closed(s)) /\ RenewSame(s, Closed(s))
<1> DEFINE t == [s EXCEPT !.formOpen = FALSE, !.editing = NoRow]
<1>1. t \in RecsState /\ ArchiveSame(s, t) /\ RenewSame(s, t)
  BY DEF RecsState, ArchiveSame, RenewSame
<1>2. Closed(s) = Filled(t)
  BY DEF Closed
<1> HIDE DEF t
<1>3. QED
  BY <1>1, <1>2, FilledState DEF ArchiveSame, RenewSame

LEMMA LoadingState ==
  ASSUME NEW s \in RecsState
  PROVE  /\ Loading(s) \in RecsState
         /\ FormSame(s, Loading(s))
         /\ ArchiveSame(s, Loading(s)) /\ RenewSame(s, Loading(s))
BY DEF Loading, RecsState, FormSame, ArchiveSame, RenewSame

LEMMA ReleasedState ==
  ASSUME NEW s \in RecsState, NEW busy \in {"none", "form", "renew", "archive"}
  PROVE  /\ Released(s, busy) \in RecsState
         /\ FormSame(s, Released(s, busy))
         /\ Released(s, busy).archiveTarget = s.archiveTarget
         /\ busy # "archive" => ArchiveSame(s, Released(s, busy))
         /\ busy # "renew" => RenewSame(s, Released(s, busy))
<1>1. CASE busy = "none"
  <2>1. Released(s, busy) = s
    BY <1>1 DEF Released
  <2>2. QED
    BY <2>1 DEF FormSame, ArchiveSame, RenewSame
<1>2. CASE busy = "form"
  <2>1. Released(s, busy) = [s EXCEPT !.formSubmitting = FALSE]
    BY <1>2 DEF Released
  <2>2. QED
    BY <2>1 DEF RecsState, FormSame, ArchiveSame, RenewSame
<1>3. CASE busy = "renew"
  <2>1. Released(s, busy) = [s EXCEPT !.renewSubmitting = FALSE]
    BY <1>3 DEF Released
  <2>2. QED
    BY <1>3, <2>1 DEF RecsState, FormSame, ArchiveSame
<1>4. CASE busy = "archive"
  <2>1. Released(s, busy) = [s EXCEPT !.archiveBusy = FALSE]
    BY <1>4 DEF Released
  <2>2. QED
    BY <1>4, <2>1 DEF RecsState, FormSame, RenewSame
<1>5. QED
  BY <1>1, <1>2, <1>3, <1>4

-----------------------------------------------------------------------------
(* A step of the records page: what it takes out of the requests and adds  *)
(* to them agrees with what it makes of the buttons and forms.             *)

ArchiveSafe(lost, sent) ==
  /\ CallOf(sent, "archive") =>
       /\ recs'.archiveBusy
       /\ \A i \in InFlight : Under(i, "archive") => i = lost
       /\ sent.op = "archive" => recs'.archiveTarget = sent.id
  /\ \A i \in InFlight : i # lost =>
       /\ Under(i, "archive") => recs'.archiveBusy
       /\ OpOf(i) = "archive" => recs'.archiveTarget = requests[i].call.id

RenewSafe(lost, sent) ==
  /\ CallOf(sent, "renew") =>
       /\ recs'.renewSubmitting
       /\ \A i \in InFlight : Under(i, "renew") => i = lost
  /\ \A i \in InFlight : i # lost /\ Under(i, "renew") => recs'.renewSubmitting

RecsMove(lost, sent) ==
  /\ Follows(lost, sent)
  /\ sent.op \in RecsOps \union {Gone}
  /\ sent.op = "update" => sent.origin = sent.id
  /\ recs' \in RecsState
  /\ FormFine(recs)'
  /\ ArchiveSafe(lost, sent)
  /\ RenewSafe(lost, sent)
  /\ page = "records"
  /\ UNCHANGED sessionVars /\ UNCHANGED dash

RecsStep == \E lost, sent : RecsMove(lost, sent)

LEMMA ArchiveUntouched ==
  ASSUME FInv, NEW lost, NEW sent,
         ArchiveSame(recs, recs'), ~CallOf(sent, "archive")
  PROVE  ArchiveSafe(lost, sent)
BY DEF FInv, ArchiveInv, ArchiveSame, ArchiveSafe

LEMMA RenewUntouched ==
  ASSUME FInv, NEW lost, NEW sent,
         RenewSame(recs, recs'), ~CallOf(sent, "renew")
  PROVE  RenewSafe(lost, sent)
BY DEF FInv, RenewInv, RenewSame, RenewSafe

LEMMA FInvFacts ==
  ASSUME FInv
  PROVE  /\ RequestsOK /\ token \in Token /\ page \in Page
         /\ MaxRequests \in Nat
         /\ recs \in RecsState /\ FormFine(recs)
         /\ \A i \in InFlight : OpOf(i) \in RecsOps => page = "records"
         /\ \A i \in InFlight : OpOf(i) \in DashOps => page = "dashboard"
BY FrontendConstantsOK DEF FInv, TypeOK, SessionTypeOK, RecsTypeOK, RecsState,
   FormOwn, FormFine, Placed

(* The four shapes of the handlers.                                        *)
LEMMA KeepMoves ==
  ASSUME FInv, UNCHANGED dash, page = "records",
         NEW state \in RecsState, FormFine(state), Keep(state),
         ArchiveSafe(0, Nothing), RenewSafe(0, Nothing)
  PROVE  RecsStep
<1>1. Follows(0, Nothing)
  BY KeptFollows, FInvFacts DEF Keep
<1>2. recs' = state /\ UNCHANGED sessionVars
  BY DEF Keep, Become
<1>3. RecsMove(0, Nothing)
  BY <1>1, <1>2 DEF RecsMove, FormFine, Nothing, Gone
<1>4. QED
  BY <1>3 DEF RecsStep

LEMMA SendMoves ==
  ASSUME FInv, UNCHANGED dash, page = "records",
         NEW state \in RecsState, FormFine(state), Become(state),
         NEW call \in Call, Send(call), call.op \in RecsOps,
         call.op = "update" => call.origin = call.id,
         ArchiveSafe(0, call), RenewSafe(0, call)
  PROVE  RecsStep
<1>1. Follows(0, call)
  BY SentFollows, FInvFacts
<1>2. recs' = state /\ UNCHANGED sessionVars
  BY DEF Become
<1>3. RecsMove(0, call)
  BY <1>1, <1>2 DEF RecsMove, FormFine
<1>4. QED
  BY <1>3 DEF RecsStep

LEMMA FinishMoves ==
  ASSUME FInv, UNCHANGED dash, NEW i \in InFlight, OpOf(i) \in RecsOps,
         NEW state \in RecsState, FormFine(state), Finish(i, state),
         ArchiveSafe(i, Nothing), RenewSafe(i, Nothing)
  PROVE  RecsStep
<1>1. Follows(i, Nothing)
  BY DoneFollows, FInvFacts DEF Finish
<1>2. recs' = state /\ UNCHANGED sessionVars
  BY DEF Finish, Become
<1>3. page = "records"
  BY FInvFacts
<1>4. RecsMove(i, Nothing)
  BY <1>1, <1>2, <1>3 DEF RecsMove, FormFine, Nothing, Gone
<1>5. QED
  BY <1>4 DEF RecsStep

LEMMA ReloadMoves ==
  ASSUME FInv, UNCHANGED dash, NEW i \in InFlight, OpOf(i) \in RecsOps,
         NEW state \in RecsState, FormFine(state),
         NEW busy \in {"none", "form", "renew", "archive"},
         Reload(i, state, busy),
         ArchiveSafe(i, listComplianceRecords(busy)),
         RenewSafe(i, listComplianceRecords(busy))
  PROVE  RecsStep
<1> DEFINE call == listComplianceRecords(busy)
<1>1. call \in Call /\ call.op = "list"
  BY DEF listComplianceRecords, ListCall, Call
<1>2. DoneSend(i, call) /\ recs' = Loading(state) /\ UNCHANGED sessionVars
  BY DEF Reload, Become
<1>3. page = "records"
  BY FInvFacts
<1> HIDE DEF call
<1>4. Follows(i, call)
  BY <1>1, <1>2, DoneSentFollows, FInvFacts
<1>5. recs' \in RecsState /\ FormFine(recs)'
  BY <1>2, LoadingState DEF FormSame, FormFine
<1>6. RecsMove(i, call)
  BY <1>1, <1>2, <1>3, <1>4, <1>5 DEF RecsMove, RecsOps, call
<1>7. QED
  BY <1>6 DEF RecsStep

-----------------------------------------------------------------------------
(* What a step that follows keeps of the invariant.                        *)

LEMMA RequestsTyped ==
  ASSUME RequestsOK'
  PROVE  /\ Len(requests') <= MaxRequests
         /\ \A i \in DOMAIN requests' : /\ requests'[i].from \in Page \union {Gone}
                                        /\ requests'[i].token \in Token
<1>1. requests' \in Seq(Requested) /\ Len(requests') <= MaxRequests
  BY DEF RequestsOK
<1>2. \A i \in DOMAIN requests' : requests'[i] \in Requested
  BY <1>1
<1>3. QED
  BY <1>1, <1>2 DEF Requested

LEMMA FollowsPlaced ==
  ASSUME Placed, NEW lost, NEW sent, Follows(lost, sent), page' = page,
         sent.op = "login" => page = "login",
         sent.op \in DashOps => page = "dashboard",
         sent.op \in RecsOps => page = "records"
  PROVE  Placed'
<1>1. PICK src : Comes(src, lost, sent)
  BY DEF Follows
<1>2. ASSUME NEW j \in DOMAIN requests'
      PROVE  /\ requests'[j].call.op = "login" => page = "login"
             /\ requests'[j].call.op \in DashOps => page = "dashboard"
             /\ requests'[j].call.op \in RecsOps => page = "records"
  <2>1. CASE src[j] = 0
    BY <1>1, <2>1 DEF Comes
  <2>2. CASE src[j] # 0
    <3>1. src[j] \in InFlight /\ requests'[j].call = requests[src[j]].call
      BY <1>1, <2>2 DEF Comes
    <3>2. QED
      BY <3>1 DEF Placed, OpOf
  <2>3. QED
    BY <2>1, <2>2
<1>3. QED
  BY <1>2 DEF Placed, OpOf, InFlight

LEMMA FollowsAsked ==
  ASSUME Asked, NEW lost, NEW sent, Follows(lost, sent),
         sent.op \notin DashOps, dash'.ticked = dash.ticked,
         dash'.filter = dash.filter, dash'.offset = dash.offset
  PROVE  Asked'
<1>1. PICK src : Comes(src, lost, sent)
  BY DEF Follows
<1>2. ASSUME NEW j \in DOMAIN requests', requests'[j].call.op \in DashOps
      PROVE  \E i \in InFlight : requests'[j].call = requests[i].call
  <2>1. src[j] # 0
    BY <1>1, <1>2 DEF Comes
  <2>2. QED
    BY <1>1, <1>2, <2>1 DEF Comes
<1>3. QED
  BY <1>2 DEF Asked, OpOf, InFlight, DashOps

LEMMA FollowsUpdates ==
  ASSUME UpdateOwn, NEW lost, NEW sent, Follows(lost, sent),
         sent.op = "update" => sent.origin = sent.id
  PROVE  UpdateOwn'
<1>1. PICK src : Comes(src, lost, sent)
  BY DEF Follows
<1>2. ASSUME NEW j \in DOMAIN requests', requests'[j].call.op = "update"
      PROVE  requests'[j].call.origin = requests'[j].call.id
  <2>1. CASE src[j] = 0
    BY <1>1, <1>2, <2>1 DEF Comes
  <2>2. CASE src[j] # 0
    <3>1. src[j] \in DOMAIN requests /\ requests'[j].call = requests[src[j]].call
      BY <1>1, <2>2 DEF Comes, InFlight
    <3>2. QED
      BY <1>2, <3>1 DEF UpdateOwn
  <2>3. QED
    BY <2>1, <2>2
<1>3. QED
  BY <1>2 DEF UpdateOwn

(* A button that was pressed when nothing of it was under way, or whose    *)
(* request made room for the load that follows it, keeps one under way.    *)
LEMMA FollowsOneUnder ==
  ASSUME NEW lost, NEW sent, NEW button, Follows(lost, sent), OneUnder(button),
         CallOf(sent, button) =>
           \A i \in InFlight : Under(i, button) => i = lost
  PROVE  OneUnder(button)'
<1>1. PICK src : Comes(src, lost, sent)
  BY DEF Follows
<1>2. ASSUME NEW j \in DOMAIN requests', NEW k \in DOMAIN requests',
             CallOf(requests'[j].call, button),
             CallOf(requests'[k].call, button)
      PROVE  src[j] = src[k]
  <2>1. ASSUME NEW x \in DOMAIN requests', CallOf(requests'[x].call, button),
               src[x] # 0
        PROVE  src[x] \in InFlight /\ src[x] # lost /\ Under(src[x], button)
    BY <1>1, <2>1 DEF Comes, Under
  <2>2. ASSUME NEW x \in DOMAIN requests', CallOf(requests'[x].call, button),
               src[x] = 0
        PROVE  CallOf(sent, button)
    BY <1>1, <2>2 DEF Comes
  <2>3. CASE src[j] = 0 /\ src[k] = 0
    BY <2>3
  <2>4. CASE src[j] # 0 /\ src[k] # 0
    BY <1>2, <2>1, <2>4 DEF OneUnder
  <2>5. CASE (src[j] = 0 /\ src[k] # 0) \/ (src[j] # 0 /\ src[k] = 0)
    BY <1>2, <2>1, <2>2, <2>5
  <2>6. QED
    BY <2>3, <2>4, <2>5
<1>3. QED
  BY <1>1, <1>2 DEF OneUnder, Under, InFlight, Comes

LEMMA FollowsArchive ==
  ASSUME ArchiveInv, NEW lost, NEW sent, Follows(lost, sent),
         ArchiveSafe(lost, sent)
  PROVE  ArchiveInv'
<1>1. PICK src : Comes(src, lost, sent)
  BY DEF Follows
<1>2. OneUnder("archive")'
  BY FollowsOneUnder DEF ArchiveInv, ArchiveSafe
<1>3. ASSUME NEW j \in DOMAIN requests'
      PROVE  /\ CallOf(requests'[j].call, "archive") => recs'.archiveBusy
             /\ requests'[j].call.op = "archive" =>
                  recs'.archiveTarget = requests'[j].call.id
  <2>1. CASE src[j] = 0
    BY <1>1, <2>1 DEF Comes, ArchiveSafe, CallOf
  <2>2. CASE src[j] # 0
    <3>1. /\ src[j] \in InFlight /\ src[j] # lost
          /\ requests'[j].call = requests[src[j]].call
      BY <1>1, <2>2 DEF Comes
    <3>2. QED
      BY <3>1 DEF ArchiveSafe, Under, OpOf
  <2>3. QED
    BY <2>1, <2>2
<1>4. QED
  BY <1>2, <1>3 DEF ArchiveInv, Under, OpOf, InFlight

LEMMA FollowsRenew ==
  ASSUME RenewInv, NEW lost, NEW sent, Follows(lost, sent),
         RenewSafe(lost, sent)
  PROVE  RenewInv'
<1>1. PICK src : Comes(src, lost, sent)
  BY DEF Follows
<1>2. OneUnder("renew")'
  BY FollowsOneUnder DEF RenewInv, RenewSafe
<1>3. ASSUME NEW j \in DOMAIN requests', CallOf(requests'[j].call, "renew")
      PROVE  recs'.renewSubmitting
  <2>1. CASE src[j] = 0
    BY <1>1, <1>3, <2>1 DEF Comes, RenewSafe
  <2>2. CASE src[j] # 0
    <3>1. /\ src[j] \in InFlight /\ src[j] # lost
          /\ requests'[j].call = requests[src[j]].call
      BY <1>1, <2>2 DEF Comes
    <3>2. QED
      BY <1>3, <3>1 DEF RenewSafe, Under
  <2>3. QED
    BY <2>1, <2>2
<1>4. QED
  BY <1>2, <1>3 DEF RenewInv, Under, InFlight

(* Away from a page nothing of it is under way.                            *)
LEMMA AwayFromRecords ==
  ASSUME Placed', page' # "records"
  PROVE  UpdateOwn' /\ ArchiveInv' /\ RenewInv'
<1>1. \A j \in DOMAIN requests' : requests'[j].call.op \notin RecsOps
  BY DEF Placed, OpOf, InFlight
<1>2. \A j \in DOMAIN requests' : /\ ~CallOf(requests'[j].call, "archive")
                                  /\ ~CallOf(requests'[j].call, "renew")
  BY <1>1 DEF CallOf, RecsOps
<1>3. QED
  BY <1>1, <1>2 DEF UpdateOwn, ArchiveInv, RenewInv, OneUnder, Under, OpOf,
                    InFlight, RecsOps

LEMMA AwayFromDashboard ==
  ASSUME Placed', page' # "dashboard"
  PROVE  Asked' /\ ShowsLatest'
BY DEF Placed, Asked, ShowsLatest, OpOf, InFlight, DashOps

LEMMA RecsStepNext ==
  ASSUME FInv, RecsStep
  PROVE  FInv'
<1>1. PICK lost, sent : RecsMove(lost, sent)
  BY DEF RecsStep
<1>2. /\ Follows(lost, sent) /\ RequestsOK' /\ page = "records"
      /\ page' = page /\ token' = token /\ going' = going
      /\ signingIn' = signingIn /\ dash' = dash
      /\ recs' \in RecsState /\ FormFine(recs)'
      /\ ArchiveSafe(lost, sent) /\ RenewSafe(lost, sent)
      /\ sent.op \in RecsOps \union {Gone}
      /\ sent.op = "update" => sent.origin = sent.id
  BY <1>1 DEF RecsMove, Follows, sessionVars
<1>3. TypeOK'
  BY <1>2, RequestsTyped DEF FInv, TypeOK, SessionTypeOK, DashTypeOK,
     RecsTypeOK, RecsState
<1>4. Placed'
  BY <1>2, FollowsPlaced DEF FInv, RecsOps, DashOps, Gone
<1>5. Asked' /\ ShowsLatest'
  BY <1>2, <1>4, AwayFromDashboard
<1>6. FormOwn'
  BY <1>2 DEF FormOwn, FormFine
<1>7. UpdateOwn' /\ ArchiveInv' /\ RenewInv'
  BY <1>2, FollowsUpdates, FollowsArchive, FollowsRenew DEF FInv
<1>8. QED
  BY <1>2, <1>3, <1>4, <1>5, <1>6, <1>7 DEF FInv

-----------------------------------------------------------------------------
(* What the user does on the records page.                                 *)

(* Nothing that is sent or kept names a button but the button's own call   *)
(* and the load after it.                                                  *)
LEMMA CallsOfNone ==
  /\ ~CallOf(Nothing, "archive") /\ ~CallOf(Nothing, "renew")
  /\ \A busy : CallOf(listComplianceRecords(busy), "archive")
                 <=> busy = "archive"
  /\ \A busy : CallOf(listComplianceRecords(busy), "renew") <=> busy = "renew"
BY DEF CallOf, Nothing, Gone, listComplianceRecords

LEMMA Untouched ==
  ASSUME FInv, NEW lost, NEW sent,
         ArchiveSame(recs, recs'), RenewSame(recs, recs'),
         ~CallOf(sent, "archive"), ~CallOf(sent, "renew")
  PROVE  ArchiveSafe(lost, sent) /\ RenewSafe(lost, sent)
BY ArchiveUntouched, RenewUntouched

LEMMA LoadStep ==
  ASSUME FInv, UNCHANGED dash, LoadRecords(recs)
  PROVE  RecsStep
<1> DEFINE call == listComplianceRecords("none")
<1>1. call \in Call /\ call.op = "list"
  BY DEF listComplianceRecords, ListCall, Call
<1>2. /\ page = "records" /\ Send(call) /\ Become(Loading(recs))
      /\ recs' = Loading(recs)
  BY DEF LoadRecords, Become
<1>3. /\ Loading(recs) \in RecsState /\ FormFine(Loading(recs))
      /\ ArchiveSame(recs, recs') /\ RenewSame(recs, recs')
  BY <1>2, LoadingState, FInvFacts DEF FormSame, FormFine
<1>4. ArchiveSafe(0, call) /\ RenewSafe(0, call)
  BY <1>3, Untouched, CallsOfNone
<1> HIDE DEF call
<1>5. QED
  BY <1>1, <1>2, <1>3, <1>4, SendMoves DEF RecsOps

(* Steps that only open or close a form.                                   *)
LEMMA FormStep ==
  ASSUME FInv, UNCHANGED dash, openCreateForm \/ closeForm
  PROVE  RecsStep
<1>1. recs \in RecsState
  BY FInvFacts
<1>2. PICK state \in RecsState : /\ FormFine(state) /\ Keep(state)
                                 /\ ArchiveSame(recs, state)
                                 /\ RenewSame(recs, state)
  <2>1. CASE openCreateForm
    <3> DEFINE open == [recs EXCEPT !.formMode = "create", !.editing = NoRow,
                                    !.formOpen = TRUE]
    <3>1. /\ open \in RecsState /\ ArchiveSame(recs, open)
          /\ RenewSame(recs, open)
      BY <1>1 DEF RecsState, ArchiveSame, RenewSame
    <3>2. Keep(Filled(open))
      BY <2>1 DEF openCreateForm
    <3> HIDE DEF open
    <3>3. QED
      BY <3>1, <3>2, FilledState DEF ArchiveSame, RenewSame
  <2>2. CASE closeForm
    BY <1>1, <2>2, ClosedState DEF closeForm
  <2>3. QED
    BY <2>1, <2>2
<1>3. page = "records"
  BY DEF openCreateForm, closeForm, Uncovered
<1>4. recs' = state
  BY <1>2 DEF Keep, Become
<1>5. ArchiveSafe(0, Nothing) /\ RenewSafe(0, Nothing)
  BY <1>2, <1>4, Untouched, CallsOfNone
<1>6. QED
  BY <1>2, <1>3, <1>5, KeepMoves

LEMMA EditStep ==
  ASSUME FInv, UNCHANGED dash, NEW id \in Rows, openEditForm(id)
  PROVE  RecsStep
<1> DEFINE open == [recs EXCEPT !.formMode = "edit", !.formOpen = TRUE,
                                !.formSubmitting = TRUE]
           call == getComplianceRecord(id)
<1>1. recs \in RecsState
  BY FInvFacts
<1>2. open \in RecsState /\ ArchiveSame(recs, open) /\ RenewSame(recs, open)
  BY <1>1 DEF RecsState, ArchiveSame, RenewSame
<1>3. call \in Call /\ call.op = "get"
  BY DEF getComplianceRecord, RowCall, Call
<1>4. page = "records" /\ Send(call) /\ Become(Filled(open))
  BY DEF openEditForm, RowAction, Uncovered
<1> HIDE DEF open, call
<1>5. /\ Filled(open) \in RecsState /\ FormFine(Filled(open))
      /\ ArchiveSame(recs, Filled(open)) /\ RenewSame(recs, Filled(open))
  BY <1>2, FilledState DEF ArchiveSame, RenewSame
<1>6. ArchiveSafe(0, call) /\ RenewSafe(0, call)
  BY <1>3, <1>4, <1>5, Untouched DEF Become, CallOf
<1>7. QED
  BY <1>3, <1>4, <1>5, <1>6, SendMoves DEF RecsOps

(* A form that is submitted sends what it was filled with.                 *)
LEMMA SubmitStep ==
  ASSUME FInv, UNCHANGED dash, submitForm
  PROVE  RecsStep
<1> DEFINE busy == [recs EXCEPT !.formSubmitting = TRUE]
<1>1. recs \in RecsState /\ FormFine(recs)
  BY FInvFacts
<1>2. /\ busy \in RecsState /\ FormSame(recs, busy)
      /\ ArchiveSame(recs, busy) /\ RenewSame(recs, busy)
  BY <1>1 DEF RecsState, FormSame, ArchiveSame, RenewSame
<1>3. page = "records" /\ recs.formOpen
  BY DEF submitForm, FormSubmits
<1>4. \/ /\ Send(createComplianceRecord(recs.origin))
         /\ Become(busy)
      \/ /\ recs.editing # NoRow
         /\ Send(updateComplianceRecord(recs.editing, recs.origin))
         /\ Become(busy)
      \/ /\ Send(listComplianceRecords("form"))
         /\ Become(Loading(Closed(busy)))
  BY DEF submitForm
<1> HIDE DEF busy
<1>5. FormFine(busy)
  BY <1>1, <1>2 DEF FormSame, FormFine
<1>6. CASE Send(createComplianceRecord(recs.origin)) /\ Become(busy)
  <2> DEFINE call == createComplianceRecord(recs.origin)
  <2>1. call \in Call /\ call.op = "create"
    BY <1>1 DEF createComplianceRecord, CreateCall, Call, RecsState
  <2> HIDE DEF call
  <2>2. ArchiveSafe(0, call) /\ RenewSafe(0, call)
    BY <1>2, <1>6, <2>1, Untouched DEF Become, CallOf
  <2>3. QED
    BY <1>2, <1>3, <1>5, <1>6, <2>1, <2>2, SendMoves DEF RecsOps, call
<1>7. CASE /\ recs.editing # NoRow
           /\ Send(updateComplianceRecord(recs.editing, recs.origin))
           /\ Become(busy)
  <2> DEFINE call == updateComplianceRecord(recs.editing, recs.origin)
  <2>1. /\ call \in Call /\ call.op = "update"
        /\ call.origin = recs.origin /\ call.id = recs.editing
    <3>1. recs.editing \in Rows /\ recs.origin \in Rows \union {NoRow}
      BY <1>1, <1>7 DEF RecsState
    <3>2. QED
      BY <3>1 DEF updateComplianceRecord, UpdateCall, Call
  <2>2. call.origin = call.id
    BY <1>1, <1>3, <2>1 DEF FormFine
  <2>3. Send(call)
    BY <1>7
  <2> HIDE DEF call
  <2>4. ArchiveSafe(0, call) /\ RenewSafe(0, call)
    BY <1>2, <1>7, <2>1, Untouched DEF Become, CallOf
  <2>5. QED
    BY <1>2, <1>3, <1>5, <1>7, <2>1, <2>2, <2>3, <2>4, SendMoves DEF RecsOps
<1>8. CASE /\ Send(listComplianceRecords("form"))
           /\ Become(Loading(Closed(busy)))
  <2> DEFINE call == listComplianceRecords("form")
             state == Loading(Closed(busy))
  <2>1. call \in Call /\ call.op = "list"
    BY DEF listComplianceRecords, ListCall, Call
  <2>2. /\ state \in RecsState /\ FormFine(state)
        /\ ArchiveSame(recs, state) /\ RenewSame(recs, state)
    BY <1>2, ClosedState, LoadingState
       DEF FormSame, FormFine, ArchiveSame, RenewSame
  <2>3. Send(call) /\ Become(state)
    BY <1>8
  <2>4. ~CallOf(call, "archive") /\ ~CallOf(call, "renew")
    BY CallsOfNone
  <2> HIDE DEF call, state
  <2>5. ArchiveSafe(0, call) /\ RenewSafe(0, call)
    BY <2>2, <2>3, <2>4, Untouched DEF Become
  <2>6. QED
    BY <1>3, <2>1, <2>2, <2>3, <2>5, SendMoves DEF RecsOps
<1>9. QED
  BY <1>4, <1>6, <1>7, <1>8

(* The renewal form opens and closes as it likes; it is submitted only     *)
(* when no renewal is under way.                                           *)
LEMMA RenewFormStep ==
  ASSUME FInv, UNCHANGED dash,
         closeRenewForm \/ \E id \in Rows : openRenewForm(id)
  PROVE  RecsStep
<1>1. PICK id \in Rows \union {NoRow} : Keep([recs EXCEPT !.renewing = id])
  BY DEF closeRenewForm, openRenewForm
<1> DEFINE state == [recs EXCEPT !.renewing = id]
<1>2. recs \in RecsState /\ FormFine(recs)
  BY FInvFacts
<1>3. /\ state \in RecsState /\ FormFine(state)
      /\ ArchiveSame(recs, state) /\ RenewSame(recs, state)
  BY <1>2 DEF RecsState, FormFine, ArchiveSame, RenewSame
<1>4. page = "records"
  BY DEF closeRenewForm, openRenewForm, RowAction, Uncovered
<1>5. Keep(state)
  BY <1>1
<1> HIDE DEF state
<1>6. ArchiveSafe(0, Nothing) /\ RenewSafe(0, Nothing)
  BY <1>3, <1>5, Untouched, CallsOfNone DEF Keep, Become
<1>7. QED
  BY <1>3, <1>4, <1>5, <1>6, KeepMoves

LEMMA SubmitRenewStep ==
  ASSUME FInv, UNCHANGED dash, submitRenew
  PROVE  RecsStep
<1> DEFINE state == [recs EXCEPT !.renewSubmitting = TRUE]
           call == renewComplianceRecord(recs.renewing)
<1>1. recs \in RecsState /\ FormFine(recs)
  BY FInvFacts
<1>2. /\ state \in RecsState /\ FormFine(state) /\ ArchiveSame(recs, state)
      /\ state.renewSubmitting = TRUE
  BY <1>1 DEF RecsState, FormFine, ArchiveSame
<1>3. /\ page = "records" /\ ~recs.renewSubmitting /\ recs.renewing # NoRow
      /\ Send(call) /\ Become(state)
  BY DEF submitRenew, RenewSubmits
<1>4. call \in Call /\ call.op = "renew"
  BY <1>1, <1>3 DEF RecsState, renewComplianceRecord, RowCall, Call
<1> HIDE DEF state, call
<1>5. recs' = state
  BY <1>3 DEF Become
<1>6. RenewSafe(0, call)
  BY <1>2, <1>3, <1>5 DEF RenewSafe, FInv, RenewInv
<1>7. ArchiveSafe(0, call)
  BY <1>2, <1>4, <1>5, ArchiveUntouched DEF CallOf
<1>8. QED
  BY <1>2, <1>3, <1>4, <1>6, <1>7, SendMoves DEF RecsOps

(* The archive dialog opens over a page where none is open, and cannot be  *)
(* closed while its request is under way.                                  *)
LEMMA DialogStep ==
  ASSUME FInv, UNCHANGED dash,
         closeArchiveDialog \/ \E id \in Rows : openArchiveDialog(id)
  PROVE  RecsStep
<1>1. PICK id \in Rows \union {NoRow} :
        Keep([recs EXCEPT !.archiveTarget = id])
  BY DEF closeArchiveDialog, openArchiveDialog
<1> DEFINE state == [recs EXCEPT !.archiveTarget = id]
<1>2. recs \in RecsState /\ FormFine(recs)
  BY FInvFacts
<1>3. /\ state \in RecsState /\ FormFine(state) /\ RenewSame(recs, state)
      /\ state.archiveBusy = recs.archiveBusy
  BY <1>2 DEF RecsState, FormFine, RenewSame
<1>4. page = "records"
  BY DEF closeArchiveDialog, DialogReady, openArchiveDialog, RowAction,
         Uncovered
<1>5. Keep(state) /\ recs' = state
  BY <1>1 DEF Keep, Become
<1> HIDE DEF state
<1>6. \A i \in InFlight : OpOf(i) # "archive"
  <2>1. CASE closeArchiveDialog
    BY <2>1 DEF closeArchiveDialog, DialogReady, FInv, ArchiveInv, Under,
                CallOf, OpOf
  <2>2. CASE \E x \in Rows : openArchiveDialog(x)
    <3>1. recs.archiveTarget = NoRow
      BY <2>2 DEF openArchiveDialog, RowAction, Uncovered
    <3>2. ASSUME NEW i \in InFlight, OpOf(i) = "archive"
          PROVE  requests[i].call.id \in Rows
      <4>1. requests[i].call \in Call
        BY RequestFields, FInvFacts
      <4>2. QED
        BY <3>2, <4>1 DEF OpOf, Call, MetricsCall, ExpiringCall, ListCall,
           CreateCall, UpdateCall, RowCall, PlainCall, Gone
    <3>3. QED
      BY <3>1, <3>2, RecordsConstantsOK DEF FInv, ArchiveInv
  <2>3. QED
    BY <2>1, <2>2
<1>7. ArchiveSafe(0, Nothing)
  BY <1>3, <1>5, <1>6, CallsOfNone DEF ArchiveSafe, FInv, ArchiveInv
<1>8. RenewSafe(0, Nothing)
  BY <1>3, <1>5, RenewUntouched, CallsOfNone
<1>9. QED
  BY <1>3, <1>4, <1>5, <1>7, <1>8, KeepMoves

LEMMA ConfirmStep ==
  ASSUME FInv, UNCHANGED dash, confirmArchive
  PROVE  RecsStep
<1> DEFINE state == [recs EXCEPT !.archiveBusy = TRUE, !.listError = FALSE]
           call == archiveComplianceRecord(recs.archiveTarget)
<1>1. recs \in RecsState /\ FormFine(recs)
  BY FInvFacts
<1>2. /\ state \in RecsState /\ FormFine(state) /\ RenewSame(recs, state)
      /\ state.archiveBusy = TRUE
      /\ state.archiveTarget = recs.archiveTarget
  BY <1>1 DEF RecsState, FormFine, RenewSame
<1>3. /\ page = "records" /\ ~recs.archiveBusy /\ recs.archiveTarget # NoRow
      /\ Send(call) /\ Become(state)
  BY DEF confirmArchive, DialogReady
<1>4. call \in Call /\ call.op = "archive" /\ call.id = recs.archiveTarget
  BY <1>1, <1>3 DEF RecsState, archiveComplianceRecord, RowCall, Call
<1> HIDE DEF state, call
<1>5. recs' = state
  BY <1>3 DEF Become
<1>6. ArchiveSafe(0, call)
  BY <1>2, <1>3, <1>4, <1>5 DEF ArchiveSafe, FInv, ArchiveInv
<1>7. RenewSafe(0, call)
  BY <1>2, <1>4, <1>5, RenewUntouched DEF CallOf
<1>8. QED
  BY <1>2, <1>3, <1>4, <1>6, <1>7, SendMoves DEF RecsOps

LEMMA RecsUserStep ==
  ASSUME FInv, RecsUser
  PROVE  RecsStep
<1>1. UNCHANGED dash
  BY DEF RecsUser
<1>2. CASE handleListFilterChange \/ handleListPageChange \/ retryList
  BY <1>1, <1>2, LoadStep DEF handleListFilterChange, handleListPageChange,
                              retryList
<1>3. CASE openCreateForm \/ closeForm \/ submitForm
  BY <1>1, <1>3, FormStep, SubmitStep
<1>4. CASE \E id \in Rows : openEditForm(id)
  BY <1>1, <1>4, EditStep
<1>5. CASE closeRenewForm \/ submitRenew \/ \E id \in Rows : openRenewForm(id)
  BY <1>1, <1>5, RenewFormStep, SubmitRenewStep
<1>6. CASE \/ closeArchiveDialog \/ confirmArchive
           \/ \E id \in Rows : openArchiveDialog(id)
  BY <1>1, <1>6, DialogStep, ConfirmStep
<1>7. QED
  BY <1>2, <1>3, <1>4, <1>5, <1>6 DEF RecsUser

-----------------------------------------------------------------------------
(* What the records page makes of an answer.                               *)

LEMMA EmployeesStep ==
  ASSUME FInv, UNCHANGED dash, NEW i \in InFlight,
         employeesLoaded(i) \/ employeesFailed(i)
  PROVE  RecsStep
<1>1. recs \in RecsState /\ FormFine(recs)
  BY FInvFacts
<1>2. OpOf(i) = "employees"
  BY DEF employeesLoaded, employeesFailed, Answered, Failed, Waiting, OpOf
<1>3. CASE employeesLoaded(i)
  <2>1. Reload(i, recs, "none") /\ recs' = Loading(recs)
    BY <1>3 DEF employeesLoaded, Reload, Become
  <2>2. ArchiveSame(recs, recs') /\ RenewSame(recs, recs')
    BY <1>1, <2>1, LoadingState
  <2>3. /\ ArchiveSafe(i, listComplianceRecords("none"))
        /\ RenewSafe(i, listComplianceRecords("none"))
    BY <2>2, Untouched, CallsOfNone
  <2>4. QED
    BY <1>1, <1>2, <2>1, <2>3, ReloadMoves DEF RecsOps
<1>4. CASE employeesFailed(i)
  <2> DEFINE state == [recs EXCEPT !.listError = TRUE, !.loading = FALSE]
  <2>1. /\ state \in RecsState /\ FormFine(state)
        /\ ArchiveSame(recs, state) /\ RenewSame(recs, state)
    BY <1>1 DEF RecsState, FormFine, ArchiveSame, RenewSame
  <2>2. Finish(i, state) /\ recs' = state
    BY <1>4 DEF employeesFailed, Finish, Become
  <2> HIDE DEF state
  <2>3. ArchiveSafe(i, Nothing) /\ RenewSafe(i, Nothing)
    BY <2>1, <2>2, Untouched, CallsOfNone
  <2>4. QED
    BY <1>2, <2>1, <2>2, <2>3, FinishMoves DEF RecsOps
<1>5. QED
  BY <1>3, <1>4

(* A list that was loaded at the end of a handler releases its button: by  *)
(* then nothing else of that button is under way.                          *)
LEMMA ListStep ==
  ASSUME FInv, UNCHANGED dash, NEW i \in InFlight, listLoaded(i) \/ listFailed(i)
  PROVE  RecsStep
<1> DEFINE busy == requests[i].call.busy
<1>1. recs \in RecsState /\ FormFine(recs)
  BY FInvFacts
<1>2. OpOf(i) = "list"
  BY DEF listLoaded, listFailed, Answered, Failed, Waiting, OpOf
<1>3. busy \in {"none", "form", "renew", "archive"}
  <2>1. requests[i].call \in Call
    BY RequestFields, FInvFacts
  <2>2. QED
    BY <1>2, <2>1 DEF OpOf, Call, MetricsCall, ExpiringCall, ListCall,
       CreateCall, UpdateCall, RowCall, PlainCall, Gone
<1>4. PICK state \in RecsState :
        /\ FormSame(recs, state)
        /\ ArchiveSame(recs, state) /\ RenewSame(recs, state)
        /\ Finish(i, Released(state, busy))
  <2> DEFINE loaded == [recs EXCEPT !.rows = TRUE, !.loading = FALSE]
             failed == [recs EXCEPT !.listError = TRUE, !.loading = FALSE]
  <2>1. /\ loaded \in RecsState /\ FormSame(recs, loaded)
        /\ ArchiveSame(recs, loaded) /\ RenewSame(recs, loaded)
    BY <1>1 DEF RecsState, FormSame, ArchiveSame, RenewSame
  <2>2. /\ failed \in RecsState /\ FormSame(recs, failed)
        /\ ArchiveSame(recs, failed) /\ RenewSame(recs, failed)
    BY <1>1 DEF RecsState, FormSame, ArchiveSame, RenewSame
  <2>3. Finish(i, Released(loaded, busy)) \/ Finish(i, Released(failed, busy))
    BY DEF listLoaded, listFailed
  <2> HIDE DEF loaded, failed
  <2>4. QED
    BY <2>1, <2>2, <2>3
<1> DEFINE next == Released(state, busy)
<1>5. /\ next \in RecsState /\ FormFine(next)
      /\ next.archiveTarget = recs.archiveTarget
      /\ busy # "archive" => ArchiveSame(recs, next)
      /\ busy # "renew" => RenewSame(recs, next)
  BY <1>1, <1>3, <1>4, ReleasedState
     DEF FormSame, FormFine, ArchiveSame, RenewSame
<1>6. Finish(i, next) /\ recs' = next
  BY <1>4 DEF Finish, Become
<1>7. /\ busy = "archive" => Under(i, "archive")
      /\ busy = "renew" => Under(i, "renew")
  BY <1>2 DEF Under, CallOf, OpOf
<1> HIDE DEF next, busy
<1>8. ArchiveSafe(i, Nothing)
  <2>1. CASE busy = "archive"
    <3>1. \A j \in InFlight : Under(j, "archive") => j = i
      BY <1>7, <2>1 DEF FInv, ArchiveInv, OneUnder
    <3>2. \A j \in InFlight : OpOf(j) = "archive" => Under(j, "archive")
      BY DEF OpOf, Under, CallOf
    <3>3. QED
      BY <3>1, <3>2, CallsOfNone DEF ArchiveSafe
  <2>2. CASE busy # "archive"
    BY <1>5, <1>6, <2>2, ArchiveUntouched, CallsOfNone
  <2>3. QED
    BY <2>1, <2>2
<1>9. RenewSafe(i, Nothing)
  <2>1. CASE busy = "renew"
    BY <1>7, <2>1, CallsOfNone DEF FInv, RenewInv, OneUnder, RenewSafe
  <2>2. CASE busy # "renew"
    BY <1>5, <1>6, <2>2, RenewUntouched, CallsOfNone
  <2>3. QED
    BY <2>1, <2>2
<1>10. QED
  BY <1>2, <1>5, <1>6, <1>8, <1>9, FinishMoves DEF RecsOps

LEMMA EditAnswerStep ==
  ASSUME FInv, UNCHANGED dash, NEW i \in InFlight, editLoaded(i) \/ editFailed(i)
  PROVE  RecsStep
<1>1. recs \in RecsState
  BY FInvFacts
<1>2. OpOf(i) = "get"
  BY DEF editLoaded, editFailed, Answered, Failed, Waiting, OpOf
<1>3. requests[i].call.id \in Rows
  <2>1. requests[i].call \in Call
    BY RequestFields, FInvFacts
  <2>2. QED
    BY <1>2, <2>1 DEF OpOf, Call, MetricsCall, ExpiringCall, ListCall,
       CreateCall, UpdateCall, RowCall, PlainCall, Gone
<1>4. PICK state \in RecsState :
        /\ ArchiveSame(recs, state) /\ RenewSame(recs, state)
        /\ Finish(i, Filled(state))
  <2> DEFINE loaded == [recs EXCEPT !.editing = requests[i].call.id,
                                    !.formSubmitting = FALSE]
             failed == [recs EXCEPT !.formOpen = FALSE, !.listError = TRUE,
                                    !.formSubmitting = FALSE]
  <2>1. /\ loaded \in RecsState
        /\ ArchiveSame(recs, loaded) /\ RenewSame(recs, loaded)
    BY <1>1, <1>3 DEF RecsState, ArchiveSame, RenewSame
  <2>2. /\ failed \in RecsState
        /\ ArchiveSame(recs, failed) /\ RenewSame(recs, failed)
    BY <1>1 DEF RecsState, ArchiveSame, RenewSame
  <2>3. Finish(i, Filled(loaded)) \/ Finish(i, Filled(failed))
    BY DEF editLoaded, editFailed
  <2> HIDE DEF loaded, failed
  <2>4. QED
    BY <2>1, <2>2, <2>3
<1> DEFINE next == Filled(state)
<1>5. /\ next \in RecsState /\ FormFine(next)
      /\ ArchiveSame(recs, next) /\ RenewSame(recs, next)
  BY <1>4, FilledState DEF ArchiveSame, RenewSame
<1>6. Finish(i, next) /\ recs' = next
  BY <1>4 DEF Finish, Become
<1> HIDE DEF next
<1>7. ArchiveSafe(i, Nothing) /\ RenewSafe(i, Nothing)
  BY <1>5, <1>6, Untouched, CallsOfNone
<1>8. QED
  BY <1>2, <1>5, <1>6, <1>7, FinishMoves DEF RecsOps

LEMMA SaveAnswerStep ==
  ASSUME FInv, UNCHANGED dash, NEW i \in InFlight,
         created(i) \/ updated(i) \/ saveFailed(i)
  PROVE  RecsStep
<1> DEFINE ready == [recs EXCEPT !.formSubmitting = FALSE]
<1>1. recs \in RecsState /\ FormFine(recs)
  BY FInvFacts
<1>2. OpOf(i) \in {"create", "update"}
  BY DEF created, updated, saveFailed, Answered, Failed, Waiting, OpOf
<1>3. /\ ready \in RecsState /\ FormFine(ready)
      /\ ArchiveSame(recs, ready) /\ RenewSame(recs, ready)
  BY <1>1 DEF RecsState, FormFine, ArchiveSame, RenewSame
<1>4. Reload(i, Closed(recs), "form") \/ Finish(i, ready)
  BY DEF created, updated, saveFailed
<1> HIDE DEF ready
<1>5. CASE Reload(i, Closed(recs), "form")
  <2>1. /\ Closed(recs) \in RecsState /\ FormFine(Closed(recs))
        /\ ArchiveSame(recs, Closed(recs)) /\ RenewSame(recs, Closed(recs))
    BY <1>1, ClosedState
  <2>2. recs' = Loading(Closed(recs))
    BY <1>5 DEF Reload, Become
  <2>3. ArchiveSame(recs, recs') /\ RenewSame(recs, recs')
    BY <2>1, <2>2, LoadingState DEF ArchiveSame, RenewSame
  <2>4. /\ ArchiveSafe(i, listComplianceRecords("form"))
        /\ RenewSafe(i, listComplianceRecords("form"))
    BY <2>3, Untouched, CallsOfNone
  <2>5. QED
    BY <1>2, <1>5, <2>1, <2>4, ReloadMoves DEF RecsOps
<1>6. CASE Finish(i, ready)
  <2>1. recs' = ready
    BY <1>6 DEF Finish, Become
  <2>2. ArchiveSafe(i, Nothing) /\ RenewSafe(i, Nothing)
    BY <1>3, <2>1, Untouched, CallsOfNone
  <2>3. QED
    BY <1>2, <1>3, <1>6, <2>2, FinishMoves DEF RecsOps
<1>7. QED
  BY <1>4, <1>5, <1>6

(* The renewal under way is the only one, so the button that its answer    *)
(* releases, or hands on to the load after it, is its own.                 *)
LEMMA RenewAnswerStep ==
  ASSUME FInv, UNCHANGED dash, NEW i \in InFlight, renewed(i) \/ renewFailed(i)
  PROVE  RecsStep
<1> DEFINE ready  == [recs EXCEPT !.renewSubmitting = FALSE]
           closed == [recs EXCEPT !.renewing = NoRow]
<1>1. recs \in RecsState /\ FormFine(recs)
  BY FInvFacts
<1>2. OpOf(i) = "renew"
  BY DEF renewed, renewFailed, Answered, Failed, Waiting, OpOf
<1>3. /\ Under(i, "renew") /\ recs.renewSubmitting
      /\ \A j \in InFlight : Under(j, "renew") => j = i
  BY <1>2 DEF FInv, RenewInv, OneUnder, Under, CallOf, OpOf
<1>4. /\ ready \in RecsState /\ FormFine(ready) /\ ArchiveSame(recs, ready)
      /\ closed \in RecsState /\ FormFine(closed) /\ ArchiveSame(recs, closed)
      /\ RenewSame(recs, closed)
  BY <1>1 DEF RecsState, FormFine, ArchiveSame, RenewSame
<1>5. Reload(i, closed, "renew") \/ Finish(i, ready)
  BY DEF renewed, renewFailed
<1> HIDE DEF ready, closed
<1>6. CASE Reload(i, closed, "renew")
  <2>1. recs' = Loading(closed)
    BY <1>6 DEF Reload, Become
  <2>2. ArchiveSame(recs, recs') /\ RenewSame(recs, recs')
    BY <1>4, <2>1, LoadingState DEF ArchiveSame, RenewSame
  <2>3. ArchiveSafe(i, listComplianceRecords("renew"))
    BY <2>2, ArchiveUntouched, CallsOfNone
  <2>4. RenewSafe(i, listComplianceRecords("renew"))
    BY <1>3, <2>2 DEF RenewSafe, RenewSame
  <2>5. QED
    BY <1>2, <1>4, <1>6, <2>3, <2>4, ReloadMoves DEF RecsOps
<1>7. CASE Finish(i, ready)
  <2>1. recs' = ready
    BY <1>7 DEF Finish, Become
  <2>2. ArchiveSafe(i, Nothing)
    BY <1>4, <2>1, ArchiveUntouched, CallsOfNone
  <2>3. RenewSafe(i, Nothing)
    BY <1>3, CallsOfNone DEF RenewSafe
  <2>4. QED
    BY <1>2, <1>4, <1>7, <2>2, <2>3, FinishMoves DEF RecsOps
<1>8. QED
  BY <1>5, <1>6, <1>7

LEMMA ArchiveAnswerStep ==
  ASSUME FInv, UNCHANGED dash, NEW i \in InFlight,
         archived(i) \/ archiveFailed(i)
  PROVE  RecsStep
<1> DEFINE ready  == [recs EXCEPT !.archiveBusy = FALSE]
           closed == [recs EXCEPT !.archiveTarget = NoRow]
<1>1. recs \in RecsState /\ FormFine(recs)
  BY FInvFacts
<1>2. OpOf(i) = "archive"
  BY DEF archived, archiveFailed, Answered, Failed, Waiting, OpOf
<1>3. /\ Under(i, "archive") /\ recs.archiveBusy
      /\ \A j \in InFlight : Under(j, "archive") => j = i
  BY <1>2 DEF FInv, ArchiveInv, OneUnder, Under, CallOf, OpOf
<1>4. \A j \in InFlight : OpOf(j) = "archive" => j = i
  BY <1>3 DEF OpOf, Under, CallOf
<1>5. /\ ready \in RecsState /\ FormFine(ready) /\ RenewSame(recs, ready)
      /\ closed \in RecsState /\ FormFine(closed) /\ RenewSame(recs, closed)
      /\ closed.archiveBusy = recs.archiveBusy
  BY <1>1 DEF RecsState, FormFine, RenewSame
<1>6. Reload(i, closed, "archive") \/ Finish(i, ready)
  BY DEF archived, archiveFailed
<1> HIDE DEF ready, closed
<1>7. CASE Reload(i, closed, "archive")
  <2>1. recs' = Loading(closed)
    BY <1>7 DEF Reload, Become
  <2>2. recs'.archiveBusy = recs.archiveBusy /\ RenewSame(recs, recs')
    BY <1>5, <2>1, LoadingState DEF ArchiveSame, RenewSame
  <2>3. listComplianceRecords("archive").op = "list"
    BY DEF listComplianceRecords
  <2>4. ArchiveSafe(i, listComplianceRecords("archive"))
    BY <1>3, <1>4, <2>2, <2>3 DEF ArchiveSafe
  <2>5. RenewSafe(i, listComplianceRecords("archive"))
    BY <2>2, RenewUntouched, CallsOfNone
  <2>6. QED
    BY <1>2, <1>5, <1>7, <2>4, <2>5, ReloadMoves DEF RecsOps
<1>8. CASE Finish(i, ready)
  <2>1. recs' = ready
    BY <1>8 DEF Finish, Become
  <2>2. ArchiveSafe(i, Nothing)
    BY <1>3, <1>4, CallsOfNone DEF ArchiveSafe
  <2>3. RenewSafe(i, Nothing)
    BY <1>5, <2>1, RenewUntouched, CallsOfNone
  <2>4. QED
    BY <1>2, <1>5, <1>8, <2>2, <2>3, FinishMoves DEF RecsOps
<1>9. QED
  BY <1>6, <1>7, <1>8

LEMMA RecsAnswerStep ==
  ASSUME FInv, NEW i \in InFlight, RecsAnswer(i)
  PROVE  RecsStep
<1>1. UNCHANGED dash
  BY DEF RecsAnswer
<1>2. QED
  BY <1>1, EmployeesStep, ListStep, EditAnswerStep, SaveAnswerStep,
     RenewAnswerStep, ArchiveAnswerStep DEF RecsAnswer

-----------------------------------------------------------------------------
(* The session: steps that leave both pages as they are.                   *)

SessionMove(lost, sent) ==
  /\ Follows(lost, sent)
  /\ sent.op \in {"login", Gone}
  /\ sent.op = "login" => page = "login"
  /\ token' \in Token
  /\ going' \in Page \union {Nowhere}
  /\ signingIn' \in BOOLEAN
  /\ page' = page
  /\ UNCHANGED <<dash, recs>>

SessionStep == \E lost, sent : SessionMove(lost, sent)

LEMMA SessionStepNext ==
  ASSUME FInv, SessionStep
  PROVE  FInv'
<1>1. PICK lost, sent : SessionMove(lost, sent)
  BY DEF SessionStep
<1>2. /\ Follows(lost, sent) /\ RequestsOK'
      /\ sent.op \in {"login", Gone}
      /\ sent.op = "login" => page = "login"
      /\ token' \in Token /\ going' \in Page \union {Nowhere}
      /\ signingIn' \in BOOLEAN
      /\ page' = page /\ dash' = dash /\ recs' = recs
  BY <1>1 DEF SessionMove, Follows
<1>3. TypeOK'
  BY <1>2, RequestsTyped DEF FInv, TypeOK, SessionTypeOK, DashTypeOK, RecsTypeOK
<1>4. sent.op \notin DashOps \union RecsOps
  BY <1>2 DEF DashOps, RecsOps, Gone
<1>5. Placed'
  BY <1>2, <1>4, FollowsPlaced DEF FInv
<1>6. Asked' /\ ShowsLatest'
  BY <1>2, <1>4, FollowsAsked DEF FInv, ShowsLatest
<1>7. FormOwn'
  BY <1>2 DEF FInv, FormOwn
<1>8. ArchiveSafe(lost, sent) /\ RenewSafe(lost, sent)
  <2>1. ArchiveSame(recs, recs') /\ RenewSame(recs, recs')
    BY <1>2 DEF ArchiveSame, RenewSame
  <2>2. ~CallOf(sent, "archive") /\ ~CallOf(sent, "renew")
    BY <1>2 DEF CallOf, Gone
  <2>3. QED
    BY <2>1, <2>2, ArchiveUntouched, RenewUntouched
<1>9. UpdateOwn' /\ ArchiveInv' /\ RenewInv'
  BY <1>2, <1>8, FollowsUpdates, FollowsArchive, FollowsRenew DEF FInv, Gone
<1>10. QED
  BY <1>2, <1>3, <1>5, <1>6, <1>7, <1>9 DEF FInv

LEMMA SessionTyped ==
  ASSUME FInv
  PROVE  /\ token \in Token /\ going \in Page \union {Nowhere}
         /\ signingIn \in BOOLEAN
BY DEF FInv, TypeOK, SessionTypeOK

LEMMA SessionUserStep ==
  ASSUME FInv, SessionUser
  PROVE  SessionStep
<1>1. UNCHANGED <<dash, recs>>
  BY DEF SessionUser
<1>2. CASE SubmitLogin
  <2> DEFINE call == [op |-> "login"]
  <2>1. call \in Call /\ call.op = "login"
    BY DEF PlainCall, Call
  <2>2. /\ page = "login" /\ Send(call) /\ signingIn' = TRUE
        /\ token' = token /\ page' = page /\ going' = going
    BY <1>2 DEF SubmitLogin
  <2> HIDE DEF call
  <2>3. Follows(0, call)
    BY <2>1, <2>2, SentFollows, FInvFacts
  <2>4. SessionMove(0, call)
    BY <1>1, <2>1, <2>2, <2>3, SessionTyped DEF SessionMove
  <2>5. QED
    BY <2>4 DEF SessionStep
<1>3. CASE Logout \/ \E p \in Page : Visit(p)
  <2>1. /\ requests' = requests /\ page' = page /\ signingIn' = signingIn
        /\ token' \in Token /\ going' \in Page
    BY <1>3, SessionTyped DEF Logout, Visit, Token, Page
  <2>2. Follows(0, Nothing)
    BY <2>1, KeptFollows, FInvFacts
  <2>3. SessionMove(0, Nothing)
    BY <1>1, <2>1, <2>2, SessionTyped DEF SessionMove, Nothing, Gone
  <2>4. QED
    BY <2>3 DEF SessionStep
<1>4. QED
  BY <1>2, <1>3 DEF SessionUser

LEMMA StayStep ==
  ASSUME FInv, Stay, UNCHANGED <<dash, recs>>
  PROVE  SessionStep
<1>1. /\ requests' = requests /\ page' = page /\ token' = token
      /\ going' = Nowhere /\ signingIn' \in BOOLEAN
  BY DEF Stay
<1>2. Follows(0, Nothing)
  BY <1>1, KeptFollows, FInvFacts
<1>3. SessionMove(0, Nothing)
  BY <1>1, <1>2, SessionTyped DEF SessionMove, Nothing, Gone
<1>4. QED
  BY <1>3 DEF SessionStep

LEMMA TokenEndsStep ==
  ASSUME FInv, TokenEnds, UNCHANGED <<dash, recs>>
  PROVE  SessionStep
<1>1. /\ page' = page /\ going' = going /\ signingIn' = signingIn
      /\ token' \in Token
  BY SessionTyped DEF TokenEnds, Token
<1>2. Follows(0, Nothing)
  BY EndedFollows, FInvFacts
<1>3. SessionMove(0, Nothing)
  BY <1>1, <1>2, SessionTyped DEF SessionMove, Nothing, Gone
<1>4. QED
  BY <1>3 DEF SessionStep

LEMMA SessionAnswerStep ==
  ASSUME FInv, NEW i \in InFlight, SessionAnswer(i)
  PROVE  SessionStep
<1>1. UNCHANGED <<dash, recs>> /\ Done(i) /\ page' = page
  BY DEF SessionAnswer, Unauthorized, Forgotten, LoggedIn, LoginRefused,
         LoginFailed, sessionVars
<1>2. /\ token' \in {token, "none", "good"}
      /\ going' \in {going, "login", "dashboard"}
      /\ signingIn' \in {signingIn, FALSE}
  BY DEF SessionAnswer, Unauthorized, Forgotten, LoggedIn, LoginRefused,
         LoginFailed, sessionVars
<1>3. /\ token' \in Token /\ going' \in Page \union {Nowhere}
      /\ signingIn' \in BOOLEAN
  BY <1>2, SessionTyped DEF Token, Page
<1>4. Follows(i, Nothing)
  BY <1>1, DoneFollows, FInvFacts
<1>5. SessionMove(i, Nothing)
  BY <1>1, <1>3, <1>4 DEF SessionMove, Nothing, Gone
<1>6. QED
  BY <1>5 DEF SessionStep

(* A page that opens is at its first state, and so is the one that closes. *)
LEMMA LeaveNext ==
  ASSUME FInv, Leave(Mounted(Arrival(going))),
         dash' = DashInit(DefaultFilter), recs' = RecsInit
  PROVE  FInv'
<1>1. /\ going \in Page /\ token' = token /\ going' = Nowhere
      /\ signingIn' = FALSE /\ page' = Arrival(going)
  BY SessionTyped DEF Leave
<1>2. page' \in Page
  BY <1>1, ArrivalPage
<1>3. /\ RequestsOK'
      /\ \A j \in DOMAIN requests' :
           \/ requests'[j].call.op = Gone
           \/ MountCall(page', requests'[j].call)
  BY <1>1, LeaveMounts, FInvFacts
<1>4. \A j \in DOMAIN requests' :
        \/ requests'[j].call.op = Gone
        \/ page' = "dashboard" /\ requests'[j].call = Metrics({})
        \/ page' = "dashboard" /\ requests'[j].call = Expiring(DefaultFilter, 0)
        \/ page' = "records" /\ requests'[j].call = listEmployees
  BY <1>3 DEF MountCall
<1>5. DashTypeOK' /\ RecsTypeOK'
  <2>1. DefaultFilter \in Filters /\ 0 \in Offsets
    BY FrontendConstantsOK, DashboardConstantsOK
  <2>2. QED
    BY <2>1 DEF DashTypeOK, DashInit, NothingShown, RecsTypeOK, RecsInit
<1>6. TypeOK'
  <2>1. token' \in Token /\ going' \in Page \union {Nowhere}
        /\ signingIn' \in BOOLEAN
    BY <1>1, SessionTyped
  <2>2. QED
    BY <1>2, <1>3, <1>5, <2>1, RequestsTyped DEF TypeOK, SessionTypeOK
<1>7. Metrics({}).op = "metrics" /\ Metrics({}).ticked = {}
  BY DEF Metrics
<1>8. /\ Expiring(DefaultFilter, 0).op = "expiring"
      /\ Expiring(DefaultFilter, 0).filter = DefaultFilter
      /\ Expiring(DefaultFilter, 0).offset = 0
  BY DEF Expiring
<1>9. listEmployees.op = "employees"
  BY DEF listEmployees
<1>10. Placed'
  BY <1>4, <1>7, <1>8, <1>9
     DEF Placed, OpOf, InFlight, DashOps, RecsOps, Gone
<1>11. /\ dash'.ticked = {} /\ dash'.filter = DefaultFilter
       /\ dash'.offset = 0
       /\ dash'.metricsLoading = TRUE /\ dash'.expiringLoading = TRUE
       /\ recs'.formOpen = FALSE
  BY DEF DashInit, RecsInit
<1>12. Asked'
  BY <1>4, <1>7, <1>8, <1>9, <1>11 DEF Asked, OpOf, InFlight, Gone
<1>13. ShowsLatest' /\ FormOwn'
  BY <1>11 DEF ShowsLatest, FormOwn
<1>14. /\ \A j \in DOMAIN requests' : requests'[j].call.op
            \notin {"list", "archive", "renew", "update"}
  BY <1>4, <1>7, <1>8, <1>9 DEF Gone
<1>15. UpdateOwn' /\ ArchiveInv' /\ RenewInv'
  BY <1>14 DEF UpdateOwn, ArchiveInv, RenewInv, OneUnder, Under, CallOf, OpOf,
               InFlight
<1>16. QED
  BY <1>3, <1>6, <1>10, <1>12, <1>13, <1>15 DEF FInv

-----------------------------------------------------------------------------
(* The dashboard.                                                          *)

DashState ==
  [metrics : {NoMetrics} \union SUBSET Breakdowns,
   ticked : SUBSET Breakdowns,
   metricsLoading : BOOLEAN, metricsError : BOOLEAN,
   filter : Filters, offset : Offsets,
   shown : [filter : Filters \union {"none"}, offset : Offsets],
   expiringLoading : BOOLEAN, expiringError : BOOLEAN]

MetricsSame(s, t) ==
  /\ t.metrics = s.metrics /\ t.ticked = s.ticked
  /\ t.metricsLoading = s.metricsLoading /\ t.metricsError = s.metricsError

ExpiringSame(s, t) ==
  /\ t.filter = s.filter /\ t.offset = s.offset /\ t.shown = s.shown
  /\ t.expiringLoading = s.expiringLoading
  /\ t.expiringError = s.expiringError

LEMMA DashFacts ==
  ASSUME FInv
  PROVE  dash \in DashState
BY DEF FInv, TypeOK, DashTypeOK, DashState

(* A step of the dashboard keeps what does not speak of its loads.         *)
LEMMA DashKeeps ==
  ASSUME FInv, UNCHANGED recs, UNCHANGED sessionVars, page = "dashboard",
         RequestsOK', dash' \in DashState, Placed', Asked', ShowsLatest'
  PROVE  FInv'
<1>1. /\ token' = token /\ page' = page /\ going' = going
      /\ signingIn' = signingIn /\ recs' = recs
  BY DEF sessionVars
<1>2. TypeOK'
  BY <1>1, RequestsTyped DEF FInv, TypeOK, SessionTypeOK, DashTypeOK,
     DashState, RecsTypeOK
<1>3. FormOwn'
  BY <1>1 DEF FInv, FormOwn
<1>4. UpdateOwn' /\ ArchiveInv' /\ RenewInv'
  BY <1>1, AwayFromRecords
<1>5. QED
  BY <1>2, <1>3, <1>4 DEF FInv

(* A load asks for what is chosen from now on, and outdates the others.    *)
LoadFits(op, call, state) ==
  /\ call.op = op
  /\ op = "metrics" => /\ state.ticked = call.ticked
                       /\ state.metricsLoading = TRUE
                       /\ ExpiringSame(dash, state)
  /\ op = "expiring" => /\ state.filter = call.filter
                        /\ state.offset = call.offset
                        /\ state.expiringLoading = TRUE
                        /\ MetricsSame(dash, state)

LEMMA LoadNext ==
  ASSUME FInv, UNCHANGED recs, NEW op \in DashOps, NEW call \in Call,
         NEW state \in DashState, Load(op, call, state),
         LoadFits(op, call, state)
  PROVE  FInv'
<1>1. /\ page = "dashboard" /\ dash' = state /\ UNCHANGED sessionVars
      /\ page' = page
  BY DEF Load, sessionVars
<1>2. Outdates(op, call)
  BY LoadOutdates, FInvFacts
<1>3. RequestsOK'
  BY <1>2 DEF Outdates
<1>4. ASSUME NEW j \in DOMAIN requests'
      PROVE  \/ requests'[j].call = call
             \/ /\ j \in InFlight /\ OpOf(j) = op
                /\ requests'[j].call.op = op /\ ~requests'[j].call.latest
             \/ /\ j \in InFlight /\ OpOf(j) # op
                /\ requests'[j].call = requests[j].call
  BY <1>2, <1>4 DEF Outdates
<1>5. call.op = op /\ op \in {"metrics", "expiring"}
  BY DEF LoadFits, DashOps
<1>6. Placed'
  <2>1. ASSUME NEW j \in DOMAIN requests'
        PROVE  /\ requests'[j].call.op # "login"
               /\ requests'[j].call.op \notin RecsOps
    <3>1. \A k \in InFlight : OpOf(k) # "login" /\ OpOf(k) \notin RecsOps
      BY <1>1 DEF FInv, Placed
    <3>2. op # "login" /\ op \notin RecsOps
      BY <1>5 DEF RecsOps
    <3>3. QED
      BY <1>4, <1>5, <2>1, <3>1, <3>2 DEF OpOf
  <2>2. QED
    BY <1>1, <2>1 DEF Placed, OpOf, InFlight
<1>7. CASE op = "metrics"
  <2>1. /\ dash'.ticked = call.ticked /\ dash'.metricsLoading = TRUE
        /\ dash'.filter = dash.filter /\ dash'.offset = dash.offset
        /\ dash'.shown = dash.shown
        /\ dash'.expiringLoading = dash.expiringLoading
        /\ dash'.expiringError = dash.expiringError
    BY <1>1, <1>7 DEF LoadFits, ExpiringSame
  <2>2. ASSUME NEW j \in DOMAIN requests', requests'[j].call.op = "metrics",
               requests'[j].call.latest
        PROVE  requests'[j].call.ticked = dash'.ticked
    BY <1>4, <1>7, <2>1, <2>2 DEF OpOf
  <2>3. ASSUME NEW j \in DOMAIN requests', requests'[j].call.op = "expiring",
               requests'[j].call.latest
        PROVE  /\ requests'[j].call.filter = dash'.filter
               /\ requests'[j].call.offset = dash'.offset
    <3>1. j \in InFlight /\ requests'[j].call = requests[j].call
      BY <1>4, <1>5, <1>7, <2>3
    <3>2. QED
      BY <2>1, <2>3, <3>1 DEF FInv, Asked, OpOf
  <2>4. Asked'
    BY <2>2, <2>3 DEF Asked, OpOf, InFlight
  <2>5. ShowsLatest'
    BY <1>1, <2>1 DEF FInv, ShowsLatest
  <2>6. QED
    BY <1>1, <1>3, <1>6, <2>4, <2>5, DashKeeps
<1>8. CASE op = "expiring"
  <2>1. /\ dash'.filter = call.filter /\ dash'.offset = call.offset
        /\ dash'.expiringLoading = TRUE
        /\ dash'.metrics = dash.metrics /\ dash'.ticked = dash.ticked
        /\ dash'.metricsLoading = dash.metricsLoading
        /\ dash'.metricsError = dash.metricsError
    BY <1>1, <1>8 DEF LoadFits, MetricsSame
  <2>2. ASSUME NEW j \in DOMAIN requests', requests'[j].call.op = "expiring",
               requests'[j].call.latest
        PROVE  /\ requests'[j].call.filter = dash'.filter
               /\ requests'[j].call.offset = dash'.offset
    BY <1>4, <1>8, <2>1, <2>2 DEF OpOf
  <2>3. ASSUME NEW j \in DOMAIN requests', requests'[j].call.op = "metrics",
               requests'[j].call.latest
        PROVE  requests'[j].call.ticked = dash'.ticked
    <3>1. j \in InFlight /\ requests'[j].call = requests[j].call
      BY <1>4, <1>5, <1>8, <2>3
    <3>2. QED
      BY <2>1, <2>3, <3>1 DEF FInv, Asked, OpOf
  <2>4. Asked'
    BY <2>2, <2>3 DEF Asked, OpOf, InFlight
  <2>5. ShowsLatest'
    BY <1>1, <2>1 DEF FInv, ShowsLatest
  <2>6. QED
    BY <1>1, <1>3, <1>6, <2>4, <2>5, DashKeeps
<1>9. QED
  BY <1>5, <1>7, <1>8

LEMMA LoadMetricsNext ==
  ASSUME FInv, UNCHANGED recs, NEW ticked \in SUBSET Breakdowns,
         loadMetrics(ticked)
  PROVE  FInv'
<1> DEFINE call  == Metrics(ticked)
           state == [dash EXCEPT !.ticked = ticked, !.metricsLoading = TRUE,
                                 !.metricsError = FALSE]
<1>1. call \in Call /\ call.op = "metrics" /\ call.ticked = ticked
  BY DEF Metrics, MetricsCall, Call
<1>2. /\ state \in DashState /\ state.ticked = ticked
      /\ state.metricsLoading = TRUE /\ ExpiringSame(dash, state)
  BY DashFacts DEF DashState, ExpiringSame
<1>3. Load("metrics", call, state)
  BY DEF loadMetrics
<1> HIDE DEF call, state
<1>4. LoadFits("metrics", call, state)
  BY <1>1, <1>2 DEF LoadFits
<1>5. QED
  BY <1>1, <1>2, <1>3, <1>4, LoadNext DEF DashOps

LEMMA LoadExpiringNext ==
  ASSUME FInv, UNCHANGED recs, NEW filter \in Filters, NEW offset \in Offsets,
         loadExpiring(filter, offset)
  PROVE  FInv'
<1> DEFINE call  == Expiring(filter, offset)
           state == [dash EXCEPT !.filter = filter, !.offset = offset,
                                 !.expiringLoading = TRUE,
                                 !.expiringError = FALSE]
<1>1. /\ call \in Call /\ call.op = "expiring"
      /\ call.filter = filter /\ call.offset = offset
  BY DEF Expiring, ExpiringCall, Call
<1>2. /\ state \in DashState /\ state.filter = filter
      /\ state.offset = offset /\ state.expiringLoading = TRUE
      /\ MetricsSame(dash, state)
  BY DashFacts DEF DashState, MetricsSame
<1>3. Load("expiring", call, state)
  BY DEF loadExpiring
<1> HIDE DEF call, state
<1>4. LoadFits("expiring", call, state)
  BY <1>1, <1>2 DEF LoadFits
<1>5. QED
  BY <1>1, <1>2, <1>3, <1>4, LoadNext DEF DashOps

LEMMA DashUserNext ==
  ASSUME FInv, DashUser
  PROVE  FInv'
<1>1. UNCHANGED recs
  BY DEF DashUser
<1>2. /\ dash.ticked \in SUBSET Breakdowns /\ dash.filter \in Filters
      /\ dash.offset \in Offsets
  BY DashFacts DEF DashState
<1>3. CASE \E b \in Breakdowns : handleBreakdownChange(b)
  <2>1. \E ticked \in SUBSET Breakdowns : loadMetrics(ticked)
    BY <1>2, <1>3 DEF handleBreakdownChange
  <2>2. QED
    BY <1>1, <2>1, LoadMetricsNext
<1>4. CASE retryMetrics
  BY <1>1, <1>2, <1>4, LoadMetricsNext DEF retryMetrics
<1>5. CASE \E filter \in Filters : handleFilterChange(filter)
  BY <1>1, <1>5, DashboardConstantsOK, LoadExpiringNext DEF handleFilterChange
<1>6. CASE \E offset \in Offsets : handlePageChange(offset)
  BY <1>1, <1>2, <1>6, LoadExpiringNext DEF handlePageChange
<1>7. CASE retryExpiring
  BY <1>1, <1>2, <1>7, LoadExpiringNext DEF retryExpiring
<1>8. QED
  BY <1>3, <1>4, <1>5, <1>6, <1>7 DEF DashUser

(* An answer shows what it was asked for if it is the latest of its load,  *)
(* and what it was asked for is then what is chosen; a late one shows      *)
(* nothing.                                                                *)
LEMMA AnswerNext ==
  ASSUME FInv, UNCHANGED recs, UNCHANGED sessionVars, NEW i \in InFlight,
         OpOf(i) \in DashOps, Done(i), dash' \in DashState,
         dash'.ticked = dash.ticked, dash'.filter = dash.filter,
         dash'.offset = dash.offset, ShowsLatest'
  PROVE  FInv'
<1>1. page = "dashboard" /\ page' = page
  BY FInvFacts DEF sessionVars
<1>2. Follows(i, Nothing)
  BY DoneFollows, FInvFacts
<1>3. Nothing.op \notin DashOps \union RecsOps \union {"login"}
  BY DEF Nothing, Gone, DashOps, RecsOps
<1>4. RequestsOK'
  BY <1>2 DEF Follows
<1>5. Placed'
  BY <1>1, <1>2, <1>3, FollowsPlaced DEF FInv
<1>6. Asked'
  BY <1>2, <1>3, FollowsAsked DEF FInv
<1>7. QED
  BY <1>1, <1>4, <1>5, <1>6, DashKeeps

LEMMA LateNext ==
  ASSUME FInv, UNCHANGED recs, UNCHANGED sessionVars, NEW i \in InFlight,
         OpOf(i) \in DashOps, Done(i), dash' = dash
  PROVE  FInv'
<1>1. ShowsLatest'
  BY DEF FInv, ShowsLatest, sessionVars
<1>2. QED
  BY <1>1, AnswerNext, DashFacts

LEMMA MetricsAnswerNext ==
  ASSUME FInv, UNCHANGED recs, NEW i \in InFlight,
         metricsAnswered(i) \/ metricsFailed(i)
  PROVE  FInv'
<1> DEFINE call   == requests[i].call
           failed == [dash EXCEPT !.metricsError = TRUE,
                                  !.metricsLoading = FALSE]
           shown  == [dash EXCEPT !.metrics = call.ticked,
                                  !.metricsLoading = FALSE]
<1>1. OpOf(i) = "metrics" /\ Done(i) /\ UNCHANGED sessionVars /\ page' = page
  BY DEF metricsAnswered, metricsFailed, Answered, Failed, Waiting, OpOf,
         sessionVars
<1>2. \/ ~call.latest /\ dash' = dash
      \/ call.latest /\ dash' = failed
      \/ call.latest /\ dash' = shown
  BY DEF metricsAnswered, metricsFailed
<1>3. CASE ~call.latest /\ dash' = dash
  BY <1>1, <1>3, LateNext DEF DashOps
<1>4. CASE call.latest /\ dash' = failed
  <2>1. /\ failed \in DashState /\ ExpiringSame(dash, failed)
        /\ failed.ticked = dash.ticked /\ failed.metricsError = TRUE
    BY DashFacts DEF DashState, ExpiringSame
  <2> HIDE DEF failed
  <2>2. ShowsLatest'
    BY <1>1, <1>4, <2>1 DEF FInv, ShowsLatest, ExpiringSame
  <2>3. QED
    BY <1>1, <1>4, <2>1, <2>2, AnswerNext DEF DashOps, ExpiringSame
<1>5. CASE call.latest /\ dash' = shown
  <2>1. call.ticked = dash.ticked
    BY <1>1, <1>5 DEF FInv, Asked, OpOf
  <2>2. /\ shown \in DashState /\ ExpiringSame(dash, shown)
        /\ shown.ticked = dash.ticked /\ shown.metrics = dash.ticked
    BY <2>1, DashFacts DEF DashState, ExpiringSame
  <2> HIDE DEF shown
  <2>3. ShowsLatest'
    BY <1>1, <1>5, <2>2 DEF FInv, ShowsLatest, ExpiringSame
  <2>4. QED
    BY <1>1, <1>5, <2>2, <2>3, AnswerNext DEF DashOps, ExpiringSame
<1>6. QED
  BY <1>2, <1>3, <1>4, <1>5

LEMMA ExpiringAnswerNext ==
  ASSUME FInv, UNCHANGED recs, NEW i \in InFlight,
         expiringAnswered(i) \/ expiringFailed(i)
  PROVE  FInv'
<1> DEFINE call   == requests[i].call
           rows   == [filter |-> call.filter, offset |-> call.offset]
           failed == [dash EXCEPT !.expiringError = TRUE,
                                  !.expiringLoading = FALSE]
           listed == [dash EXCEPT !.shown = rows, !.offset = call.offset,
                                  !.expiringLoading = FALSE]
<1>1. OpOf(i) = "expiring" /\ Done(i) /\ UNCHANGED sessionVars /\ page' = page
  BY DEF expiringAnswered, expiringFailed, Answered, Failed, Waiting, OpOf,
         sessionVars
<1>2. \/ ~call.latest /\ dash' = dash
      \/ call.latest /\ dash' = failed
      \/ call.latest /\ dash' = listed
  BY DEF expiringAnswered, expiringFailed
<1>3. CASE ~call.latest /\ dash' = dash
  BY <1>1, <1>3, LateNext DEF DashOps
<1>4. CASE call.latest /\ dash' = failed
  <2>1. /\ failed \in DashState /\ MetricsSame(dash, failed)
        /\ failed.filter = dash.filter /\ failed.offset = dash.offset
        /\ failed.expiringError = TRUE
    BY DashFacts DEF DashState, MetricsSame
  <2> HIDE DEF failed
  <2>2. ShowsLatest'
    BY <1>1, <1>4, <2>1 DEF FInv, ShowsLatest, MetricsSame
  <2>3. QED
    BY <1>1, <1>4, <2>1, <2>2, AnswerNext DEF DashOps, MetricsSame
<1>5. CASE call.latest /\ dash' = listed
  <2>1. call.filter = dash.filter /\ call.offset = dash.offset
    BY <1>1, <1>5 DEF FInv, Asked, OpOf
  <2>2. /\ dash.filter \in Filters /\ dash.offset \in Offsets
        /\ dash \in DashState
    BY DashFacts DEF DashState
  <2>3. /\ rows \in [filter : Filters \union {"none"}, offset : Offsets]
        /\ rows.filter = dash.filter /\ rows.offset = dash.offset
    BY <2>1, <2>2
  <2> HIDE DEF rows
  <2>4. /\ listed \in DashState /\ MetricsSame(dash, listed)
        /\ listed.filter = dash.filter /\ listed.offset = dash.offset
        /\ listed.shown = rows
    BY <2>1, <2>2, <2>3 DEF DashState, MetricsSame
  <2> HIDE DEF listed
  <2>5. ShowsLatest'
    BY <1>1, <1>5, <2>3, <2>4 DEF FInv, ShowsLatest, MetricsSame
  <2>6. QED
    BY <1>1, <1>5, <2>4, <2>5, AnswerNext DEF DashOps, MetricsSame
<1>6. QED
  BY <1>2, <1>3, <1>4, <1>5

-----------------------------------------------------------------------------
(* The invariant.                                                          *)

LEMMA InitFInv ==
  ASSUME Init
  PROVE  FInv
<1>1. /\ requests = <<>> /\ page = "login" /\ token = "none"
      /\ going = Nowhere /\ signingIn = FALSE
      /\ dash = DashInit(DefaultFilter) /\ recs = RecsInit
  BY DEF Init, SessionInit
<1>2. InFlight = {} /\ DOMAIN requests = {} /\ Len(requests) = 0
  BY <1>1 DEF InFlight
<1>3. RequestsOK
  <2>1. MaxRequests \in Nat
    BY FrontendConstantsOK
  <2>2. QED
    BY <1>1, <1>2, <2>1 DEF RequestsOK
<1>4. DashTypeOK /\ RecsTypeOK
  <2>1. DefaultFilter \in Filters /\ 0 \in Offsets
    BY FrontendConstantsOK, DashboardConstantsOK
  <2>2. QED
    BY <1>1, <2>1 DEF DashTypeOK, DashInit, NothingShown, RecsTypeOK, RecsInit
<1>5. TypeOK
  BY <1>1, <1>2, <1>3, <1>4 DEF TypeOK, SessionTypeOK, RequestsOK, Token, Page
<1>6. Placed /\ Asked /\ UpdateOwn /\ ArchiveInv /\ RenewInv
  BY <1>2 DEF Placed, Asked, UpdateOwn, ArchiveInv, RenewInv, OneUnder
<1>7. ShowsLatest /\ FormOwn
  BY <1>1 DEF ShowsLatest, FormOwn, RecsInit
<1>8. QED
  BY <1>3, <1>5, <1>6, <1>7 DEF FInv

LEMMA NextFInv ==
  ASSUME FInv, [Next]_vars
  PROVE  FInv'
<1>1. CASE Navigate
  <2>1. CASE Stay /\ UNCHANGED <<dash, recs>>
    BY <2>1, StayStep, SessionStepNext
  <2>2. CASE /\ Leave(Mounted(Arrival(going)))
             /\ dash' = DashInit(DefaultFilter)
             /\ recs' = RecsInit
    BY <2>2, LeaveNext
  <2>3. QED
    BY <1>1, <2>1, <2>2 DEF Navigate
<1>2. CASE User
  <2>1. CASE SessionUser
    BY <2>1, SessionUserStep, SessionStepNext
  <2>2. CASE DashUser
    BY <2>2, DashUserNext
  <2>3. CASE RecsUser
    BY <2>3, RecsUserStep, RecsStepNext
  <2>4. QED
    BY <1>2, <2>1, <2>2, <2>3 DEF User
<1>3. CASE TokenEnds /\ UNCHANGED <<dash, recs>>
  BY <1>3, TokenEndsStep, SessionStepNext
<1>4. ASSUME NEW i \in DOMAIN requests, Answer(i)
      PROVE  FInv'
  <2>1. i \in InFlight
    BY DEF InFlight
  <2>2. CASE SessionAnswer(i)
    BY <2>1, <2>2, SessionAnswerStep, SessionStepNext
  <2>3. CASE DashAnswer(i)
    BY <2>1, <2>3, MetricsAnswerNext, ExpiringAnswerNext DEF DashAnswer
  <2>4. CASE RecsAnswer(i)
    BY <2>1, <2>4, RecsAnswerStep, RecsStepNext
  <2>5. QED
    BY <1>4, <2>2, <2>3, <2>4 DEF Answer
<1>5. CASE UNCHANGED vars
  <2>1. /\ requests' = requests /\ page' = page /\ token' = token
        /\ going' = going /\ signingIn' = signingIn
        /\ UNCHANGED <<dash, recs>>
    BY <1>5 DEF vars
  <2>2. Follows(0, Nothing)
    BY <2>1, KeptFollows, FInvFacts
  <2>3. SessionMove(0, Nothing)
    BY <2>1, <2>2, SessionTyped DEF SessionMove, Nothing, Gone
  <2>4. QED
    BY <2>3, SessionStepNext DEF SessionStep
<1>6. QED
  BY <1>1, <1>2, <1>3, <1>4, <1>5 DEF Next

-----------------------------------------------------------------------------
(* Whatever the user clicks and the API answers, the requests under way    *)
(* are those the page on screen accounts for (FInv, above).                *)
THEOREM FrontendInvariance == Spec => []FInv
<1>1. Init => FInv
  BY InitFInv
<1>2. FInv /\ [Next]_vars => FInv'
  BY NextFInv
<1>3. QED
  BY <1>1, <1>2, PTL DEF Spec

(* TypeOK: the pages and the session keep their types, a page that is not  *)
(* on screen leaves nothing behind, and the requests their bound.          *)
THEOREM FrontendTypes == Spec => []TypeOK
<1>1. FInv => TypeOK
  BY DEF FInv
<1>2. QED
  BY <1>1, FrontendInvariance, PTL

(* ShowsLatest: what the dashboard shows without a spinner or an error is  *)
(* what is chosen, in whichever order any number of answers comes: the     *)
(* request ids of +page.svelte do what they are for.                       *)
THEOREM LatestShown == Spec => []ShowsLatest
<1>1. FInv => ShowsLatest
  BY DEF FInv
<1>2. QED
  BY <1>1, FrontendInvariance, PTL

(* UpdateOwn: an update goes to the record its fields came from, also when *)
(* the forms of other records were opened, closed and answered late in     *)
(* between.                                                                *)
THEOREM UpdatesOwn == Spec => []UpdateOwn
<1>1. FInv => UpdateOwn
  BY DEF FInv
<1>2. QED
  BY <1>1, FrontendInvariance, PTL

(* ArchiveOwn: the archive dialog outlives its request, names the record   *)
(* that is archived, and there is one such request at most.                *)
THEOREM ArchivesOwn == Spec => []ArchiveOwn
<1>1. ASSUME ArchiveInv
      PROVE  ArchiveOwn
  <2>1. ASSUME NEW i \in DOMAIN requests, requests[i].call.op = "archive"
        PROVE  recs.archiveBusy /\ recs.archiveTarget = requests[i].call.id
    BY <1>1, <2>1 DEF ArchiveInv, Under, CallOf, OpOf, InFlight
  <2>2. ASSUME NEW i \in DOMAIN requests, requests[i].call.op = "archive",
               NEW j \in DOMAIN requests, requests[j].call.op = "archive"
        PROVE  i = j
    BY <1>1, <2>2 DEF ArchiveInv, OneUnder, Under, CallOf, InFlight
  <2>3. QED
    BY <2>1, <2>2 DEF ArchiveOwn
<1>2. FInv => ArchiveOwn
  BY <1>1 DEF FInv
<1>3. QED
  BY <1>2, FrontendInvariance, PTL

(* SingleRenew: a page has one renewal under way at most, however often    *)
(* its form is closed and opened again.                                    *)
THEOREM RenewsOnce == Spec => []SingleRenew
<1>1. ASSUME RenewInv
      PROVE  SingleRenew
  BY <1>1 DEF RenewInv, OneUnder, Under, CallOf, InFlight, SingleRenew
<1>2. FInv => SingleRenew
  BY <1>1 DEF FInv
<1>3. QED
  BY <1>2, FrontendInvariance, PTL

-----------------------------------------------------------------------------
(* What the answers to a dashboard's requests say of the records, whatever *)
(* records there are: DashboardQueriesProofs.                              *)

(* MetricsAgree: whatever records a metrics request finds, the types add   *)
(* up to the totals, and so do the departments with the records of         *)
(* archived employees, for every finite table.                             *)
THEOREM BreakdownsAddUp == Spec => []MetricsAgree
<1>1. MetricsAgree
  BY TypesSum, DepartmentsSum DEF MetricsAgree
<1>2. QED
  BY <1>1, PTL

(* PagesComplete: turning the pages of the expiring list shows every       *)
(* record of the window once, the soonest first, for every finite table,   *)
(* window and page size, full last pages included.                         *)
THEOREM PagesShowAll == Spec => []PagesComplete
<1>1. PagesComplete
  BY PagesAll DEF PagesComplete
<1>2. QED
  BY <1>1, PTL

(* PresetIsExpiring: the expiring list of the dashboard and the status     *)
(* rule of the records agree on "within so many days", for all constants.  *)
THEOREM PresetMeansExpiring == Spec => []PresetIsExpiring
<1>1. PresetIsExpiring
  BY PresetWindow DEF PresetIsExpiring
<1>2. QED
  BY <1>1, PTL
=============================================================================
