------------------------------ MODULE Frontend ------------------------------
(***************************************************************************)
(* The web client: one page on screen at a time, the session and requests  *)
(* it shares with the others, a user who may act at every moment and an    *)
(* API that answers in any order or not at all.                            *)
(*                                                                         *)
(* A page that is not on screen has no state; its variable is kept at the  *)
(* value it will be mounted with.                                          *)
(***************************************************************************)
EXTENDS DashboardQueries, DashboardPage, RecordsPage

CONSTANT DefaultFilter   \* the preset the dashboard opens with

ASSUME FrontendConstantsOK ==
  /\ DefaultFilter \in Filters
  /\ MaxRequests \in Nat /\ MaxRequests >= 2

vars == <<token, page, going, signingIn, requests, dash, recs>>

Init ==
  /\ SessionInit
  /\ dash = DashInit(DefaultFilter)
  /\ recs = RecsInit

(* onMount of each page.                                                   *)
Mounted(p) ==
  CASE p = "dashboard" -> DashCalls(DefaultFilter)
    [] p = "records"   -> RecsCalls
    [] p = "login"     -> <<>>

Navigate ==
  \/ Stay /\ UNCHANGED <<dash, recs>>
  \/ /\ Leave(Mounted(Arrival(going)))
     /\ dash' = DashInit(DefaultFilter)
     /\ recs' = RecsInit

-----------------------------------------------------------------------------
(* What the user does.                                                     *)

SessionUser ==
  /\ SubmitLogin \/ Logout \/ \E p \in Page : Visit(p)
  /\ UNCHANGED <<dash, recs>>

DashUser ==
  /\ \/ \E b \in Breakdowns : handleBreakdownChange(b)
     \/ retryMetrics
     \/ \E filter \in Filters : handleFilterChange(filter)
     \/ \E offset \in Offsets : handlePageChange(offset)
     \/ retryExpiring
  /\ UNCHANGED recs

RecsUser ==
  /\ \/ handleListFilterChange \/ handleListPageChange \/ retryList
     \/ openCreateForm \/ closeForm \/ submitForm
     \/ closeRenewForm \/ submitRenew
     \/ closeArchiveDialog \/ confirmArchive
     \/ \E id \in Rows : \/ openEditForm(id)
                         \/ openRenewForm(id)
                         \/ openArchiveDialog(id)
  /\ UNCHANGED dash

User == SessionUser \/ DashUser \/ RecsUser

-----------------------------------------------------------------------------
(* What becomes of request i.                                              *)

SessionAnswer(i) ==
  /\ \/ Unauthorized(i) \/ Forgotten(i)
     \/ LoggedIn(i) \/ LoginRefused(i) \/ LoginFailed(i)
  /\ UNCHANGED <<dash, recs>>

DashAnswer(i) ==
  /\ \/ metricsAnswered(i) \/ metricsFailed(i)
     \/ expiringAnswered(i) \/ expiringFailed(i)
  /\ UNCHANGED recs

RecsAnswer(i) ==
  /\ \/ employeesLoaded(i) \/ employeesFailed(i)
     \/ listLoaded(i) \/ listFailed(i)
     \/ editLoaded(i) \/ editFailed(i)
     \/ created(i) \/ updated(i) \/ saveFailed(i)
     \/ renewed(i) \/ renewFailed(i)
     \/ archived(i) \/ archiveFailed(i)
  /\ UNCHANGED dash

Answer(i) == SessionAnswer(i) \/ DashAnswer(i) \/ RecsAnswer(i)

Next ==
  \/ Navigate
  \/ User
  \/ TokenEnds /\ UNCHANGED <<dash, recs>>
  \/ \E i \in DOMAIN requests : Answer(i)

Spec == Init /\ [][Next]_vars

(* The browser ends what it began: a navigation, and every request, by an  *)
(* answer or an error.  Nothing is asked of the user or of the token.      *)
AnswerOldest == requests # <<>> /\ Answer(1)
FairSpec == Spec /\ WF_vars(Navigate) /\ WF_vars(AnswerOldest)

-----------------------------------------------------------------------------
(* Types, and what a page that is not on screen leaves behind.  Covers the *)
(* page offsets, which answers and buttons set, and the bound of requests. *)
TypeOK ==
  /\ SessionTypeOK
  /\ DashTypeOK
  /\ RecsTypeOK
  /\ page # "dashboard" => dash = DashInit(DefaultFilter)
  /\ page # "records" => recs = RecsInit

(* The dashboard shows neither numbers nor rows of an earlier choice       *)
(* without saying so: if nothing is loading and no error is on screen, the *)
(* numbers are those of the ticked breakdowns, and the rows those of the   *)
(* window and page last asked for, whatever order the answers came in      *)
(* (the request ids of +page.svelte, lines 46-110).                        *)
ShowsLatest ==
  page = "dashboard" =>
    /\ (~dash.metricsLoading /\ ~dash.metricsError) =>
         dash.metrics = dash.ticked
    /\ (~dash.expiringLoading /\ ~dash.expiringError) =>
         /\ dash.shown.filter = dash.filter
         /\ dash.shown.offset = dash.offset

(* Whatever records a metrics request finds, the numbers it brings agree   *)
(* with each other when no one writes between the queries of getMetrics:   *)
(* the types add up to the totals, the departments to the totals less the  *)
(* records of archived employees, which only the department query leaves   *)
(* out (dashboard.service.ts, line 119).                                   *)
MetricsAgree ==
  \A i \in DOMAIN requests :
    requests[i].call.op = "metrics" => TypesAddUp /\ DepartmentsAddUp

(* Whatever records a request of the expiring list finds: pressing Next    *)
(* until the button is disabled shows every record of the window once, the *)
(* soonest first, for every page size and however the last page fills.     *)
PagesComplete ==
  \A i \in DOMAIN requests :
    requests[i].call.op = "expiring" => PagesCoverWindow

(* The preset window and the status rule mean the same by "within so many  *)
(* days": of records whose status is up to date, a preset of as many days  *)
(* as the buffer lists those that are expiring, no other, and leaves out   *)
(* only those of archived employees.                                       *)
PresetIsExpiring ==
  \A i \in DOMAIN requests :
    /\ requests[i].call.op = "expiring"
    /\ requests[i].call.filter = DefaultFilter
    => PresetIsStatusRule

(* No record is overwritten with the fields of another one: an update goes *)
(* to the record its form was filled from, even when a late answer of an   *)
(* edit button that was pressed before has changed the form's record.      *)
UpdateOwn ==
  \A i \in DOMAIN requests :
    requests[i].call.op = "update" =>
      requests[i].call.origin = requests[i].call.id

(* The archive dialog stands for as long as its request is under way, and  *)
(* names the record the request archives; there is one request at most.    *)
ArchiveOwn ==
  \A i, j \in DOMAIN requests :
    requests[i].call.op = "archive" =>
      /\ recs.archiveBusy /\ recs.archiveTarget = requests[i].call.id
      /\ requests[j].call.op = "archive" => i = j

(* A page has one renewal under way at most, though its form can be closed *)
(* and opened again for another record meanwhile: what keeps a double      *)
(* renewal from being a matter of two clicks.                              *)
SingleRenew ==
  \A i, j \in DOMAIN requests :
    (requests[i].call.op = "renew" /\ requests[j].call.op = "renew") => i = j

(* Whoever has no token ends up on the sign-in page: signed out, refused   *)
(* by the API, on whichever page and whatever else is clicked meanwhile.   *)
LoggedOutLeaves == token = "none" ~> page = "login"

(* Once the user pauses, every spinner stops, every button can be pressed  *)
(* again, and nothing is under way, whichever requests failed, came late   *)
(* or answered to a form that was closed.                                  *)
Quiet ==
  /\ requests = <<>> /\ going = Nowhere /\ ~signingIn
  /\ page = "dashboard" => ~dash.metricsLoading /\ ~dash.expiringLoading
  /\ page = "records" => /\ ~recs.loading
                         /\ ~recs.formSubmitting /\ ~recs.renewSubmitting
                         /\ ~recs.archiveBusy

SettlesDown == <>[][~User]_vars => <>[]Quiet
=============================================================================
