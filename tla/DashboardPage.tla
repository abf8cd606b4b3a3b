---------------------------- MODULE DashboardPage ---------------------------
(***************************************************************************)
(* The dashboard (frontend/src/routes/+page.svelte, with its filter and    *)
(* table).                                                                 *)
(*                                                                         *)
(* The page has two independent loads, each numbered: an answer that is    *)
(* not the latest of its kind is thrown away.  The model keeps of the      *)
(* numbers whether a request is the latest, and of an answer which choice  *)
(* of the user it answers; DashboardQueries says what it contains.         *)
(***************************************************************************)
EXTENDS ApiClient

CONSTANTS
  Breakdowns,  \* the breakdowns one can tick: by department, by type
  Filters,     \* windows of the expiring list: presets and custom ranges
  Offsets      \* bound: pages of the expiring list, counted from 0

ASSUME DashboardConstantsOK ==
  /\ Breakdowns \subseteq {"department", "type"}
  /\ Filters # {}
  /\ Offsets \subseteq Nat /\ 0 \in Offsets

VARIABLE dash   \* the page's $state

(* metrics, shown: the choice that the numbers and rows on screen answer.  *)
NoMetrics    == {"none"}
NothingShown == [filter |-> "none", offset |-> 0]

DashInit(preset) ==
  [metrics |-> NoMetrics, ticked |-> {},
   metricsLoading |-> TRUE, metricsError |-> FALSE,
   filter |-> preset, offset |-> 0, shown |-> NothingShown,
   expiringLoading |-> TRUE, expiringError |-> FALSE]

DashTypeOK ==
  dash \in [metrics : {NoMetrics} \union SUBSET Breakdowns,
            ticked : SUBSET Breakdowns,
            metricsLoading : BOOLEAN, metricsError : BOOLEAN,
            filter : Filters, offset : Offsets,
            shown : [filter : Filters \union {"none"}, offset : Offsets],
            expiringLoading : BOOLEAN, expiringError : BOOLEAN]

Metrics(ticked) == [op |-> "metrics", ticked |-> ticked, latest |-> TRUE]

Expiring(filter, offset) ==
  [op |-> "expiring", filter |-> filter, offset |-> offset, latest |-> TRUE]

(* onMount starts both loads.                                              *)
DashCalls(preset) ==
  <<Metrics({}), Expiring(preset, 0)>>

(* ++metricsRequestId, ++expiringRequestId: the others are late now.       *)
Outdated(op) ==
  [i \in DOMAIN requests |->
     IF Waiting(i, op) THEN [requests[i] EXCEPT !.call.latest = FALSE]
     ELSE requests[i]]

Load(op, call, state) ==
  /\ page = "dashboard"
  /\ Room(1)
  /\ requests' = Append(Outdated(op), Request(page, call))
  /\ dash' = state
  /\ UNCHANGED sessionVars

loadMetrics(ticked) ==
  Load("metrics", Metrics(ticked),
       [dash EXCEPT !.ticked = ticked, !.metricsLoading = TRUE,
                    !.metricsError = FALSE])

loadExpiring(filter, offset) ==
  Load("expiring", Expiring(filter, offset),
       [dash EXCEPT !.filter = filter, !.offset = offset,
                    !.expiringLoading = TRUE, !.expiringError = FALSE])

(* The checkboxes are on screen once there are metrics.                    *)
handleBreakdownChange(b) ==
  /\ dash.metrics # NoMetrics
  /\ loadMetrics(IF b \in dash.ticked THEN dash.ticked \ {b}
                  ELSE dash.ticked \union {b})

retryMetrics == dash.metricsError /\ loadMetrics(dash.ticked)

handleFilterChange(filter) ==
  /\ ~(filter = dash.filter /\ dash.offset = 0)
  /\ loadExpiring(filter, 0)

(* Previous and Next are disabled while the list is loading; whether there *)
(* is a next page is the answer's to say.                                  *)
CanTurnPage(offset) ==
  ~dash.expiringLoading /\ offset \in {dash.offset - 1, dash.offset + 1}

handlePageChange(offset) ==
  /\ CanTurnPage(offset)
  /\ loadExpiring(dash.filter, offset)

retryExpiring == dash.expiringError /\ loadExpiring(dash.filter, dash.offset)

(* Mutant: whatever answer comes last stays on screen.                     *)
metricsAnsweredAnyway(i) ==
  LET call == requests[i].call
  IN /\ Answered(i, "metrics")
     /\ dash' = [dash EXCEPT !.metrics = call.ticked,
                             !.metricsLoading = FALSE]
     /\ Done(i)
     /\ UNCHANGED sessionVars

metricsAnswered(i) ==
  LET call == requests[i].call
  IN /\ Answered(i, "metrics")
     /\ dash' = IF ~call.latest THEN dash
                ELSE [dash EXCEPT !.metrics = call.ticked,
                                  !.metricsLoading = FALSE]
     /\ Done(i)
     /\ UNCHANGED sessionVars

metricsFailed(i) ==
  /\ Failed(i, "metrics")
  /\ dash' = IF ~requests[i].call.latest THEN dash
             ELSE [dash EXCEPT !.metricsError = TRUE, !.metricsLoading = FALSE]
  /\ Done(i)
  /\ UNCHANGED sessionVars

(* Mutant: the answer names the page that follows.                         *)
expiringAnsweredNext(i) ==
  LET call == requests[i].call
  IN /\ Answered(i, "expiring")
     /\ dash' = IF ~call.latest THEN dash
                ELSE [dash EXCEPT !.shown = [filter |-> call.filter,
                                             offset |-> call.offset + 1],
                                  !.offset = call.offset + 1,
                                  !.expiringLoading = FALSE]
     /\ Done(i)
     /\ UNCHANGED sessionVars

(* The answer repeats the window and the offset it was asked for.          *)
expiringAnswered(i) ==
  LET call == requests[i].call
  IN /\ Answered(i, "expiring")
     /\ dash' = IF ~call.latest THEN dash
                ELSE [dash EXCEPT !.shown = [filter |-> call.filter,
                                             offset |-> call.offset],
                                  !.offset = call.offset,
                                  !.expiringLoading = FALSE]
     /\ Done(i)
     /\ UNCHANGED sessionVars

(* Mutant: the error is shown, the spinner goes on.                        *)
expiringFailedLoading(i) ==
  /\ Failed(i, "expiring")
  /\ dash' = IF ~requests[i].call.latest THEN dash
             ELSE [dash EXCEPT !.expiringError = TRUE]
  /\ Done(i)
  /\ UNCHANGED sessionVars

expiringFailed(i) ==
  /\ Failed(i, "expiring")
  /\ dash' = IF ~requests[i].call.latest THEN dash
             ELSE [dash EXCEPT !.expiringError = TRUE,
                               !.expiringLoading = FALSE]
  /\ Done(i)
  /\ UNCHANGED sessionVars
=============================================================================
