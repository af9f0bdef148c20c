----------------------------- MODULE AuditFeed -----------------------------
(***************************************************************************)
(* The request log and the admin dashboard that follows it: the rows that  *)
(* instances append to and administrators and the maintenance job delete    *)
(* (audit.service.ts, cron.service.ts), the two queries the dashboard polls *)
(* (audit.controller.ts, audit-stats.ts), and the page itself              *)
(* (Dashboard.tsx): its table, filters, cards, selection and deletions.    *)
(*                                                                         *)
(* An entry is named by its place in the order of created_at.  It is       *)
(* stamped before it is written, so rows may appear in another order.      *)
(* Times of day are left out: an entry has the date of its creation, as a  *)
(* count of days, and today is the same date throughout.                   *)
(***************************************************************************)
EXTENDS Integers, FiniteSets, FiniteSetsExt

CONSTANTS Log,           \* what each entry that may be written holds
          Today, DaysPerMonth, MonthsPerYear,   \* the calendar
          Limit,         \* the newest entries a query of the table returns
          FullEvery,     \* ticks between full refreshes
          PageSizes,
          Ranges, Backends, Statuses, ApiKeys,  \* what the filter bar offers
          Days, Months, Years, Searches,
          MaxFaults,     \* bound: calls of the page that fail
          MaxChoices     \* bound: filters chosen one after another

ASSUME CalendarAssumption ==
    DaysPerMonth \in Nat \ {0} /\ MonthsPerYear \in Nat \ {0} /\ Today \in Nat
ASSUME LogAssumption ==
    /\ Cardinality(DOMAIN Log) \in Nat /\ DOMAIN Log = 1..Cardinality(DOMAIN Log)
    /\ \A e \in DOMAIN Log : Log[e].date \in Nat /\ Log[e].status \in Nat
ASSUME ChoicesAssumption ==
    /\ Ranges \subseteq {"all", "today", "week", "month", "custom"}
    /\ PageSizes \subseteq Nat \ {0}

VARIABLES log,           \* entries in audit_logs
          writing,       \* entries stamped but not written yet
          stamped,       \* how many there have been
          entries,       \* entriesRef: the entries the page has loaded
          live,
          sinceFull,     \* ticks since lastFullRefreshAtRef
          fetch,         \* fetchingRef: the call for entries, if any
          filter,        \* the filters chosen
          statsTimer,    \* the timer that loads the stats of a new query
          call,          \* the latest call for stats; only its answer counts
          statsState,    \* the totals shown, with their query
          pageSize, currentPage,
          selectedIds,
          deletion,      \* the deletions in progress, of one entry and of several
          faults, choices

logVars == <<log, writing, stamped>>
tableVars == <<entries, live, sinceFull, fetch>>
statsVars == <<statsTimer, call, statsState>>
viewVars == <<filter, choices, pageSize, currentPage>>
feedVars == <<logVars, tableVars, statsVars, viewVars, selectedIds, deletion, faults>>

Entries == DOMAIN Log
Newest(S) == {e \in S : Cardinality({x \in S : x > e}) < Limit}

None == [pc |-> "none"]

-----------------------------------------------------------------------------
\* The calendar, as both the browser and the database compute it.

DayOf(d) == d % DaysPerMonth
MonthOf(d) == (d \div DaysPerMonth) % MonthsPerYear
YearOf(d) == d \div (DaysPerMonth * MonthsPerYear)
MonthStart == DaysPerMonth * (Today \div DaysPerMonth)

-----------------------------------------------------------------------------
\* Filters: "", "all" and Any choose nothing.

Any == -1
NoFilter == [range |-> "all", day |-> Any, month |-> Any, year |-> Any,
             backend |-> "", status |-> "", key |-> "", fallback |-> FALSE,
             slow |-> FALSE, search |-> ""]

\* filteredEntries: the browser's filter.
Shows(f, e) ==
    LET x == Log[e]
    IN /\ f.search # "" => f.search = x.path
       /\ f.backend # "" => x.backend = f.backend
       /\ f.key # "" => x.key = f.key
       /\ f.fallback => x.fallback
       /\ f.slow => x.ms >= 1000
       /\ f.status = "2xx" => x.status >= 200 /\ x.status < 300
       /\ f.status = "4xx" => x.status >= 400 /\ x.status < 500
       /\ f.status = "5xx" => x.status >= 500 /\ x.status < 600
       /\ f.range = "today" => /\ DayOf(x.date) = DayOf(Today)
                               /\ MonthOf(x.date) = MonthOf(Today)
                               /\ YearOf(x.date) = YearOf(Today)
       /\ f.range = "week" => x.date >= Today - 7
       /\ f.range = "month" => /\ MonthOf(x.date) = MonthOf(Today)
                               /\ YearOf(x.date) = YearOf(Today)
       /\ f.range = "custom" => /\ f.day = Any \/ f.day = DayOf(x.date)
                                /\ f.month = Any \/ f.month = MonthOf(x.date)
                                /\ f.year = Any \/ f.year = YearOf(x.date)

\* statsQuery: the day, month and year count only with a custom range.
StatsQuery(f) ==
    IF f.range = "custom" THEN f
    ELSE [f EXCEPT !.day = Any, !.month = Any, !.year = Any]

\* Mutant: the month is the last thirty days, whatever the calendar says.
StatsWhereRolling(q, e) ==
    LET x == Log[e]
    IN /\ q.backend # "" => x.backend = q.backend
       /\ q.status = "2xx" => x.status \in 200..299
       /\ q.status = "4xx" => x.status \in 400..499
       /\ q.status = "5xx" => x.status \in 500..599
       /\ q.fallback => x.fallback
       /\ q.slow => x.ms >= 1000
       /\ q.key # "" => x.key = q.key
       /\ q.search # "" => q.search = x.path
       /\ \/ q.range = "all"
          \/ /\ q.range = "custom"
             /\ q.day \in {Any, DayOf(x.date)}
             /\ q.month \in {Any, MonthOf(x.date)}
             /\ q.year \in {Any, YearOf(x.date)}
          \/ q.range = "today" /\ x.date >= Today /\ x.date < Today + 1
          \/ q.range = "week" /\ x.date >= Today - 168 \div 24
          \/ q.range = "month" /\ x.date > Today - DaysPerMonth

\* parseStatsFilter() and buildStatsWhere(): the database's filter.
StatsWhere(q, e) ==
    LET x == Log[e]
    IN /\ q.backend # "" => x.backend = q.backend
       /\ q.status = "2xx" => x.status \in 200..299
       /\ q.status = "4xx" => x.status \in 400..499
       /\ q.status = "5xx" => x.status \in 500..599
       /\ q.fallback => x.fallback
       /\ q.slow => x.ms >= 1000
       /\ q.key # "" => x.key = q.key
       /\ q.search # "" => q.search = x.path
       /\ \/ q.range = "all"
          \/ /\ q.range = "custom"
             /\ q.day \in {Any, DayOf(x.date)}
             /\ q.month \in {Any, MonthOf(x.date)}
             /\ q.year \in {Any, YearOf(x.date)}
          \/ q.range = "today" /\ x.date >= Today /\ x.date < Today + 1
          \/ q.range = "week" /\ x.date >= Today - 168 \div 24
          \/ /\ q.range = "month"
             /\ x.date >= MonthStart /\ x.date < MonthStart + DaysPerMonth

\* round() of avg(), which is half up for what is not negative
Average(S) ==
    LET n == Cardinality(S)
        ms == MapThenSumSet(LAMBDA e : Log[e].ms, S)
    IN IF n = 0 THEN 0 ELSE (2 * ms + n) \div (2 * n)

Count(P(_), S) == Cardinality({e \in S : P(Log[e])})

\* useAuditMetrics(), and statsQuery() of audit-stats.ts with statsToMetrics()
Metrics(S) ==
    [total |-> Cardinality(S),
     selfHosted |-> Count(LAMBDA x : x.backend = "self-hosted", S),
     cloud |-> Count(LAMBDA x : x.backend = "cloud", S),
     fallbacks |-> Count(LAMBDA x : x.fallback, S),
     success |-> Count(LAMBDA x : x.status \in 200..299, S),
     errors |-> Count(LAMBDA x : x.status >= 400, S),
     average |-> Average(S)]

StatsOf(q, L) == Metrics({e \in L : StatsWhere(q, e)})

-----------------------------------------------------------------------------
\* What the page derives from its state.

FilteredEntries == {e \in entries : Shows(filter, e)}

\* Mutant: the page number is taken as it is.
VisiblePageUnclamped == currentPage

PageCount == Max({1, (Cardinality(FilteredEntries) + pageSize - 1) \div pageSize})

VisiblePage == Min({currentPage, PageCount})

PageStart == (VisiblePage - 1) * pageSize
PaginatedEntries ==
    {e \in FilteredEntries :
        LET above == Cardinality({x \in FilteredEntries : x > e})
        IN above >= PageStart /\ above < PageStart + pageSize}
AllVisibleSelected == PaginatedEntries # {} /\ PaginatedEntries \subseteq selectedIds

CurrentStats == statsState # None /\ statsState.query = StatsQuery(filter)
Cards == IF CurrentStats THEN statsState.data ELSE Metrics(FilteredEntries)

LogInit ==
    /\ \E n \in 0..Cardinality(Entries) : log = 1..n /\ stamped = n
    /\ writing = {}
TableInit ==
    /\ entries = {} /\ live = TRUE /\ sinceFull = FullEvery
    /\ fetch = [pc |-> "sent", full |-> TRUE, since |-> 0]
StatsInit ==
    /\ statsTimer = TRUE
    /\ call = None
    /\ statsState = None
PageInit == pageSize \in PageSizes /\ currentPage = 1 /\ choices = 0
DeletionInit ==
    /\ selectedIds = {}
    /\ deletion = [c \in {"entry", "bulk"} |-> None]
    /\ faults = 0

FeedInit ==
    LogInit /\ TableInit /\ StatsInit /\ filter = NoFilter /\ PageInit /\ DeletionInit

Fault == faults < MaxFaults /\ faults' = faults + 1

-----------------------------------------------------------------------------
\* The log.

\* appendAuditEntry() stamps the entry, appendAudit() writes it.
Stamp ==
    /\ stamped + 1 \in Entries
    /\ stamped' = stamped + 1
    /\ writing' = writing \cup {stamped + 1}
    /\ UNCHANGED <<log, tableVars, statsVars, viewVars, selectedIds, deletion, faults>>

\* A write that fails is reported on the console and given up.
Write(e) ==
    /\ e \in writing
    /\ writing' = writing \ {e}
    /\ log' \in {log, log \cup {e}}
    /\ UNCHANGED <<stamped, tableVars, statsVars, viewVars, selectedIds, deletion, faults>>

\* Another administrator, or pruneOldAuditLogs(), oldest first.
DeletedElsewhere ==
    /\ \E e \in log : log' = log \ {e}
    /\ UNCHANGED <<writing, stamped, tableVars, statsVars, viewVars, selectedIds, deletion,
                   faults>>

-----------------------------------------------------------------------------
\* loadStats()

\* A call in progress is superseded: its answer or failure is ignored.
LoadStats == call' = [pc |-> "sent", query |-> StatsQuery(filter)]

StatsTimerFires ==
    /\ statsTimer
    /\ statsTimer' = FALSE
    /\ LoadStats
    /\ UNCHANGED <<statsState, logVars, tableVars, viewVars, selectedIds, deletion, faults>>

\* readAuditStats().  `of' is a history: the log that was read.
ServeStats ==
    /\ call.pc = "sent"
    /\ call' = [pc |-> "served", query |-> call.query, of |-> log,
                data |-> StatsOf(call.query, log)]
    /\ UNCHANGED <<statsTimer, statsState, logVars, tableVars, viewVars, selectedIds,
                   deletion, faults>>

StatsArrive ==
    /\ call.pc = "served"
    /\ call' = None
    /\ statsState' = [call EXCEPT !.pc = "shown"]
    /\ UNCHANGED <<statsTimer, logVars, tableVars, viewVars, selectedIds, deletion, faults>>

StatsFail ==
    /\ call # None
    /\ Fault
    /\ call' = None
    /\ statsState' = None
    /\ UNCHANGED <<statsTimer, logVars, tableVars, viewVars, selectedIds, deletion>>

-----------------------------------------------------------------------------
\* fetchData(): one call at a time; another is skipped, not queued.

FetchData(full) ==
    fetch' = IF fetch # None THEN fetch
             ELSE [pc |-> "sent", full |-> full,
                   since |-> IF full \/ entries = {} THEN 0 ELSE Max(entries)]

\* Mutant: a live page only ever asks for what is new.
TickIncremental ==
    /\ sinceFull' = IF sinceFull < FullEvery THEN sinceFull + 1 ELSE sinceFull
    /\ IF live THEN FetchData(FALSE) ELSE UNCHANGED fetch
    /\ UNCHANGED <<entries, live, logVars, statsVars, viewVars, selectedIds, deletion, faults>>

\* Five seconds pass; a live page that is visible asks for what is new, or for
\* everything when it has not done so for a minute.
Tick ==
    /\ sinceFull' = IF sinceFull < FullEvery THEN sinceFull + 1 ELSE sinceFull
    /\ IF live THEN FetchData(sinceFull' = FullEvery) ELSE UNCHANGED fetch
    /\ UNCHANGED <<entries, live, logVars, statsVars, viewVars, selectedIds, deletion, faults>>

\* The key "r", and the effect that runs again when live updates are switched.
Refresh(newLive) ==
    /\ live' = newLive
    /\ FetchData(TRUE)
    /\ UNCHANGED <<entries, sinceFull, logVars, statsVars, viewVars, selectedIds, deletion,
                   faults>>

\* readAuditEntries(): the cursor is inclusive.
ServeData ==
    /\ fetch.pc = "sent"
    /\ fetch' = [pc |-> "served", full |-> fetch.full,
                 rows |-> Newest({e \in log : e >= fetch.since})]
    /\ UNCHANGED <<entries, live, sinceFull, logVars, statsVars, viewVars, selectedIds,
                   deletion, faults>>

\* replaceEntries() or mergeEntries(); totals are loaded again after a full
\* refresh or for entries that are new.
DataArrives ==
    /\ fetch.pc = "served"
    /\ entries' = IF fetch.full THEN fetch.rows ELSE Newest(entries \cup fetch.rows)
    /\ sinceFull' = IF fetch.full THEN 0 ELSE sinceFull
    /\ fetch' = None
    /\ IF fetch.full \/ ~(fetch.rows \subseteq entries) THEN LoadStats ELSE UNCHANGED call
    /\ UNCHANGED <<live, logVars, statsTimer, statsState, viewVars, selectedIds, deletion,
                   faults>>

DataFails ==
    /\ fetch # None
    /\ Fault
    /\ fetch' = None
    /\ UNCHANGED <<entries, live, sinceFull, logVars, statsVars, viewVars, selectedIds,
                   deletion>>

-----------------------------------------------------------------------------
\* The filter bar, the chips of active filters, the saved views.

Choose(f, page) ==
    /\ <<f, page>> # <<filter, currentPage>>
    /\ choices < MaxChoices /\ choices' = choices + 1
    /\ filter' = f
    /\ currentPage' = page
    /\ statsTimer' = (statsTimer \/ StatsQuery(f) # StatsQuery(filter))
    /\ UNCHANGED <<call, statsState, pageSize, logVars, tableVars, selectedIds, deletion,
                   faults>>

ChooseRange == \E r \in Ranges : Choose([filter EXCEPT !.range = r], 1)
ChooseDate ==
    /\ filter.range = "custom"
    /\ \/ \E d \in Days \cup {Any} : Choose([filter EXCEPT !.day = d], 1)
       \/ \E m \in Months \cup {Any} : Choose([filter EXCEPT !.month = m], 1)
       \/ \E y \in Years \cup {Any} : Choose([filter EXCEPT !.year = y], 1)

\* "Fallback" stands beside the backends, and chosen again it clears itself.
ChooseBackend ==
    \/ \E b \in Backends \cup {""} :
          Choose([filter EXCEPT !.backend = b, !.fallback = FALSE], 1)
    \/ Choose([filter EXCEPT !.fallback = ~@, !.backend = ""], 1)

ChooseStatus == \E s \in Statuses \cup {""} : Choose([filter EXCEPT !.status = s], 1)
ChooseKey == \E k \in ApiKeys \cup {""} : Choose([filter EXCEPT !.key = k], 1)
Search == \E s \in Searches \cup {""} : Choose([filter EXCEPT !.search = s], 1)

\* A chip clears one filter and leaves the page number alone.
ClearChip ==
    \E c \in DOMAIN filter :
        /\ filter[c] # NoFilter[c]
        /\ c \in {"day", "month", "year"} => filter.range = "custom"
        /\ Choose([filter EXCEPT ![c] = NoFilter[c]], currentPage)

SavedView ==
    \E view \in {[NoFilter EXCEPT !.status = "5xx"], [NoFilter EXCEPT !.fallback = TRUE],
                 [NoFilter EXCEPT !.slow = TRUE]} :
        "today" \in Ranges /\ Choose([view EXCEPT !.range = "today"], 1)

ClearAllFilters == Choose(NoFilter, 1)

ChooseFilter ==
    \/ ChooseRange \/ ChooseDate \/ ChooseBackend \/ ChooseStatus \/ ChooseKey
    \/ Search \/ ClearChip \/ SavedView \/ ClearAllFilters

\* RequestHistoryTable
TurnPage(size, page) ==
    /\ pageSize' = size /\ currentPage' = page
    /\ UNCHANGED <<filter, choices, logVars, tableVars, statsVars, selectedIds, deletion, faults>>
PreviousPage == VisiblePage > 1 /\ TurnPage(pageSize, VisiblePage - 1)
NextPage == VisiblePage < PageCount /\ TurnPage(pageSize, VisiblePage + 1)
ChoosePageSize == \E size \in PageSizes : size # pageSize /\ TurnPage(size, 1)

-----------------------------------------------------------------------------
\* Selecting and deleting.

Select(S) ==
    /\ selectedIds' = S
    /\ UNCHANGED <<logVars, tableVars, statsVars, viewVars, deletion, faults>>
ToggleEntry == \E e \in PaginatedEntries :
    Select(IF e \in selectedIds THEN selectedIds \ {e} ELSE selectedIds \cup {e})
ToggleVisible ==
    /\ PaginatedEntries # {}
    /\ Select(IF AllVisibleSelected THEN selectedIds \ PaginatedEntries
              ELSE selectedIds \cup PaginatedEntries)

\* `forget': the entries no longer selected once it is done; the whole selection,
\* except after the deletion of one entry.  The dialogs that delete several are
\* disabled while one of them works.  Bound: one entry at a time is deleted alone.
Delete(c, ids, forget) ==
    /\ deletion[c] = None
    /\ deletion' = [deletion EXCEPT ![c] = [pc |-> "sent", ids |-> ids, forget |-> forget]]
    /\ UNCHANGED <<logVars, tableVars, statsVars, viewVars, selectedIds, faults>>

DeleteEntry == \E e \in FilteredEntries : Delete("entry", {e}, {e})
DeleteSelected == selectedIds # {} /\ Delete("bulk", selectedIds, Entries)
\* deleteAuditEntries(): from the first day of the range on
DeleteHistory ==
    \E first \in {Today, Today - 7, MonthStart, 0} :
        Delete("bulk", {e \in Entries : Log[e].date >= first}, Entries)

ServeDeletion(c) ==
    /\ deletion[c].pc = "sent"
    /\ log' = log \ deletion[c].ids
    /\ deletion' = [deletion EXCEPT ![c].pc = "served"]
    /\ UNCHANGED <<writing, stamped, tableVars, statsVars, viewVars, selectedIds, faults>>

DeletionArrives(c) ==
    /\ deletion[c].pc = "served"
    /\ selectedIds' = selectedIds \ deletion[c].forget
    /\ deletion' = [deletion EXCEPT ![c] = None]
    /\ FetchData(TRUE)
    /\ UNCHANGED <<entries, live, sinceFull, logVars, statsVars, viewVars, faults>>

\* Also for an entry that is gone already, with 404.
DeletionFails(c) ==
    /\ deletion[c] # None
    /\ Fault
    /\ deletion' = [deletion EXCEPT ![c] = None]
    /\ UNCHANGED <<logVars, tableVars, statsVars, viewVars, selectedIds>>

-----------------------------------------------------------------------------
LogStep == Stamp \/ DeletedElsewhere \/ \E e \in Entries : Write(e)
StatsStep == StatsTimerFires \/ ServeStats \/ StatsArrive \/ StatsFail
TableStep ==
    \/ Tick \/ ServeData \/ DataArrives \/ DataFails
    \/ \E b \in BOOLEAN : Refresh(b)
PageStep == PreviousPage \/ NextPage \/ ChoosePageSize
SelectStep == ToggleEntry \/ ToggleVisible \/ DeleteSelected
DeletionStep ==
    \/ DeleteEntry \/ DeleteHistory
    \/ \E c \in {"entry", "bulk"} :
          ServeDeletion(c) \/ DeletionArrives(c) \/ DeletionFails(c)

FeedNext ==
    \/ LogStep \/ StatsStep \/ TableStep
    \/ ChooseFilter \/ PageStep \/ SelectStep \/ DeletionStep

\* The interval timer runs, timers fire, and calls are answered; those for totals,
\* sooner or later, before the next one is made.
FeedFairness ==
    /\ WF_feedVars(Tick)
    /\ WF_feedVars(ServeData) /\ WF_feedVars(DataArrives)
    /\ WF_feedVars(StatsTimerFires)
    /\ WF_feedVars(ServeStats) /\ SF_feedVars(StatsArrive)

FeedSpec == FeedInit /\ [][FeedNext]_feedVars /\ FeedFairness

-----------------------------------------------------------------------------
\* Properties.

\* Totals from the server are shown only under the filters they were computed
\* for, and count exactly the entries of the log that the table's own filter
\* would show: neither a late answer nor a filter that the database reads
\* differently ever labels other entries' totals.
CardsMatchFilters ==
    CurrentStats =>
        statsState.data = Metrics({e \in statsState.of : Shows(filter, e)})

\* As long as an entry matches the filters, the page shows rows, however many
\* entries were deleted and whichever filters were chosen on a later page.
PageHasRows == FilteredEntries # {} => PaginatedEntries # {}

\* A dashboard that stays live comes to show the newest entries of the log and
\* its totals, and nothing that was deleted, although rows are written in another
\* order than they are stamped in, deletions elsewhere are not announced, and a
\* refresh asked for while a call is in progress is skipped.
DashboardConverges ==
    <>[](live /\ writing = {})
      => <>[](/\ entries = Newest(log)
              /\ Cards = StatsOf(StatsQuery(filter), log))
=============================================================================
