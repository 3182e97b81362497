------------------------------ MODULE PulsePages ------------------------------
(***************************************************************************)
(* Pulse in one tab: the activity of a period, page by page, with its      *)
(* access verified again on every revision of the feed                     *)
(* (PulseHistoryFeed.tsx), the numbers of the period (usePulse.ts,         *)
(* usePulseDashboard.ts), and the routes that answer both (workspace-app,  *)
(* pulse-store.ts), which look at the access before and after reading.     *)
(***************************************************************************)
EXTENDS Integers, Sequences, FiniteSets

CONSTANTS
  Past,          \* stored events: numbers, ordered as their ids are
  PastAt,        \* when each of them occurred
  PastIn,        \* the repository of each
  PageSize,      \* events on a page (100)
  BoardKey,      \* scope and period of the numbers shown
  LongAgo,       \* those of periods that end before today
  MaxMoves       \* bound: changes of the access and of the stored events

ASSUME PulseAssumption ==
  /\ Past \subseteq Nat /\ IsFiniteSet(Past) /\ PastAt \in [Past -> Nat]
  /\ PageSize \in Nat \ {0} /\ MaxMoves \in Nat
  /\ LongAgo \subseteq BoardKey

VARIABLES
  onFile,        \* events stored
  mayRead,       \* repositories the reader may see
  moves,
  news,          \* revisions of the feed: the number seen by the page
  history,       \* HistoryPage's state
  view,          \* the page on screen: the activity, the overview or the dashboard
  board,         \* usePulseOverview's or usePulseDashboard's state
  asks,          \* the request under way of a load, a check and a board
  confirmed      \* checks that passed: the scope of the rows shown and what may be read

pulseVars == <<onFile, mayRead, moves, news, history, view, board, asks, confirmed>>

-----------------------------------------------------------------------------
InRepos == {PastIn[e] : e \in Past}

NoAsk == [at |-> "none"]
NoPage == [is |-> "none"]
NoPosition == [is |-> "none"]

\* PulseStore's Cursor: the binding and the last row of the page.
Position == {NoPosition} \cup [after : Past, binding : SUBSET InRepos]

\* base: the events stored when the first page was read that have not gone since.
Rows == {NoPage} \cup [is : {"page"}, rows : Seq(Past), next : Position, base : SUBSET Past]

Asks ==
  {NoAsk} \cup [at : {"timer", "sent", "read", "answer"}, cursor : Position,
                scope : SUBSET InRepos, page : Rows, key : BoardKey, news : Nat]

PulseTypeOK ==
  /\ onFile \subseteq Past /\ mayRead \subseteq InRepos
  /\ moves \in 0 .. MaxMoves /\ news \in 0 .. MaxMoves
  /\ history \in [rows : Seq(Past), of : SUBSET (SUBSET InRepos), base : SUBSET Past,
                  next : Position, first : Position, loaded : BOOLEAN, loading : BOOLEAN,
                  failed : BOOLEAN]
  /\ view \in {"history", "overview", "dashboard"}
  /\ board.key \in BoardKey /\ board.asked \in BoardKey
  /\ board.data = NoPage \/ board.data \in [key : BoardKey, news : Nat]
  /\ asks \in [{"load", "check", "board"} -> Asks]
  /\ confirmed \subseteq (SUBSET (SUBSET InRepos)) \X (SUBSET InRepos)

Ask(cursor) ==
  [at |-> "sent", cursor |-> cursor, scope |-> {}, page |-> NoPage, key |-> board.key,
   news |-> news]

BoardAsk(key) == [Ask(NoPosition) EXCEPT !.at = "timer", !.key = key]

PulseInit ==
  /\ onFile \in SUBSET Past /\ mayRead = InRepos
  /\ moves = 0 /\ news = 0
  /\ view \in {"history", "overview", "dashboard"}
  /\ history = [rows |-> <<>>, of |-> {}, base |-> {}, next |-> NoPosition,
                first |-> NoPosition, loaded |-> FALSE, loading |-> view = "history",
                failed |-> FALSE]
  /\ \E k \in BoardKey : board = [key |-> k, asked |-> k, data |-> NoPage]
  /\ asks = [a \in {"load", "check", "board"} |->
               IF view = "history"
               THEN IF a = "load" THEN Ask(NoPosition) ELSE NoAsk
               ELSE IF a = "board" THEN BoardAsk(board.key) ELSE NoAsk]
  /\ confirmed = {}

-----------------------------------------------------------------------------
(* The events and the access change. *)

PulseMove == moves < MaxMoves /\ moves' = moves + 1

\* A webhook or an import stores an event, of any time.
FileEvent(e) ==
  /\ PulseMove
  /\ e \notin onFile /\ onFile' = onFile \cup {e}
  /\ UNCHANGED <<mayRead, news, history, view, board, asks, confirmed>>

Forget(p, e) == IF p.is = "none" THEN p ELSE [p EXCEPT !.base = @ \ {e}]

\* Retention, or a repository's removal.
DropEvent(e) ==
  /\ PulseMove
  /\ e \in onFile /\ onFile' = onFile \ {e}
  /\ history' = [history EXCEPT !.base = @ \ {e}]
  /\ asks' = [a \in DOMAIN asks |-> IF asks[a] = NoAsk THEN NoAsk
                                    ELSE [asks[a] EXCEPT !.page = Forget(@, e)]]
  /\ UNCHANGED <<mayRead, news, view, board, confirmed>>

ReaderScope(S) ==
  /\ PulseMove
  /\ S # mayRead /\ mayRead' = S
  /\ UNCHANGED <<onFile, news, history, view, board, asks, confirmed>>

-----------------------------------------------------------------------------
(* The routes. *)

\* (occurred_at, event_id), newest first.
NewerThan(e, f) == PastAt[e] > PastAt[f] \/ (PastAt[e] = PastAt[f] /\ e > f)

PastCursor(e, f) == NewerThan(f, e)

\* A query's rows, in that order.
Listings(S) ==
  {s \in [1 .. Cardinality(S) -> S] :
     /\ \A e \in S : \E i \in DOMAIN s : s[i] = e
     /\ \A i, j \in DOMAIN s : i < j => NewerThan(s[i], s[j])}

Rest(scope, cursor) ==
  {e \in onFile : PastIn[e] \in scope /\ (cursor # NoPosition => PastCursor(e, cursor.after))}

\* activity: one row more than a page tells whether there is a next one.
PageOf(all, scope) ==
  LET rows == SubSeq(all, 1, IF Len(all) > PageSize THEN PageSize ELSE Len(all))
  IN [is |-> "page", rows |-> rows, base |-> onFile,
      next |-> IF Len(all) > PageSize
               THEN [after |-> rows[PageSize], binding |-> scope] ELSE NoPosition]

\* A cursor goes on only with the scope it was made for.
CursorFits(cursor, scope) == cursor = NoPosition \/ cursor.binding = scope

ReadScopeOf(a) ==
  /\ asks[a].at = "sent"
  /\ asks' = [asks EXCEPT ![a].at = "read", ![a].scope = mayRead]
  /\ UNCHANGED <<onFile, mayRead, moves, news, history, view, board, confirmed>>

ReadRowsOf(a) ==
  /\ asks[a].at = "read"
  /\ \E page \in IF a # "board" /\ CursorFits(asks[a].cursor, asks[a].scope)
                THEN {PageOf(all, asks[a].scope) :
                        all \in Listings(Rest(asks[a].scope, asks[a].cursor))}
                ELSE {NoPage} :
       asks' = [asks EXCEPT ![a].at = "answer", ![a].page = page]
  /\ UNCHANGED <<onFile, mayRead, moves, news, history, view, board, confirmed>>

\* samePulseReadScope: the scope again after the rows were read.
StillReads(ask) == ask.scope = mayRead

\* An answer may be lost.
Succeeds(a) == asks[a].at = "answer" /\ StillReads(asks[a])
Fails(a) == asks[a].at \in {"sent", "answer"}

-----------------------------------------------------------------------------
(* HistoryPage. *)

FirstPage(h, p, of) ==
  [h EXCEPT !.rows = p.rows, !.of = {of}, !.base = p.base, !.next = p.next, !.first = p.next]

LoadAnswered ==
  /\ Succeeds("load") /\ asks["load"].page # NoPage
  /\ LET p    == asks["load"].page
         done == [history EXCEPT !.loaded = TRUE, !.loading = FALSE]
     IN history' = IF asks["load"].cursor = NoPosition
                   THEN FirstPage(done, p, asks["load"].scope)
                   ELSE [done EXCEPT !.rows = @ \o p.rows, !.next = p.next,
                                     !.of = @ \cup {asks["load"].scope}]
  /\ asks' = [asks EXCEPT !["load"] = NoAsk]
  /\ UNCHANGED <<onFile, mayRead, moves, news, view, board, confirmed>>

Cleared(h) ==
  [h EXCEPT !.rows = <<>>, !.of = {}, !.base = {}, !.next = NoPosition, !.loading = FALSE,
            !.failed = TRUE]

LoadFails ==
  /\ Fails("load")
  /\ history' = Cleared(history)
  /\ asks' = [asks EXCEPT !["load"] = NoAsk]
  /\ UNCHANGED <<onFile, mayRead, moves, news, view, board, confirmed>>

LoadMore ==
  /\ history.next # NoPosition /\ ~history.loading /\ ~history.failed
  /\ history' = [history EXCEPT !.loading = TRUE]
  /\ asks' = [asks EXCEPT !["load"] = Ask(history.next)]
  /\ UNCHANGED <<onFile, mayRead, moves, news, view, board, confirmed>>

\* Both effects run again: the load and the check under way are aborted.
TryAgain ==
  /\ history.failed
  /\ history' = [history EXCEPT !.loaded = FALSE, !.first = NoPosition, !.loading = TRUE,
                                !.failed = FALSE]
  /\ asks' = [asks EXCEPT !["load"] = Ask(NoPosition), !["check"] = NoAsk]
  /\ UNCHANGED <<onFile, mayRead, moves, news, view, board, confirmed>>

CheckAnswered ==
  /\ Succeeds("check") /\ asks["check"].page # NoPage
  /\ history' = IF asks["check"].cursor = NoPosition
                THEN FirstPage(history, asks["check"].page, asks["check"].scope)
                ELSE history
  /\ asks' = [asks EXCEPT !["check"] = NoAsk]
  /\ confirmed' = IF history'.failed THEN confirmed
                  ELSE confirmed \cup {<<history'.of, mayRead>>}
  /\ UNCHANGED <<onFile, mayRead, moves, news, view, board>>

CheckFails ==
  /\ Fails("check")
  /\ history' = Cleared(history)
  /\ asks' = [asks EXCEPT !["load"] = NoAsk, !["check"] = NoAsk]
  /\ UNCHANGED <<onFile, mayRead, moves, news, view, board, confirmed>>

-----------------------------------------------------------------------------
(* The numbers of the period, and a revision of the feed, which both hear. *)

\* What is asked again after 150 ms: data of another key goes, an overview's always.
Refetching(key) ==
  [board EXCEPT !.key = key, !.asked = key,
                !.data = IF view = "dashboard" /\ board.asked = key THEN @ ELSE NoPage]

SelectPeriod(k) ==
  /\ PulseMove
  /\ view # "history" /\ k # board.key
  /\ board' = Refetching(k)
  /\ asks' = [asks EXCEPT !["board"] = BoardAsk(k)]
  /\ UNCHANGED <<onFile, mayRead, news, history, view, confirmed>>

TimerEnds ==
  /\ asks["board"].at = "timer"
  /\ asks' = [asks EXCEPT !["board"].at = "sent"]
  /\ UNCHANGED <<onFile, mayRead, moves, news, history, view, board, confirmed>>

BoardAnswered ==
  /\ \/ Succeeds("board")
        /\ board' = [board EXCEPT !.asked = asks["board"].key,
                       !.data = [key |-> asks["board"].key, news |-> asks["board"].news]]
     \/ Fails("board") /\ board' = [board EXCEPT !.data = NoPage]
  /\ asks' = [asks EXCEPT !["board"] = NoAsk]
  /\ UNCHANGED <<onFile, mayRead, moves, news, history, view, confirmed>>

\* The dashboard keeps its numbers while it asks again, but does not ask again
\* for a past period.
AsksAgain == view = "overview" \/ (view = "dashboard" /\ board.key \notin LongAgo)

\* The rows are checked with the cursor of their first page, if they are there.
Revision ==
  /\ news < MaxMoves /\ news' = news + 1
  /\ board' = IF AsksAgain THEN Refetching(board.key) ELSE board
  /\ asks' = [asks EXCEPT
       !["board"] = IF AsksAgain THEN [BoardAsk(board.key) EXCEPT !.news = news + 1] ELSE @,
       !["check"] = IF history.loaded THEN Ask(history.first) ELSE NoAsk]
  /\ UNCHANGED <<onFile, mayRead, moves, history, view, confirmed>>

PulseNext ==
  \/ \E e \in Past : FileEvent(e) \/ DropEvent(e)
  \/ \E S \in SUBSET InRepos : ReaderScope(S)
  \/ \E a \in DOMAIN asks : ReadScopeOf(a) \/ ReadRowsOf(a)
  \/ LoadAnswered \/ LoadFails \/ LoadMore \/ TryAgain
  \/ CheckAnswered \/ CheckFails
  \/ \E k \in BoardKey : SelectPeriod(k)
  \/ TimerEnds \/ BoardAnswered \/ Revision

PulseSpec == PulseInit /\ [][PulseNext]_pulseVars

-----------------------------------------------------------------------------
(* The pages followed list, in order and without repeating one, every      *)
(* event that was there when the first was read and has not gone, as far   *)
(* as they go, and all come from one scope: the one that may be read       *)
(* whenever a check has passed.  The numbers shown are those of the period *)
(* on screen and of the newest revision answered.                          *)
(* (pulse-store.ts activity; PulseHistoryFeed.tsx; usePulse.ts)            *)
PulseSafe ==
  /\ \A i, j \in DOMAIN history.rows : i < j => NewerThan(history.rows[i], history.rows[j])
  /\ Cardinality(history.of) <= 1
  /\ \A S \in history.of : \A e \in history.base :
       PastIn[e] \in S =>
         \/ \E i \in DOMAIN history.rows : history.rows[i] = e
         \/ history.next # NoPosition /\ NewerThan(history.next.after, e)
  /\ \A c \in confirmed : c[1] = {c[2]}
  /\ board.asked = board.key /\ board.data # NoPage =>
       /\ board.data.key = board.key
       /\ asks["board"] = NoAsk /\ AsksAgain => board.data.news = news

-----------------------------------------------------------------------------
(***************************************************************************)
(* The numbers of a period, computed twice: in the browser one event after *)
(* the other (shared/pulse.ts aggregatePulse) and in the database by sets  *)
(* (pulse-store.ts overview).  Times are days; day 0 is a Monday.          *)
(***************************************************************************)

CONSTANTS
  SumDays,       \* days on which events occur
  SumIds,        \* ids of events; several organizations may store one
  SumOrgs,       \* organizations, numbered in the order of their names
  SumRepos,      \* repositories, numbered in the order of their names
  MaxSumRows,    \* bound: stored events
  DailyUpTo      \* the longest period shown by days (31)

ASSUME SumAssumption ==
  /\ SumDays \subseteq Nat /\ SumRepos \subseteq Nat /\ SumOrgs \subseteq Nat
  /\ MaxSumRows \in Nat /\ DailyUpTo \in Nat \ {0}

VARIABLES period, today, input, unread, canonical, tallied, sums

sumVars == <<period, today, input, unread, canonical, tallied, sums>>

-----------------------------------------------------------------------------
\* human: neither a note, an alert, a bot nor without an actor.
SumRow == [id : SumIds, org : SumOrgs, at : SumDays, repo : SumRepos, human : BOOLEAN]

\* The primary key of ship_live_events.
Keyed(rows) ==
  \A i, j \in DOMAIN rows : rows[i].id = rows[j].id /\ rows[i].org = rows[j].org => i = j

Period == {p \in [from : SumDays, to : SumDays] : p.from <= p.to}

Daily(p) == p.to - p.from + 1 <= DailyUpTo

\* previousPulseRange
Previous(p) == [from |-> 2 * p.from - p.to - 1, to |-> p.from - 1]

Within(d, p) == p.from <= d /\ d <= p.to

NextBucket(p, start) == IF Daily(p) THEN start + 1 ELSE start + 7 - (start % 7)

\* pulseBuckets: days, or weeks cut to the period.
BucketStarts(p) ==
  {p.from} \cup {d \in p.from .. p.to : Daily(p) \/ d % 7 = 0}

BucketOf(p, d) ==
  CHOOSE start \in BucketStarts(p) : start <= d /\ d < NextBucket(p, start)

Zero == [total |-> 0, previous |-> 0, earliest |-> -1,
         bucket |-> [d \in BucketStarts(period) |-> 0], repo |-> [r \in SumRepos |-> 0]]

SumTypeOK ==
  /\ period \in Period /\ today \in SumDays
  /\ input \in Seq(SumRow) /\ unread \in Seq(SumRow)
  /\ canonical \subseteq SumRow /\ tallied \subseteq canonical
  /\ DOMAIN sums.bucket = BucketStarts(period) /\ DOMAIN sums.repo = SumRepos

SumInit ==
  /\ period \in Period /\ today \in {d \in SumDays : d >= period.to}
  /\ input \in UNION {[1 .. n -> SumRow] : n \in 0 .. MaxSumRows} /\ Keyed(input)
  /\ unread = input
  /\ canonical = {}
  /\ tallied = {}
  /\ sums = Zero

-----------------------------------------------------------------------------
(* aggregatePulse *)

\* Events of the browser have no organization.
Replaces(row, old) == row.at > old.at \/ (row.at = old.at /\ row.repo < old.repo)

\* The newest row of each id, whatever the order in which they come.
ReadRow ==
  /\ unread # <<>> /\ unread' = Tail(unread)
  /\ LET row == Head(unread)
         old == {o \in canonical : o.id = row.id}
     IN canonical' = IF row.human /\ \A o \in old : Replaces(row, o)
                     THEN (canonical \ old) \cup {row} ELSE canonical
  /\ UNCHANGED <<period, today, input, tallied, sums>>

CountRow(row) ==
  /\ unread = <<>>
  /\ row \in canonical \ tallied /\ tallied' = tallied \cup {row}
  /\ sums' =
       IF row.at > today THEN sums
       ELSE LET seen == [sums EXCEPT !.earliest = IF @ = -1 \/ row.at < @ THEN row.at ELSE @]
            IN CASE Within(row.at, Previous(period)) -> [seen EXCEPT !.previous = @ + 1]
                 [] Within(row.at, period) ->
                      [seen EXCEPT !.total = @ + 1, !.repo[row.repo] = @ + 1,
                                   !.bucket[BucketOf(period, row.at)] = @ + 1]
                 [] OTHER -> seen
  /\ UNCHANGED <<period, today, input, unread, canonical>>

SumNext == ReadRow \/ \E row \in SumRow : CountRow(row)

SumSpec == SumInit /\ [][SumNext]_sumVars

-----------------------------------------------------------------------------
(* The database: distinct rows first, then the periods, then the groups. *)

Stored == {input[i] : i \in DOMAIN input}

Precedes(q, r) == q.at > r.at \/ (q.at = r.at /\ q.org < r.org)

Distinct ==
  {r \in Stored : r.human /\ \A q \in Stored : q.id = r.id /\ q.human => ~Precedes(q, r)}

UpToNow(p) == {r \in Distinct : Within(r.at, p) /\ r.at <= today}

\* date_trunc, moved to the start of the period.
Truncated(d) ==
  LET start == IF Daily(period) THEN d ELSE d - (d % 7)
  IN IF start < period.from THEN period.from ELSE start

\* Where two rows of one event have one time, both tell the same.
NoTies ==
  \A q, r \in Stored :
    q.human /\ r.human /\ q.id = r.id /\ q.at = r.at => q.repo = r.repo

(***************************************************************************)
(* Both give the same totals, of this period and the one before it, the    *)
(* same buckets and earliest event, however often and in whatever order an *)
(* event is stored and though each picks one of its rows in a way of its   *)
(* own; the same counts of repositories unless two rows of one time differ *)
(* in theirs; and the buckets share out the days of the period.            *)
(* (shared/pulse.ts aggregatePulse; pulse-store.ts overview)               *)
(***************************************************************************)
SumsSafe ==
  unread = <<>> /\ tallied = canonical =>
    /\ sums.total = Cardinality(UpToNow(period))
    /\ sums.previous = Cardinality(UpToNow(Previous(period)))
    /\ sums.earliest = IF {r \in Distinct : r.at <= today} = {} THEN -1
                       ELSE CHOOSE d \in SumDays :
                              /\ \E r \in Distinct : r.at = d
                              /\ \A r \in Distinct : d <= r.at
    /\ \A start \in BucketStarts(period) :
         sums.bucket[start] = Cardinality({e \in UpToNow(period) : Truncated(e.at) = start})
    /\ NoTies => \A r \in SumRepos :
         sums.repo[r] = Cardinality({e \in UpToNow(period) : e.repo = r})
    /\ \A d \in period.from .. period.to :
         Cardinality({b \in BucketStarts(period) : b <= d /\ d < NextBucket(period, b)}) = 1
=============================================================================
