------------------------------ MODULE SyncRuns ------------------------------
(***************************************************************************)
(* Imports of repository history.  One run per workspace, kept in a row    *)
(* that another replica may take over after an hour (workspace-store.ts,   *)
(* startSync and finishSync); it goes on in the background (runSync and    *)
(* backfill in workspace-app.ts), reads GitHub's lists per repository      *)
(* (github-app.ts, backfill) and marks how far each was imported, so that  *)
(* the next run reads only what is newer.                                  *)
(***************************************************************************)
EXTENDS Integers, FiniteSets

CONSTANTS
  Workspace,       \* workspaces that read the same installation
  Repository,      \* its repositories
  Happening,       \* things that happen on GitHub and that an import should find
  Run, NoRun,      \* run identities, all distinct
  Overlap,         \* SYNC_OVERLAP: how much a resumed import reads again
  Window,          \* how far back an import goes (30 days)
  EndOfTime        \* bound: the clock

ASSUME SyncAssumption ==
  /\ NoRun \notin Run
  /\ Overlap \in Nat /\ Window \in Nat /\ EndOfTime \in Nat

VARIABLES
  clock,      \* the database clock
  happened,   \* when each thing happened, in which repository, and if GitHub lists it
  stored,     \* what has been merged into the feed
  mark,       \* ship_live_repository_sync
  syncRun,    \* ship_live_sync_runs, one row per workspace
  import,     \* what each run is doing in the process that started it
  outcome     \* history: which run recorded the outcome a row shows

syncVars == <<clock, happened, stored, mark, syncRun, import, outcome>>

-----------------------------------------------------------------------------
Time    == 0 .. EndOfTime
Never   == [at |-> -1]
NoMark  == -1
NoSync  == [id |-> NoRun, status |-> "none", overdue |-> FALSE]
Ended   == [is |-> "over"]

\* A batch: what is left, what was read and not stored yet, what is stored and not marked.
Batch ==
  [is : {"import"}, workspace : Workspace, startedAt : Time \cup {NoMark},
   since : [Repository -> Time \cup {NoMark}], todo : SUBSET Repository,
   read : [Repository -> SUBSET Happening], unmarked : SUBSET Repository, fatal : BOOLEAN]

SyncTypeOK ==
  /\ clock \in Time
  /\ happened \in [Happening -> [at : Time, in : Repository, listed : BOOLEAN] \cup {Never}]
  /\ stored \in SUBSET Happening
  /\ mark \in [Repository -> Time \cup {NoMark}]
  /\ syncRun \in [Workspace -> [id : Run \cup {NoRun}, overdue : BOOLEAN,
                                status : {"none", "running", "succeeded", "failed"}]]
  /\ import \in [Run -> Batch \cup {[is |-> "unused"], Ended}]
  /\ outcome \in [Workspace -> Run \cup {NoRun}]

SyncInit ==
  /\ clock = 0
  /\ happened = [h \in Happening |-> Never]
  /\ stored = {}
  /\ mark = [r \in Repository |-> NoMark]
  /\ syncRun = [w \in Workspace |-> NoSync]
  /\ import = [i \in Run |-> [is |-> "unused"]]
  /\ outcome = [w \in Workspace |-> NoRun]

-----------------------------------------------------------------------------
(* GitHub: what happens may be listed late, though no later than the overlap allows. *)

Happens(h, r) ==
  /\ happened[h] = Never
  /\ \E b \in BOOLEAN :
       happened' = [happened EXCEPT ![h] = [at |-> clock, in |-> r, listed |-> b]]
  /\ UNCHANGED <<clock, stored, mark, syncRun, import, outcome>>

Listed(h) == happened[h] # Never /\ happened[h].listed

Appears(h) ==
  /\ happened[h] # Never /\ ~Listed(h)
  /\ happened' = [happened EXCEPT ![h].listed = TRUE]
  /\ UNCHANGED <<clock, stored, mark, syncRun, import, outcome>>

Tick ==
  /\ clock < EndOfTime
  /\ \A h \in Happening : happened[h] # Never /\ ~Listed(h) => clock < happened[h].at + Overlap
  /\ clock' = clock + 1
  /\ UNCHANGED <<happened, stored, mark, syncRun, import, outcome>>

-----------------------------------------------------------------------------
(* The run's row. *)

\* startSync; the run that is replaced goes on until it notices nothing.
Start(w, i) ==
  /\ import[i] = [is |-> "unused"]
  /\ syncRun[w].status # "running" \/ syncRun[w].overdue
  /\ syncRun' = [syncRun EXCEPT ![w] = [id |-> i, status |-> "running", overdue |-> FALSE]]
  /\ import' = [import EXCEPT ![i] =
       [is |-> "import", workspace |-> w, startedAt |-> NoMark,
        since |-> [r \in Repository |-> NoMark], todo |-> Repository,
        read |-> [r \in Repository |-> {}], unmarked |-> {}, fatal |-> FALSE]]
  /\ outcome' = [outcome EXCEPT ![w] = NoRun]
  /\ UNCHANGED <<clock, happened, stored, mark>>

BecomesOverdue(w) ==
  /\ syncRun[w].status = "running" /\ ~syncRun[w].overdue
  /\ syncRun' = [syncRun EXCEPT ![w].overdue = TRUE]
  /\ UNCHANGED <<clock, happened, stored, mark, import, outcome>>

AnyRun(w, i)  == syncRun[w].status = "running"
Current(w, i) == syncRun[w].id = i /\ syncRun[w].status = "running"

\* finishSync.
Finish(i, w, status) ==
  /\ IF Current(w, i)
     THEN /\ syncRun' = [syncRun EXCEPT ![w].status = status, ![w].overdue = FALSE]
          /\ outcome' = [outcome EXCEPT ![w] = i]
     ELSE UNCHANGED <<syncRun, outcome>>
  /\ import' = [import EXCEPT ![i] = Ended]
  /\ UNCHANGED <<clock, happened, stored, mark>>

Importing(i) == import[i].is = "import"
Begun(i)     == Importing(i) /\ import[i].startedAt # NoMark

\* Every repository had its turn, or one could not be stored.
Settle(i) ==
  /\ Begun(i) /\ import[i].unmarked = {}
  /\ import[i].todo = {} \/ import[i].fatal
  /\ Finish(i, import[i].workspace, IF import[i].fatal THEN "failed" ELSE "succeeded")

\* Access or the session is gone, or GitHub gives no token.
Denied(i) ==
  /\ Importing(i)
  /\ Finish(i, import[i].workspace, "failed")

\* The process ends; its row stays running.
Dies(i) ==
  /\ Importing(i)
  /\ import' = [import EXCEPT ![i] = Ended]
  /\ UNCHANGED <<clock, happened, stored, mark, syncRun, outcome>>

-----------------------------------------------------------------------------
(* The import. *)

\* The batch takes the time from the database before it reads the marks.
TakeClock(i) ==
  /\ Importing(i) /\ ~Begun(i)
  /\ import' = [import EXCEPT ![i].startedAt = clock, ![i].since = mark]
  /\ UNCHANGED <<clock, happened, stored, mark, syncRun, outcome>>

Larger(a, b)  == IF a > b THEN a ELSE b
Smaller(a, b) == IF a < b THEN a ELSE b

NoOverlap(i, r) ==
  Larger(import[i].startedAt - Window, Smaller(import[i].since[r], import[i].startedAt) + 1)

Cutoff(i, r) ==
  LET oldest == import[i].startedAt - Window IN
  IF import[i].since[r] = NoMark THEN oldest
  ELSE Larger(oldest, Smaller(import[i].since[r], import[i].startedAt) - Overlap)

\* recentRepository keeps what lies between the cutoff and the start of the batch.
ReadRepository(i, r) ==
  /\ Begun(i) /\ r \in import[i].todo /\ ~import[i].fatal
  /\ import' = [import EXCEPT
       ![i].todo = @ \ {r},
       ![i].unmarked = @ \cup {r},
       ![i].read[r] = {h \in Happening : /\ Listed(h) /\ happened[h].in = r
                                         /\ Cutoff(i, r) <= happened[h].at
                                         /\ happened[h].at <= import[i].startedAt}]
  /\ UNCHANGED <<clock, happened, stored, mark, syncRun, outcome>>

\* GitHub refuses one repository: it is counted as failed and keeps its mark; any other
\* failure ends the run.
SkipRepository(i, r) ==
  /\ Begun(i) /\ r \in import[i].todo /\ ~import[i].fatal
  /\ \E unknown \in BOOLEAN :
       import' = [import EXCEPT ![i].todo = @ \ {r}, ![i].fatal = unknown]
  /\ UNCHANGED <<clock, happened, stored, mark, syncRun, outcome>>

\* merge: what one repository's read found, in one transaction.
StoreRepository(i, r) ==
  /\ Begun(i) /\ r \in import[i].unmarked
  /\ import[i].read[r] # {}
  /\ stored' = stored \cup import[i].read[r]
  /\ import' = [import EXCEPT ![i].read[r] = {}]
  /\ UNCHANGED <<clock, happened, mark, syncRun, outcome>>

Overwritten(r, at) == at
MarkAt(r, at) == Larger(mark[r], at)

Incomplete(i, r) == r \in import[i].unmarked
Complete(i, r)   == r \in import[i].unmarked /\ import[i].read[r] = {}

MarkRepository(i, r) ==
  /\ Begun(i) /\ Complete(i, r)
  /\ mark' = [mark EXCEPT ![r] = MarkAt(r, import[i].startedAt)]
  /\ import' = [import EXCEPT ![i].unmarked = @ \ {r}]
  /\ UNCHANGED <<clock, happened, stored, syncRun, outcome>>

\* Storing or marking fails, or the session is gone: nothing more is begun, and the run
\* fails once the repositories at work are done.
StopsShort(i, r) ==
  /\ Begun(i) /\ r \in import[i].unmarked
  /\ import' = [import EXCEPT ![i].unmarked = @ \ {r}, ![i].read[r] = {}, ![i].fatal = TRUE]
  /\ UNCHANGED <<clock, happened, stored, mark, syncRun, outcome>>

-----------------------------------------------------------------------------
SyncNext ==
  \/ Tick
  \/ \E h \in Happening : Appears(h) \/ \E r \in Repository : Happens(h, r)
  \/ \E w \in Workspace : BecomesOverdue(w) \/ \E i \in Run : Start(w, i)
  \/ \E i \in Run :
       \/ TakeClock(i) \/ Settle(i) \/ Denied(i) \/ Dies(i)
       \/ \E r \in Repository :
            \/ ReadRepository(i, r) \/ SkipRepository(i, r) \/ StoreRepository(i, r)
            \/ MarkRepository(i, r) \/ StopsShort(i, r)

SyncSpec == SyncInit /\ [][SyncNext]_syncVars

-----------------------------------------------------------------------------
(* Properties. *)

\* A mark says what it is for: all that happened in the window before it has been
\* imported, except what GitHub may still have been about to list.  Runs that overlap,
\* fail half-way or finish out of order do not leave a gap behind a mark.
MarksCover ==
  \A r \in Repository, h \in Happening :
    (/\ mark[r] # NoMark /\ happened[h] # Never /\ happened[h].in = r
     /\ mark[r] - Window <= happened[h].at /\ happened[h].at < mark[r] - Overlap)
    => h \in stored

\* The outcome a workspace shows is the one its present run recorded, whatever a run
\* that was taken over reports later.
OutcomeIsOwn ==
  \A w \in Workspace : syncRun[w].status \in {"succeeded", "failed"} =>
                         outcome[w] = syncRun[w].id

\* Marks only move forward.
MarksForward == [][\A r \in Repository : mark'[r] >= mark[r]]_syncVars

\* What imports leave behind.
ImportsSafe == [](MarksCover /\ OutcomeIsOwn) /\ MarksForward
=============================================================================
