------------------------------ MODULE Weekly ------------------------------
(***************************************************************************)
(* Weekly digests of one workspace (digest.ts, webhook-worker.ts           *)
(* enrichDigest): polls queue one per completed UTC week by a schedule in  *)
(* local time, whose offset changes once; a worker builds one from what    *)
(* its webhook may read, query by query, and looks again before it sends   *)
(* it.  Below them the weekly recap.                                       *)
(***************************************************************************)
EXTENDS Integers, FiniteSets, Sequences

CONSTANTS
  WeekTicks,     \* ticks of a week
  FirstTick,     \* tick at which the service starts
  LastTick,      \* bound: the clock
  Offsets,       \* time zones of schedules, in ticks from UTC
  Shift,         \* the tick at which offsets change; 0: never
  MaxSettings    \* bound: changes of the schedule and the webhook

ASSUME DigestAssumption ==
  /\ {WeekTicks, FirstTick} \subseteq Nat \ {0} /\ {LastTick, Shift, MaxSettings} \subseteq Nat
  /\ Offsets \subseteq Int /\ FirstTick >= 2 * WeekTicks /\ FirstTick <= LastTick

VARIABLES
  dtick,
  schedule,     \* ship_live_digest_schedules, and by how much its offset changes
  listening,    \* when the webhook for weekly digests was created and whether it is on, or none is
  digested,     \* ship_live_digest_runs: completed weeks queued, with when they were due
  changes,
  polled,       \* this tick had a poll
  steady        \* every tick had one, and nothing but the time has changed

digestVars == <<dtick, schedule, listening, digested, changes, polled, steady>>

-----------------------------------------------------------------------------
NotListening == [is |-> "none"]

Schedules == [slot : 0 .. (WeekTicks - 1), offset : Offsets, change : {-1, 0, 1}]

DigestTypeOK ==
  /\ dtick \in FirstTick .. LastTick
  /\ schedule \in Schedules
  /\ listening = NotListening \/ listening \in [since : 0 .. LastTick, on : BOOLEAN]
  /\ digested \subseteq [week : Int, due : Int, at : Int, since : Int]
  /\ changes \in 0 .. MaxSettings
  /\ {polled, steady} \subseteq BOOLEAN

Listens == listening # NotListening /\ listening.on

DigestInit ==
  /\ dtick = FirstTick
  /\ schedule \in Schedules
  /\ \/ listening = NotListening
     \/ \E on \in BOOLEAN : listening = [since |-> 0, on |-> on]
  /\ digested = {}
  /\ changes = 0
  /\ polled = FALSE
  /\ steady = Listens

-----------------------------------------------------------------------------
(* Local time. *)

OffsetAt(t) ==
  schedule.offset + (IF Shift > 0 /\ t >= Shift THEN schedule.change ELSE 0)

\* PostgreSQL takes the later of two times and moves one that does not exist forward.
ToUTC(l) ==
  LET before == l - schedule.offset
      after  == l - schedule.offset - schedule.change
  IN IF Shift > 0 /\ after >= Shift THEN after ELSE before

LocalWeek(t) == WeekTicks * ((t + OffsetAt(t)) \div WeekTicks)

\* This local week's time and the one before it.
Candidates(t) ==
  {ToUTC(LocalWeek(t) - back * WeekTicks + schedule.slot) : back \in {0, 1}}

MaxOf(S) == CHOOSE x \in S : \A y \in S : y <= x

\* The week that was complete at a time.
WeekBefore(t) == t \div WeekTicks - 1

WeekOf(t) == t \div WeekTicks

CompletedWeek(t) == WeekBefore(t)

-----------------------------------------------------------------------------
DTick ==
  /\ dtick < LastTick /\ dtick' = dtick + 1
  /\ polled' = FALSE
  /\ steady' = (steady /\ polled)
  /\ UNCHANGED <<schedule, listening, digested, changes>>

\* scheduleDigests: the latest time due, for a webhook that existed then, once per week.
ScheduleDigests ==
  LET due  == {t \in Candidates(dtick) : t <= dtick}
      at   == MaxOf(due)
      week == CompletedWeek(at)
  IN /\ ~polled /\ polled' = TRUE
     /\ IF /\ due # {} /\ Listens
           /\ listening.since <= at
           /\ \A r \in digested : r.week # week
        THEN digested' = digested \cup
               {[week |-> week, due |-> at, at |-> dtick, since |-> listening.since]}
        ELSE UNCHANGED digested
     /\ UNCHANGED <<dtick, schedule, listening, changes, steady>>

Change == changes < MaxSettings /\ changes' = changes + 1 /\ steady' = FALSE

SaveSchedule(s) ==
  /\ Change
  /\ s # schedule /\ s.change = schedule.change /\ schedule' = s
  /\ UNCHANGED <<dtick, listening, digested, polled>>

\* Created, turned off or on again, or deleted: created_at stays what it was.
SetWebhook ==
  /\ Change
  /\ \/ listening = NotListening /\ listening' = [since |-> dtick, on |-> TRUE]
     \/ listening # NotListening /\ listening' = [listening EXCEPT !.on = ~listening.on]
     \/ listening # NotListening /\ listening' = NotListening
  /\ UNCHANGED <<dtick, schedule, digested, polled>>

DigestNext ==
  \/ DTick \/ ScheduleDigests
  \/ \E s \in Schedules : SaveSchedule(s)
  \/ SetWebhook

DigestSpec == DigestInit /\ [][DigestNext]_digestVars

-----------------------------------------------------------------------------
(* A digest is queued only for a week that was over, in UTC, when it was   *)
(* due, by a webhook that existed then, whatever the time zone and however *)
(* the schedule changes, once per week; and while offsets do not fall and  *)
(* nothing but the time changes no week is passed over.                    *)
(* (digest.ts scheduleDigests)                                             *)
DigestsSafe ==
  /\ \A r \in digested :
       /\ (r.week + 1) * WeekTicks <= r.due /\ r.since <= r.due /\ r.due <= r.at
       /\ \A q \in digested : q.week = r.week => q = r
  /\ schedule.change >= 0 /\ steady =>
       \A r, q \in digested : \A w \in r.week .. q.week : \E p \in digested : p.week = w

-----------------------------------------------------------------------------
(***************************************************************************)
(* One digest that is built and sent (performDelivery, enrichDigest and    *)
(* prepareDigest): what the webhook has pinned, its owner's membership and *)
(* repositories and the workspace's sources are read one after the other,  *)
(* before the summary and again after it.  performDelivery's own check of  *)
(* the event is in WebhookDelivery.                                        *)
(***************************************************************************)
CONSTANTS
  Reposed,         \* repositories
  SourceKey, NoKey,  \* what readScope may answer; NoKey: not read yet
  MaxScopeMoves    \* bound: changes of what is read

ASSUME DigestSendAssumption == MaxScopeMoves \in Nat /\ NoKey \notin SourceKey

VARIABLES
  pinned,       \* of the webhook: its repositories, and whether it is on
  member,       \* the owner is a member and the installation active
  granted,      \* the owner's repositories
  sources,      \* of the workspace
  scopeMoves,
  building,     \* a claimed digest
  since,        \* history: what each was since the summary was read
  sent          \* the last digest sent, with that history

sendVars == <<pinned, member, granted, sources, scopeMoves, building, since, sent>>
readVars == <<pinned, member, granted, sources, scopeMoves>>

-----------------------------------------------------------------------------
NotBuilding == [at |-> "none"]
NotSent == [was |-> "none"]

Pinned == [repos : SUBSET Reposed, on : BOOLEAN]

\* at: what is done next.
Building ==
  [at : {"active", "granted", "sources", "summary",
         "hookAgain", "activeAgain", "grantedAgain", "sourcesAgain", "send"},
   pins : SUBSET Reposed, repos : SUBSET Reposed, key : SourceKey \cup {NoKey}]

Since ==
  [pins : SUBSET SUBSET Reposed, member : BOOLEAN, granted : SUBSET SUBSET Reposed,
   keys : SUBSET SourceKey]

DigestSendTypeOK ==
  /\ pinned \in Pinned /\ member \in BOOLEAN /\ granted \subseteq Reposed
  /\ sources \in SourceKey /\ scopeMoves \in 0 .. MaxScopeMoves
  /\ building = NotBuilding \/ building \in Building
  /\ since \in Since
  /\ sent = NotSent \/ sent \in [repos : SUBSET Reposed, key : SourceKey, was : Since]

Never == [pins |-> {}, member |-> FALSE, granted |-> {}, keys |-> {}]

DigestSendInit ==
  /\ \E pins \in SUBSET Reposed : pinned = [repos |-> pins, on |-> TRUE]
  /\ member = TRUE
  /\ granted = Reposed
  /\ sources \in SourceKey
  /\ scopeMoves = 0
  /\ building = NotBuilding
  /\ since = Never
  /\ sent = NotSent

\* What is so now, and a history with it.
Now ==
  [pins |-> IF pinned.on THEN {pinned.repos} ELSE {}, member |-> member,
   granted |-> {granted}, keys |-> {sources}]

With(was, now) ==
  [pins |-> was.pins \cup now.pins, member |-> was.member \/ now.member,
   granted |-> was.granted \cup now.granted, keys |-> was.keys \cup now.keys]

SummaryRead ==
  building # NotBuilding /\ building.at \notin {"active", "granted", "sources", "summary"}

\* The webhook, the membership, the repositories or the sources change.
ReadableMoves ==
  /\ scopeMoves < MaxScopeMoves /\ scopeMoves' = scopeMoves + 1
  /\ \/ pinned' \in Pinned \ {pinned} /\ UNCHANGED <<member, granted, sources>>
     \/ member' = ~member /\ UNCHANGED <<pinned, granted, sources>>
     \/ granted' \in (SUBSET Reposed) \ {granted} /\ UNCHANGED <<pinned, member, sources>>
     \/ sources' \in SourceKey \ {sources} /\ UNCHANGED <<pinned, member, granted>>
  /\ since' = IF SummaryRead THEN With(since, Now') ELSE since
  /\ UNCHANGED <<building, sent>>

-----------------------------------------------------------------------------
\* claimDeliveries reads the webhook's row.
ClaimDigest ==
  /\ building = NotBuilding /\ pinned.on
  /\ building' = [at |-> "active", pins |-> pinned.repos, repos |-> {}, key |-> NoKey]
  /\ UNCHANGED <<readVars, since, sent>>

\* Prepared again after a while, or failed for good.
GiveUp == building' = NotBuilding /\ since' = Never

DigestFails == building # NotBuilding /\ GiveUp /\ UNCHANGED <<readVars, sent>>

\* access: the workspace and the installation first.
ReadActive ==
  /\ building # NotBuilding /\ building.at = "active" /\ member
  /\ building' = [building EXCEPT !.at = "granted"]
  /\ UNCHANGED <<readVars, since, sent>>

ReadGranted ==
  /\ building # NotBuilding /\ building.at = "granted"
  /\ building' = [building EXCEPT !.at = "sources", !.repos = building.pins \cap granted]
  /\ UNCHANGED <<readVars, since, sent>>

ReadScope ==
  /\ building # NotBuilding /\ building.at = "sources"
  /\ building' = [building EXCEPT !.at = "summary", !.key = sources]
  /\ UNCHANGED <<readVars, since, sent>>

ReadSummary ==
  /\ building # NotBuilding /\ building.at = "summary"
  /\ building' = [building EXCEPT !.at = "hookAgain"]
  /\ since' = Now
  /\ UNCHANGED <<readVars, sent>>

\* The row, the access and the sources again; anything else than before ends it.
Again(at, same, next) ==
  /\ building # NotBuilding /\ building.at = at
  /\ \/ same /\ building' = next /\ UNCHANGED since
     \/ ~same /\ GiveUp
  /\ UNCHANGED <<readVars, sent>>

HookAgain ==
  Again("hookAgain", pinned.on, [building EXCEPT !.at = "activeAgain", !.pins = pinned.repos])

ActiveAgain == Again("activeAgain", member, [building EXCEPT !.at = "grantedAgain"])

GrantedAgain ==
  Again("grantedAgain", building.pins \cap granted = building.repos,
        [building EXCEPT !.at = "sourcesAgain"])

SameSources(key) == key = sources

SourcesAgain == Again("sourcesAgain", SameSources(building.key), [building EXCEPT !.at = "send"])

SendDigest ==
  /\ building # NotBuilding /\ building.at = "send" /\ GiveUp
  /\ sent' = [repos |-> building.repos, key |-> building.key, was |-> since]
  /\ UNCHANGED readVars

DigestSendNext ==
  \/ ReadableMoves \/ ClaimDigest \/ DigestFails
  \/ ReadActive \/ ReadGranted \/ ReadScope \/ ReadSummary
  \/ HookAgain \/ ActiveAgain \/ GrantedAgain \/ SourcesAgain \/ SendDigest

DigestSendSpec == DigestSendInit /\ [][DigestSendNext]_sendVars

-----------------------------------------------------------------------------
(* What is sent is of exactly the repositories pinned and granted and of   *)
(* the sources chosen, as each of these was at some moment after the       *)
(* summary was read; access may be lost between the last look and sending. *)
(* (webhook-worker.ts enrichDigest, performDelivery; digest.ts)            *)
DigestSendsSafe ==
  sent # NotSent =>
    /\ sent.was.member /\ sent.key \in sent.was.keys
    /\ \E pins \in sent.was.pins, may \in sent.was.granted : sent.repos = pins \cap may

-----------------------------------------------------------------------------
(***************************************************************************)
(* The weekly recap: its page (RecapPage.tsx, useRecap.ts) and its routes  *)
(* (recap-app.ts).  The viewer function reads the reader's access query by *)
(* query; a recap looks again after reading, and each save in turn looks   *)
(* again before it writes and before it commits.                           *)
(***************************************************************************)
CONSTANTS
  RecapWeek,     \* completed weeks
  Words, NoWords,  \* reflections; NoWords: none is stored
  Queries,       \* queries the viewer function makes
  Answers, NoAnswer,  \* what each may answer; NoAnswer: no access
  MaxScopes,     \* bound: changes of the access
  MaxEdits       \* bound: edits of a reflection and moves to another week

ASSUME RecapAssumption ==
  /\ NoWords \notin Words /\ NoAnswer \notin Answers
  /\ {Queries, MaxScopes, MaxEdits} \subseteq Nat

VARIABLES
  scope,       \* what each query would answer now
  scopes,
  notes,       \* ship_live_recap_notes of this reader
  week,        \* of the page
  recap,       \* useRecap's state and RecapContent's
  load,        \* the request for the recap
  asking,      \* PUT reflection, whose viewer function has not answered yet (a set: two that
               \* were left and agree in everything are one)
  noteSaves,   \* the others, in the order in which the router takes them
  edits,
  apart,       \* weeks with a save whose outcome the page does not know
  heldRead,    \* history: queries that answered as at first at some moment since the note was read
  heldSave,    \* history: and since the first save wrote
  committed    \* history: those of the saves committed, and of the recaps shown

recapVars == <<scope, scopes, notes, week, recap, load, asking, noteSaves, edits, apart,
               heldRead, heldSave, committed>>

-----------------------------------------------------------------------------
Text == Words \cup {NoWords}

\* The viewer function asks one after the other.
Query == 1 .. Queries
Scope == [Query -> Answers \cup {NoAnswer}]
Unasked == [q \in Query |-> NoAnswer]

NotLoading == [at |-> "none"]

Hidden(kind) == [is |-> kind]

NoteSave == [at : {"viewer", "queued", "written"}, asked : 0 .. Queries, of : Scope,
             week : RecapWeek, text : Text, shown : BOOLEAN]

RecapTypeOK ==
  /\ scope \in Scope /\ scopes \in 0 .. MaxScopes
  /\ notes \in [RecapWeek -> Text]
  /\ week \in RecapWeek
  /\ recap \in [is : {"loading", "error"}] \cup
       [is : {"shown"}, text : Text, saved : Text, busy : BOOLEAN]
  /\ load \in {NotLoading} \cup
       [at : {"viewer", "note", "recheck"}, asked : 0 .. Queries, of : Scope, note : Text]
  /\ asking \subseteq NoteSave /\ noteSaves \in Seq(NoteSave)
  /\ edits \in 0 .. MaxEdits
  /\ apart \subseteq RecapWeek
  /\ heldRead \subseteq Query /\ heldSave \subseteq Query
  /\ committed \subseteq SUBSET Query

RecapInit ==
  /\ scope \in [Query -> Answers] /\ scopes = 0
  /\ notes = [w \in RecapWeek |-> NoWords]
  /\ week \in RecapWeek
  /\ recap = Hidden("loading")
  /\ load = NotLoading
  /\ asking = {} /\ noteSaves = <<>>
  /\ edits = 0
  /\ apart = {}
  /\ heldRead = {} /\ heldSave = {} /\ committed = {}

\* The queries that answer as they did.
Still(of, answers) == {q \in Query : answers[q] = of[q]}

Rechecking == load.at = "recheck"
Writing == noteSaves # <<>> /\ Head(noteSaves).at = "written"

ScopeMoves ==
  /\ scopes < MaxScopes /\ scopes' = scopes + 1
  /\ \E q \in Query, a \in Answers \cup {NoAnswer} :
       a # scope[q] /\ scope' = [scope EXCEPT ![q] = a]
  /\ heldRead' = IF Rechecking THEN heldRead \cup Still(load.of, scope') ELSE heldRead
  /\ heldSave' = IF Writing THEN heldSave \cup Still(Head(noteSaves).of, scope') ELSE heldSave
  /\ UNCHANGED <<notes, week, recap, load, asking, noteSaves, edits, apart, committed>>

-----------------------------------------------------------------------------
(* GET recap and its export. *)

\* One more query of a viewer function has answered.
Asked(r) == [r EXCEPT !.asked = r.asked + 1, !.of[r.asked + 1] = scope[r.asked + 1]]

Unchecked(of, q) == TRUE

\* recheck: the next query answers as it did; the first that does not ends it.
Recheck(of, q) == of[q] = scope[q]

LoadEnds(state) == load' = NotLoading /\ recap' = state /\ heldRead' = {}

\* The effect asks once per week shown, and again on retry.
RequestRecap ==
  /\ load = NotLoading /\ recap.is # "shown"
  /\ recap' = Hidden("loading")
  /\ load' = [at |-> "viewer", asked |-> 0, of |-> Unasked, note |-> NoWords]
  /\ UNCHANGED <<scope, scopes, notes, week, asking, noteSaves, edits, apart, heldRead, heldSave,
                 committed>>

ReadViewer ==
  /\ load.at = "viewer" /\ load.asked < Queries
  /\ IF scope[load.asked + 1] = NoAnswer THEN LoadEnds(Hidden("error"))
     ELSE load' = Asked(load) /\ UNCHANGED <<recap, heldRead>>
  /\ UNCHANGED <<scope, scopes, notes, week, asking, noteSaves, edits, apart, heldSave, committed>>

ReadHighlights ==
  /\ load.at = "viewer" /\ load.asked = Queries
  /\ load' = [load EXCEPT !.at = "note"]
  /\ UNCHANGED <<scope, scopes, notes, week, recap, asking, noteSaves, edits, apart, heldRead,
                 heldSave, committed>>

ReadNotes ==
  /\ load.at = "note"
  /\ load' = [load EXCEPT !.at = "recheck", !.asked = 0, !.note = notes[week]]
  /\ heldRead' = Still(load.of, scope)
  /\ UNCHANGED <<scope, scopes, notes, week, recap, asking, noteSaves, edits, apart, heldSave,
                 committed>>

RecheckLoad ==
  /\ Rechecking /\ load.asked < Queries
  /\ IF Recheck(load.of, load.asked + 1)
     THEN load' = [load EXCEPT !.asked = load.asked + 1] /\ UNCHANGED <<recap, heldRead>>
     ELSE LoadEnds(Hidden("error"))
  /\ UNCHANGED <<scope, scopes, notes, week, asking, noteSaves, edits, apart, heldSave, committed>>

RecapAnswered ==
  /\ Rechecking /\ load.asked = Queries
  /\ LoadEnds([is |-> "shown", text |-> load.note, saved |-> load.note, busy |-> FALSE])
  /\ committed' = committed \cup {heldRead}
  /\ UNCHANGED <<scope, scopes, notes, week, asking, noteSaves, edits, apart, heldSave>>

RecapFails ==
  /\ load # NotLoading /\ LoadEnds(Hidden("error"))
  /\ UNCHANGED <<scope, scopes, notes, week, asking, noteSaves, edits, apart, heldSave, committed>>

-----------------------------------------------------------------------------
(* The page. *)

Edit == edits < MaxEdits /\ edits' = edits + 1

\* Another week, or another scope in the props, is another content: saves under way
\* answer nobody.
Leave(w) ==
  /\ Edit
  /\ w # week /\ week' = w
  /\ LoadEnds(Hidden("loading"))
  /\ asking' = {[s EXCEPT !.shown = FALSE] : s \in asking}
  /\ noteSaves' = [i \in DOMAIN noteSaves |-> [noteSaves[i] EXCEPT !.shown = FALSE]]
  /\ apart' = apart \cup {s.week : s \in asking}
                    \cup {noteSaves[i].week : i \in DOMAIN noteSaves}
  /\ UNCHANGED <<scope, scopes, notes, heldSave, committed>>

WriteNote(t) ==
  /\ Edit
  /\ recap.is = "shown" /\ t # recap.text
  /\ recap' = [recap EXCEPT !.text = t]
  /\ UNCHANGED <<scope, scopes, notes, week, load, asking, noteSaves, apart, heldRead, heldSave,
                 committed>>

\* The button is disabled while a save is under way.
SaveReflection ==
  /\ recap.is = "shown" /\ ~recap.busy /\ recap.text # recap.saved
  /\ recap' = [recap EXCEPT !.busy = TRUE]
  /\ asking' = asking \cup {[at |-> "viewer", asked |-> 0, of |-> Unasked, week |-> week,
                             text |-> recap.text, shown |-> TRUE]}
  /\ UNCHANGED <<scope, scopes, notes, week, load, noteSaves, edits, apart, heldRead, heldSave,
                 committed>>

\* The link is there when nothing is unsaved.
Exportable == recap.is = "shown" /\ ~recap.busy /\ recap.text = recap.saved

-----------------------------------------------------------------------------
(* save: one after the other, each on a connection of its own. *)

AnswerPage(s, rec) == IF s.shown /\ recap.is = "shown" THEN recap' = rec ELSE UNCHANGED recap

\* The server looks at the viewer first.
AskViewer(s) ==
  /\ s.asked < Queries
  /\ IF scope[s.asked + 1] = NoAnswer
     THEN asking' = asking \ {s} /\ AnswerPage(s, Hidden("error"))
     ELSE asking' = (asking \ {s}) \cup {Asked(s)} /\ UNCHANGED recap
  /\ UNCHANGED <<scope, scopes, notes, week, load, noteSaves, edits, apart, heldRead, heldSave,
                 committed>>

AskFails(s) ==
  /\ asking' = asking \ {s} /\ AnswerPage(s, [recap EXCEPT !.busy = FALSE])
  /\ UNCHANGED <<scope, scopes, notes, week, load, noteSaves, edits, apart, heldRead, heldSave,
                 committed>>

\* It waits for the saves before it.
Enqueue(s) ==
  /\ s.asked = Queries
  /\ asking' = asking \ {s}
  /\ noteSaves' = Append(noteSaves, [s EXCEPT !.at = "queued", !.asked = 0])
  /\ UNCHANGED <<scope, scopes, notes, week, recap, load, edits, apart, heldRead, heldSave,
                 committed>>

\* 401 and 403 hide the recap, any other failure leaves the text unsaved.
Refuse ==
  /\ noteSaves' = Tail(noteSaves) /\ heldSave' = {}
  /\ AnswerPage(Head(noteSaves), Hidden("error"))
  /\ UNCHANGED <<scope, scopes, notes, week, load, asking, edits, apart, heldRead, committed>>

\* Before it writes, and again before it commits.
RecheckSave ==
  /\ noteSaves # <<>> /\ Head(noteSaves).asked < Queries
  /\ LET q == Head(noteSaves).asked + 1
     IN \/ /\ Recheck(Head(noteSaves).of, q)
           /\ noteSaves' = [noteSaves EXCEPT ![1].asked = q]
           /\ UNCHANGED <<scope, scopes, notes, week, recap, load, asking, edits, apart, heldRead,
                          heldSave, committed>>
        \/ ~Recheck(Head(noteSaves).of, q) /\ Refuse

\* The write is not visible to others before COMMIT.
SaveWrites ==
  /\ noteSaves # <<>> /\ Head(noteSaves).at = "queued" /\ Head(noteSaves).asked = Queries
  /\ noteSaves' = [noteSaves EXCEPT ![1].at = "written", ![1].asked = 0]
  /\ heldSave' = Still(Head(noteSaves).of, scope)
  /\ UNCHANGED <<scope, scopes, notes, week, recap, load, asking, edits, apart, heldRead, committed>>

\* known: the answer arrives. The access may be lost between the recheck and COMMIT.
SaveCommits(known) ==
  /\ Writing /\ Head(noteSaves).asked = Queries
  /\ LET s == Head(noteSaves)
     IN /\ notes' = [notes EXCEPT ![s.week] = s.text]
        /\ AnswerPage(s, IF known THEN [recap EXCEPT !.busy = FALSE, !.saved = s.text]
                         ELSE [recap EXCEPT !.busy = FALSE])
        /\ apart' = IF known THEN apart ELSE apart \cup {s.week}
  /\ noteSaves' = Tail(noteSaves) /\ heldSave' = {}
  /\ committed' = committed \cup {heldSave}
  /\ UNCHANGED <<scope, scopes, week, load, asking, edits, heldRead>>

\* The connection or a query fails: rolled back, and the next save goes on.
SaveFails ==
  /\ noteSaves # <<>>
  /\ noteSaves' = Tail(noteSaves) /\ heldSave' = {}
  /\ AnswerPage(Head(noteSaves), [recap EXCEPT !.busy = FALSE])
  /\ UNCHANGED <<scope, scopes, notes, week, load, asking, edits, apart, heldRead, committed>>

RecapNext ==
  \/ ScopeMoves
  \/ RequestRecap \/ ReadViewer \/ ReadHighlights \/ ReadNotes \/ RecheckLoad \/ RecapAnswered \/ RecapFails
  \/ \E w \in RecapWeek : Leave(w)
  \/ \E t \in Words : WriteNote(t)
  \/ SaveReflection
  \/ \E s \in asking : AskViewer(s) \/ AskFails(s) \/ Enqueue(s)
  \/ RecheckSave \/ SaveWrites \/ SaveFails \/ \E known \in BOOLEAN : SaveCommits(known)

RecapSpec == RecapInit /\ [][RecapNext]_recapVars

-----------------------------------------------------------------------------
(* No save is stored, and no recap shown, if part of the access it was     *)
(* admitted with was gone all the time since it wrote or read the note;    *)
(* and the recap that can be exported is the one on the page, unless a     *)
(* save was left or its answer was lost.                                   *)
(* (recap-app.ts save, read; RecapPage.tsx RecapContent)                   *)
RecapsSafe ==
  /\ \A all \in committed : all = Query
  /\ Exportable /\ week \notin apart => notes[week] = recap.text
=============================================================================
