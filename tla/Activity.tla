------------------------------ MODULE Activity ------------------------------
(***************************************************************************)
(* The store of activity (postgres-store.ts, store.ts, xp.ts).  One change *)
(* on GitHub reaches it by several ways: a webhook, the same webhook sent  *)
(* again, and imports of history, each in a transaction of its own.  The   *)
(* change has one identity, under which the transactions merge what they   *)
(* know; only the one that adds it announces it to the team's webhooks.    *)
(*                                                                         *)
(* Transactions are READ COMMITTED: they see what others committed before  *)
(* each of their statements.  All reports are of one change of one         *)
(* installation: changes meet only at the installation's lock.             *)
(***************************************************************************)
EXTENDS Naturals, FiniteSets

CONSTANTS
  Issue, MergedPull, Review,   \* the activity that may be stored, by kind
  Delivery, NoDelivery,        \* webhook deliveries that GitHub sends, and sends again
  Writer,                      \* transactions under way
  MaxAt,                       \* bound: the times a report may give
  MaxSignals                   \* bound: wall signals stored

ASSUME ActivityAssumption ==
  /\ NoDelivery \notin Delivery
  /\ Issue \cap MergedPull = {} /\ Issue \cap Review = {} /\ MergedPull \cap Review = {}
  /\ MaxAt \in Nat \ {0} /\ MaxSignals \in Nat

VARIABLES
  told,        \* GitHub: what each delivery reports
  accepted,    \* ship_live_deliveries
  event,       \* ship_live_events
  signals,     \* signals on the wall, from which a merge's evidence is taken
  orgLock,     \* the writer that holds the installation's row
  writer,
  announced    \* how often each was recorded for the team's webhooks

activityVars == <<told, accepted, event, signals, orgLock, writer, announced>>

-----------------------------------------------------------------------------
Id     == Issue \cup MergedPull \cup Review
Happened == 1 .. MaxAt
Absent == [at |-> 0, author |-> FALSE, evidence |-> 0, restricted |-> FALSE]
\* When it happened, whether a review names the author of its pull request, and the
\* evidence taken when a merge was stored live.
Stored == [at : Happened, author : BOOLEAN, evidence : 0 .. MaxSignals + 1, restricted : BOOLEAN]
\* Only an issue's time and a review's author differ between reports.
Report == [id : Issue, at : Happened, author : {FALSE}] \cup [id : MergedPull, at : {1}, author : {FALSE}]
          \cup [id : Review, at : {1}, author : BOOLEAN]
Free    == [step |-> "free"]

ActivityTypeOK ==
  /\ told \in [Delivery -> Report]
  /\ accepted \in SUBSET Delivery
  /\ event \in [Id -> Stored \cup {Absent}]
  /\ signals \in 0 .. MaxSignals
  /\ orgLock \subseteq Writer /\ Cardinality(orgLock) <= 1
  /\ writer \in [Writer -> [step : {"deliver", "lock", "read", "write"}, report : Report,
                            delivery : Delivery \cup {NoDelivery}, restricted : BOOLEAN,
                            found : Stored \cup {Absent}] \cup {Free}]
  /\ announced \in [Id -> Nat]

ActivityInit ==
  /\ \E i \in Id : told \in [Delivery -> {r \in Report : r.id = i}]
  /\ accepted = {}
  /\ event = [i \in Id |-> Absent]
  /\ signals = 0
  /\ orgLock = {}
  /\ writer = [t \in Writer |-> Free]
  /\ announced = [i \in Id |-> 0]

-----------------------------------------------------------------------------
(* What comes in. *)

Begin(t, report, d, restricted) ==
  /\ writer[t] = Free
  /\ writer' = [writer EXCEPT ![t] =
       [step |-> IF d = NoDelivery THEN "lock" ELSE "deliver", report |-> report,
        delivery |-> d, restricted |-> restricted, found |-> Absent]]

\* A webhook, or its redelivery; a reopened and closed issue is told again with another time.
Webhook(t, d) ==
  /\ Begin(t, told[d], d, TRUE)
  /\ UNCHANGED <<told, accepted, event, signals, orgLock, announced>>

\* An import of history; the public feed's has no restricted events.
Imported(t, r, restricted) ==
  /\ \A d \in Delivery : told[d].id = r.id
  /\ Begin(t, r, NoDelivery, restricted)
  /\ UNCHANGED <<told, accepted, event, signals, orgLock, announced>>

WallStores ==
  /\ signals < MaxSignals
  /\ signals' = signals + 1
  /\ UNCHANGED <<told, accepted, event, orgLock, writer, announced>>

-----------------------------------------------------------------------------
(* merge. *)

InStep(t, s) == writer[t] # Free /\ writer[t].step = s

Moves(t, s) == writer' = [writer EXCEPT ![t].step = s]

\* The insertion of the delivery waits for a transaction that has inserted the same one.
Inserting(t) == \E u \in Writer \ {t} : /\ writer[u] # Free /\ writer[u].step # "deliver"
                                        /\ writer[u].delivery = writer[t].delivery

AcceptDelivery(t) ==
  /\ InStep(t, "deliver") /\ ~Inserting(t)
  /\ IF writer[t].delivery \in accepted
     THEN writer' = [writer EXCEPT ![t] = Free]
     ELSE Moves(t, "lock")
  /\ UNCHANGED <<told, accepted, event, signals, orgLock, announced>>

NoLock(t)      == {}
HolderAfter(t) == {t}

\* lockOrganization.
LockOrganization(t) ==
  /\ InStep(t, "lock") /\ orgLock = {}
  /\ orgLock' = HolderAfter(t)
  /\ Moves(t, "read")
  /\ UNCHANGED <<told, accepted, event, signals, announced>>

ReadExisting(t) ==
  /\ InStep(t, "read")
  /\ writer' = [writer EXCEPT ![t].step = "write", ![t].found = event[writer[t].report.id]]
  /\ UNCHANGED <<told, accepted, event, signals, orgLock, announced>>

Incoming(r) == [at |-> r.at, author |-> r.author, evidence |-> 0, restricted |-> FALSE]

Replaced(old, r, preferExisting) ==
  IF old = Absent \/ ~preferExisting THEN Incoming(r) ELSE old

\* selectEvent.  A report may be older than what is stored, and know less.
Selected(old, r, preferExisting) ==
  CASE old = Absent   -> Incoming(r)
    [] old # Absent /\ r.id \in Issue ->
         IF old.at <= r.at THEN old ELSE Incoming(r)
    [] old # Absent /\ r.id \notin Issue /\ preferExisting -> old
    [] OTHER -> [Incoming(r) EXCEPT !.evidence = old.evidence, !.author = r.author \/ old.author]

\* captureMergeVerification: what the wall shows when a live merge is first stored.
Captured(t, x) ==
  IF writer[t].delivery # NoDelivery /\ writer[t].report.id \in MergedPull /\ writer[t].found = Absent
  THEN [x EXCEPT !.evidence = signals + 1] ELSE x

\* writeEvents, the evidence, the announcement and the delivery commit together.
Write(t) ==
  LET id == writer[t].report.id
      x  == Captured(t, Selected(writer[t].found, writer[t].report, writer[t].delivery = NoDelivery))
  IN
  /\ InStep(t, "write")
  /\ event' = [event EXCEPT ![id] =
       [x EXCEPT !.restricted = writer[t].restricted \/ event[id].restricted]]
  /\ announced' = [announced EXCEPT ![id] =
       IF writer[t].delivery # NoDelivery /\ writer[t].found = Absent THEN @ + 1 ELSE @]
  /\ accepted' = accepted \cup ({writer[t].delivery} \ {NoDelivery})
  /\ orgLock' = orgLock \ {t}
  /\ writer' = [writer EXCEPT ![t] = Free]
  /\ UNCHANGED <<told, signals>>

\* The transaction fails, or its process ends: nothing of it remains.
Rollback(t) ==
  /\ writer[t] # Free
  /\ writer' = [writer EXCEPT ![t] = Free]
  /\ orgLock' = orgLock \ {t}
  /\ UNCHANGED <<told, accepted, event, signals, announced>>

ActivityNext ==
  \/ WallStores
  \/ \E t \in Writer :
       \/ \E d \in Delivery : Webhook(t, d)
       \/ \E r \in Report, b \in BOOLEAN : Imported(t, r, b)
       \/ AcceptDelivery(t) \/ LockOrganization(t) \/ ReadExisting(t) \/ Write(t) \/ Rollback(t)

ActivitySpec == ActivityInit /\ [][ActivityNext]_activityVars

-----------------------------------------------------------------------------
(* Properties. *)

\* A change is announced at most once, whichever ways it comes in and however they overlap.
AnnouncedOnce == \A i \in Id : announced[i] <= 1

\* What credit and privacy rest on survives every later report: the evidence of a merge,
\* the author of a reviewed pull request, an issue's first closing, and the restriction.
CreditStands ==
  [][\A i \in Id : event[i] # Absent =>
       /\ event'[i].restricted \/ ~event[i].restricted
       /\ event[i].evidence # 0 => event'[i].evidence = event[i].evidence
       /\ i \in Review => event'[i].author \/ ~event[i].author
       /\ i \in Issue => event'[i].at <= event[i].at]_activityVars

\* The stored activity and its announcements.
ActivitySafe == []AnnouncedOnce /\ CreditStands

-----------------------------------------------------------------------------
(***************************************************************************)
(* How a change on GitHub becomes an event of the feed (normalize.ts).     *)
(* One change is told by a webhook, by GitHub's public events (REST) and   *)
(* by the imports of history, each with other words, other times and other *)
(* fields; above an event is known by its id only, so the id must be the   *)
(* change's own.                                                           *)
(*                                                                         *)
(* One repository with one pull request, one review of it, one issue, one  *)
(* branch and one release.                                                 *)
(***************************************************************************)

CONSTANTS
  PushedHead,  \* commits that are pushed
  MaxMoment,   \* bound: the clock
  MaxRecorded  \* bound: events made

ASSUME EventIdsAssumption ==
  /\ MaxMoment \in Nat \ {0} /\ MaxRecorded \in Nat
  /\ PushedHead \cap {"opened", "deleted"} = {}

VARIABLES
  moment,     \* the clock
  opened,     \* GitHub: when the pull request was opened, 0 before that
  change,     \* GitHub: the last thing that happened
  recorded    \* the events made of it: their id, the change (history), the fields it had

idVars == <<moment, opened, change, recorded>>

-----------------------------------------------------------------------------
(* What happens on GitHub. *)

Source == {"webhook", "rest", "import"}

Changes ==
  [of : {"pull"}, is : {"opened", "closed", "merged", "reopened"}]
  \cup [of : {"issue"}, is : {"completed", "not planned", "reopened"}]
  \cup [of : {"review"}, is : {"submitted", "edited", "dismissed"}]
  \cup [of : {"push"}, is : PushedHead \cup {"deleted"}]
  \cup [of : {"release"}, is : {"drafted", "published"}]

\* A feed counts these; closing an issue again, and pushing a commit again, count once.
Counted ==
  {c \in Changes : \/ c.is \in {"opened", "merged", "completed", "submitted", "published"}
                   \/ c.of = "push" /\ c.is # "deleted"}

\* An import lists pull requests with their reviews, closed issues and published releases.
ByImport ==
  {c \in Changes : \/ c \in Counted /\ c.of # "push"
                   \/ c.is \in {"not planned", "dismissed"}}

\* A payload that tells of the change.
Tell(c, source, action, flag) ==
  [kind |-> c.of, action |-> action, flag |-> flag, source |-> source,
   head |-> IF c.of = "push" THEN c.is ELSE "none",
   created |-> IF c.of = "pull" THEN opened ELSE moment, whole |-> TRUE]

\* How a source may tell of it.
Tellings(c, source) ==
  CASE c.of = "pull" /\ c.is = "merged" ->
         {Tell(c, source, "closed", TRUE)}
         \cup (IF source = "rest" THEN {Tell(c, source, "merged", FALSE)} ELSE {})
    [] c.of = "issue" /\ c.is # "reopened" -> {Tell(c, source, "closed", c.is = "completed")}
    [] c.of = "review" /\ (c.is = "submitted" \/ source = "import") ->
         {Tell(c, source, IF source = "rest" THEN "created" ELSE "submitted", c.is # "dismissed")}
    [] c.of = "push" -> {Tell(c, source, "", c.is # "deleted")}
    [] c.of = "release" -> {Tell(c, source, "published", c.is = "published")}
    [] OTHER -> {Tell(c, source, c.is, FALSE)}

\* Only REST may leave fields out; then a pull request does not say whether it is merged,
\* but the action does.
Trimmed(p) == [p EXCEPT !.created = 0, !.whole = FALSE, !.flag = p.flag /\ p.kind # "pull"]

Payloads(c, source) ==
  Tellings(c, source)
  \cup (IF source = "rest" THEN {Trimmed(p) : p \in Tellings(c, source)} ELSE {})

-----------------------------------------------------------------------------
(* normalize. *)

\* normalizeRestEvent: a review is created there, and submitted in a webhook.
InWebhookWords(p) ==
  IF p.source = "rest" /\ p.kind = "review" /\ p.action = "created"
  THEN [p EXCEPT !.action = "submitted"] ELSE p

IsMerge(p) == p.kind = "pull" /\ (p.action = "merged" \/ (p.action = "closed" /\ p.flag))

Makes(p) ==
  CASE p.kind = "pull"    -> IsMerge(p) \/ p.action = "opened"
    [] p.kind = "review"  -> p.action = "submitted" /\ p.flag
    [] p.kind = "push"    -> p.flag
    [] p.kind = "issue"   -> p.action = "closed" /\ p.flag
    [] p.kind = "release" -> p.action = "published" /\ p.flag

\* date: a missing time is that of the report.
TimeOf(p, received) == IF p.created # 0 THEN p.created ELSE received

IdWithTime(p, received) == [of |-> p.kind, is |-> p.head, at |-> TimeOf(p, received)]

IdOf(p, received) ==
  CASE IsMerge(p)       -> [of |-> "pull", is |-> "merged", at |-> 0]
    [] p.kind = "pull" /\ ~IsMerge(p) -> [of |-> "pull", is |-> "opened", at |-> TimeOf(p, received)]
    [] p.kind = "push"  -> [of |-> "push", is |-> p.head, at |-> 0]
    [] OTHER            -> [of |-> p.kind, is |-> "once", at |-> 0]

-----------------------------------------------------------------------------
NoChange == [of |-> "none", is |-> "none"]

EventIdsTypeOK ==
  /\ moment \in 1 .. MaxMoment /\ opened \in 0 .. MaxMoment
  /\ change \in Changes \cup {NoChange}
  /\ \A e \in recorded : e.of \in Changes /\ e.whole \in BOOLEAN /\ e.id.at \in 0 .. MaxMoment

EventIdsInit == moment = 1 /\ opened = 0 /\ change = NoChange /\ recorded = {}

MomentPasses ==
  /\ moment < MaxMoment
  /\ moment' = moment + 1
  /\ UNCHANGED <<opened, change, recorded>>

\* A pull request is opened once and before everything else about it.
HappensThere(c) ==
  /\ c.of \in {"pull", "review"} => (opened = 0) = (c.is = "opened")
  /\ change' = c
  /\ opened' = IF c.is = "opened" THEN moment ELSE opened
  /\ UNCHANGED <<moment, recorded>>

\* A source tells of the change, now or later, and again.
Recorded(source) ==
  /\ change # NoChange /\ Cardinality(recorded) < MaxRecorded
  /\ source = "import" => change \in ByImport
  /\ \E payload \in Payloads(change, source) :
       LET p == InWebhookWords(payload) IN
       recorded' = IF Makes(p)
                   THEN recorded \cup {[id |-> IdOf(p, moment), of |-> change, whole |-> p.whole]}
                   ELSE recorded
  /\ UNCHANGED <<moment, opened, change>>

EventIdsNext ==
  \/ MomentPasses
  \/ \E c \in Changes : HappensThere(c)
  \/ \E s \in Source : Recorded(s)

EventIdsSpec == EventIdsInit /\ [][EventIdsNext]_idVars

-----------------------------------------------------------------------------
(* Property. *)

\* Whichever ways a change comes and whenever, it has one id and no other change has it, and
\* what is no contribution has none.  A public event that leaves out when a pull request was
\* opened is the exception: its opening takes the time of the report.
OneIdEach ==
  /\ \A e \in recorded : e.of \in Counted
  /\ \A e, f \in recorded :
       e.of = f.of <=> e.id = f.id \/ (e.of.is = "opened" /\ f.of.is = "opened" /\ ~(e.whole /\ f.whole))
=============================================================================
