----------------------------- MODULE WallSignals -----------------------------
(***************************************************************************)
(* The engineering wall (wall-store.ts, wall-normalize.ts) and the way a   *)
(* GitHub webhook takes through the server (the webhook route of           *)
(* workspace-app.ts): its activity is merged in one transaction, its       *)
(* signals are applied in another, each with a table of its own that       *)
(* remembers the delivery, and then GitHub gets its answer.  Webhooks      *)
(* arrive late and out of order, and again when GitHub got no answer.      *)
(*                                                                         *)
(* Signals of one repository; all pipelines are runs of one check on one   *)
(* branch.  What a delivery reports is chosen in the initial state.        *)
(***************************************************************************)
EXTENDS Naturals, FiniteSets, Sequences

CONSTANTS
  WallHook,          \* webhook deliveries
  Serving,       \* requests being handled
  Key,           \* the identities that signals of one kind have: runs, numbers
  MaxObserved    \* bound: times of observation

ASSUME WallAssumption == MaxObserved \in Nat \ {0}

VARIABLES
  report,         \* what each delivery says
  hookAccepted,   \* ship_live_deliveries
  wallAccepted,   \* ship_live_wall_deliveries
  signal,         \* ship_live_wall_signals
  wallHolder,     \* who holds the repository's advisory lock
  serving,
  answered,       \* deliveries whose request was answered with success
  news            \* recorded for the team's webhooks

wallVars == <<report, hookAccepted, wallAccepted, signal, wallHolder, serving, answered, news>>

-----------------------------------------------------------------------------
\* pipelineStatus, deploymentStatus and the others, as far as the store tells them apart.
Result(kind) ==
  CASE kind = "pipeline"     -> {"running", "passing", "failing"}
    [] kind = "deployment"   -> {"queued", "successful", "failing", "inactive"}
    [] kind = "review"       -> {"approved", "dismissed"}
    [] kind = "pull_request" -> {"open", "closed"}
Kind     == {"pipeline", "deployment", "review", "pull_request"}
Observed == 1 .. MaxObserved

\* normalizeWallWebhook.
Update(kind) == [kind : {kind}, key : Key, at : Observed, result : Result(kind)]

Missing == [at |-> 0, result |-> "none", settled |-> "none"]
\* settled: a pipeline's last finished result, or that a deployment once succeeded.
Signal  == [at : Observed, result : UNION {Result(k) : k \in Kind},
            settled : {"none", "passing", "failing", "succeeded"}]
AtRest  == [step |-> "rest"]

WallTypeOK ==
  /\ report \in [WallHook -> UNION {Update(k) : k \in Kind}]
  /\ hookAccepted \in SUBSET WallHook /\ wallAccepted \in SUBSET WallHook /\ answered \in SUBSET WallHook
  /\ signal \in [Key -> Signal \cup {Missing}]
  /\ wallHolder \subseteq Serving /\ Cardinality(wallHolder) <= 1
  /\ serving \in [Serving -> [step : {"merge", "lock", "read", "write", "answer"}, hook : WallHook,
                              last : SUBSET (Signal \cup {Missing}), own : Signal \cup {Missing}]
                             \cup {AtRest}]
  /\ news \in SUBSET [key : Key, result : {"passing", "failing", "successful"}]

WallInit ==
  /\ \E k \in Kind : report \in [WallHook -> Update(k)]
  /\ hookAccepted = {} /\ wallAccepted = {} /\ answered = {} /\ news = {}
  /\ signal = [k \in Key |-> Missing]
  /\ wallHolder = {}
  /\ serving = [h \in Serving |-> AtRest]

-----------------------------------------------------------------------------
(* The request. *)

Serves(h, s) == serving[h] # AtRest /\ serving[h].step = s
Proceed(h, s) == serving' = [serving EXCEPT ![h].step = s]

\* GitHub sends a delivery, and may send it again until it is answered, and by hand later.
Receive(h, d) ==
  /\ serving[h] = AtRest
  /\ serving' = [serving EXCEPT ![h] = [step |-> "merge", hook |-> d, last |-> {}, own |-> Missing]]
  /\ UNCHANGED <<report, hookAccepted, wallAccepted, signal, wallHolder, answered, news>>

DuplicatesStop(h) == IF serving[h].hook \in hookAccepted THEN "answer" ELSE "lock"
\* The wall is applied for duplicates too: their first request may have ended in between.
AfterMerge(h)     == "lock"

\* store.merge: see Activity.
MergeActivity(h) ==
  /\ Serves(h, "merge")
  /\ hookAccepted' = hookAccepted \cup {serving[h].hook}
  /\ Proceed(h, AfterMerge(h))
  /\ UNCHANGED <<report, wallAccepted, signal, wallHolder, answered, news>>

Answer(h) ==
  /\ Serves(h, "answer")
  /\ answered' = answered \cup {serving[h].hook}
  /\ serving' = [serving EXCEPT ![h] = AtRest]
  /\ UNCHANGED <<report, hookAccepted, wallAccepted, signal, wallHolder, news>>

\* The process ends, or a statement fails: an open transaction is rolled back.
Abort(h) ==
  /\ serving[h] # AtRest
  /\ serving' = [serving EXCEPT ![h] = AtRest]
  /\ wallHolder' = wallHolder \ {h}
  /\ UNCHANGED <<report, hookAccepted, wallAccepted, signal, answered, news>>

-----------------------------------------------------------------------------
(* WallStore.apply. *)

NoWait   == TRUE
LockFree == wallHolder = {}

\* The lock, then the delivery.
LockWall(h) ==
  /\ Serves(h, "lock") /\ LockFree
  /\ IF serving[h].hook \in wallAccepted
     THEN Proceed(h, "answer") /\ UNCHANGED wallHolder
     ELSE Proceed(h, "read") /\ wallHolder' = wallHolder \cup {h}
  /\ UNCHANGED <<report, hookAccepted, wallAccepted, signal, answered, news>>

\* The runs observed last: the query takes any of them.
Newest == {signal[k] : k \in {j \in Key : signal[j] # Missing /\ \A i \in Key : signal[i].at <= signal[j].at}}

ReadSignals(h) ==
  /\ Serves(h, "read")
  /\ \E last \in IF Newest = {} THEN {{}} ELSE {{x} : x \in Newest} :
       serving' = [serving EXCEPT ![h].step = "write", ![h].last = last,
                                  ![h].own = signal[report[serving[h].hook].key]]
  /\ UNCHANGED <<report, hookAccepted, wallAccepted, signal, wallHolder, answered, news>>

\* settledOf.
SettledOf(result, settled) == IF result \in {"passing", "failing"} THEN result ELSE settled

NeverSuperseded(u, last) == FALSE
\* A late result from an older run.
Superseded(u, last) == u.kind = "pipeline" /\ \E x \in last : x.at > u.at

\* The finished result that a pipeline had before.
Previous(u, last) ==
  IF \E x \in last : ~Superseded(u, last)
  THEN LET x == CHOOSE y \in last : TRUE IN SettledOf(x.result, x.settled)
  ELSE "none"

Value(u, last, own) ==
  [at |-> u.at, result |-> u.result,
   settled |->
     CASE u.kind = "pipeline" -> SettledOf(u.result, Previous(u, last))
       [] u.result = "inactive" ->
            IF own.result = "successful" \/ own.settled = "succeeded" THEN "succeeded" ELSE "none"
       [] OTHER -> "none"]

Overwrites(u, own) == TRUE
\* The conflict clause of the insertion; a dismissed review stays dismissed.
Writable(u, own) ==
  /\ own.at <= u.at
  /\ ~(u.kind = "review" /\ own.result = "dismissed" /\ u.result # "dismissed")

\* pipelineOutboxEvent and deploymentOutboxEvent; identical events are stored once.
News(u, last, own) ==
  CASE u.kind = "pipeline" ->
         LET before == Previous(u, last) IN
         {r \in {"failing", "passing"} :
            r = u.result /\ (IF r = "failing" THEN before # "failing" ELSE before = "failing")}
    [] u.kind = "deployment" -> ({u.result} \cap {"successful", "failing"}) \ {own.result}
    [] OTHER -> {}

ApplySignals(h) ==
  LET u    == report[serving[h].hook]
      last == serving[h].last
      own  == serving[h].own
  IN
  /\ Serves(h, "write")
  /\ wallAccepted' = wallAccepted \cup {serving[h].hook}
  /\ IF Writable(u, own)
     THEN /\ signal' = [signal EXCEPT ![u.key] = Value(u, last, own)]
          /\ news' = IF Superseded(u, last) THEN news
                     ELSE news \cup {[key |-> u.key, result |-> r] : r \in News(u, last, own)}
     ELSE UNCHANGED <<signal, news>>
  /\ wallHolder' = {}
  /\ Proceed(h, "answer")
  /\ UNCHANGED <<report, hookAccepted, answered>>

WallNext ==
  \E h \in Serving :
    \/ \E d \in WallHook : Receive(h, d)
    \/ MergeActivity(h) \/ LockWall(h) \/ ReadSignals(h) \/ ApplySignals(h)
    \/ Answer(h) \/ Abort(h)

WallSpec == WallInit /\ [][WallNext]_wallVars

-----------------------------------------------------------------------------
(* Properties. *)

\* Of all that was applied about a signal, the wall shows a latest observation, whatever
\* the order of arrival; a review that was ever dismissed shows dismissed.
ShowsLatest ==
  \A k \in Key :
    LET told == {report[d] : d \in {e \in wallAccepted : report[e].key = k}} IN
    told # {} =>
      \/ \E u \in told : /\ signal[k].at = u.at /\ signal[k].result = u.result
                         /\ \A v \in told : v.at <= u.at
      \/ \E u \in told : u.kind = "review" /\ u.result = "dismissed" /\ signal[k].result = "dismissed"

\* GitHub is told of success only when both the activity and the signals are stored, so a
\* delivery that was cut off between the two is repaired when it is sent again.
AnsweredIsStored == answered \subseteq hookAccepted \cap wallAccepted

\* News comes from a report that is not older than anything the wall already shows of the
\* check: a late result of an older run is stored and announces nothing.
NewsIsFresh ==
  [][\A n \in news' \ news : \E d \in wallAccepted' \ wallAccepted :
       /\ report[d].key = n.key /\ report[d].result = n.result
       /\ report[d].kind = "pipeline" => \A k \in Key : signal[k].at <= report[d].at]_wallVars

\* What the wall shows, has answered and has announced.
WallSafe == [](ShowsLatest /\ AnsweredIsStored) /\ NewsIsFresh

-----------------------------------------------------------------------------
(***************************************************************************)
(* What the wall makes of GitHub's webhooks about one thing: a check run,  *)
(* a workflow run, a commit status, a deployment, a pull request or a      *)
(* review (wall-normalize.ts).  GitHub tells of every step of its life in  *)
(* a delivery of its own with the times GitHub knows, deliveries arrive in *)
(* any order, and a time that is missing is replaced by that of arrival.   *)
(*                                                                         *)
(* Above are the transactions and the news; here a report that arrives is  *)
(* stored by its rule at once.                                             *)
(***************************************************************************)

CONSTANTS
  MaxSteps,     \* bound: steps of one life
  MaxInstant    \* bound: the clock

ASSUME WallReportsAssumption == MaxSteps \in Nat /\ MaxInstant \in Nat \ {0}

VARIABLES
  instant,   \* the clock of GitHub and of the server
  life,      \* GitHub: the payloads of the steps so far
  came,      \* the deliveries that arrived
  shownRow   \* the row of ship_live_wall_signals

reportVars == <<instant, life, came, shownRow>>

-----------------------------------------------------------------------------
(* What GitHub tells.  began: started_at, run_started_at, created_at or submitted_at;  *)
(* ended: completed_at; changed: updated_at, or a deployment status's created_at;      *)
(* 0: the field is absent.  made: history, when the step was made.                     *)

Instant == 0 .. MaxInstant
Payload(kind, status, conclusion, began, ended, changed) ==
  [kind |-> kind, status |-> status, conclusion |-> conclusion,
   began |-> began, ended |-> ended, changed |-> changed, made |-> instant]

Conclusions == {"success", "failure", "cancelled", "neutral"}

Births ==
  {Payload("check_run", "queued", "", b, 0, 0) : b \in {0, instant}}
  \cup {Payload("workflow_run", "requested", "", instant, 0, instant),
        Payload("status", "pending", "", instant, 0, instant),
        Payload("status", "pending", "", instant, 0, 0),
        Payload("deployment", "", "", 0, 0, instant),
        Payload("pull_request", "open", "", instant, 0, instant),
        Payload("pull_request_review", "approved", "", instant, 0, 0)}

\* The steps that may follow a step: a run is started, completed and, a workflow's, run
\* again; a review is dismissed, which leaves its time of submission.
StepsAfter(p) ==
  CASE p.kind = "check_run" /\ p.status = "queued" ->
         {Payload(p.kind, "in_progress", "", p.began, 0, 0)}
    [] p.kind = "check_run" /\ p.status = "in_progress" ->
         {Payload(p.kind, "completed", c, p.began, instant, 0) : c \in Conclusions}
    [] p.kind = "workflow_run" /\ p.status = "completed" ->
         {Payload(p.kind, "requested", "", instant, 0, instant)}
    [] p.kind = "workflow_run" /\ p.status # "completed" ->
         {Payload(p.kind, "completed", c, p.began, 0, instant) : c \in Conclusions}
         \cup {Payload(p.kind, "in_progress", "", p.began, 0, instant)}
    [] p.kind = "status" ->
         UNION {{Payload(p.kind, s, "", instant, 0, c) : c \in {0, instant}} :
                s \in {"pending", "success", "error"}}
    [] p.kind \in {"deployment", "deployment_status"} ->
         {Payload("deployment_status", s, "", 0, 0, instant) :
            s \in {"in_progress", "success", "failure", "inactive"}}
    [] p.kind = "pull_request" ->
         {Payload(p.kind, s, "", p.began, 0, instant) : s \in {"open", "closed", "merged"} \ {p.status}}
    [] p.kind = "pull_request_review" ->
         IF p.status = "approved" THEN {Payload(p.kind, "dismissed", "", p.began, 0, 0)} ELSE {}
    [] OTHER -> {}

-----------------------------------------------------------------------------
(* normalizeWallWebhook. *)

Timestamp(t, received) == IF t # 0 THEN t ELSE received
FirstOf(t, other) == IF t # 0 THEN t ELSE other

ByStart(p, received) == Timestamp(FirstOf(p.changed, p.began), received)
\* A finished check is observed when it finished.
ObservedAt(p, received) ==
  IF p.ended # 0 THEN p.ended ELSE Timestamp(FirstOf(p.changed, p.began), received)

PipelineStatus(status, conclusion) ==
  CASE status \in {"queued", "requested"} -> "queued"
    [] status \in {"in_progress", "pending"} -> "running"
    [] status = "success" \/ (status = "completed" /\ conclusion = "success") -> "passing"
    [] status = "error" \/ (status = "completed" /\ conclusion = "failure") -> "failing"
    [] status = "completed" /\ conclusion = "cancelled" -> "cancelled"
    [] OTHER -> "neutral"

DeploymentStatusOf(state) ==
  CASE state = "in_progress" -> "running"
    [] state = "success" -> "successful"
    [] state = "failure" -> "failing"
    [] OTHER -> "inactive"

ResultOf(p) ==
  CASE p.kind \in {"check_run", "workflow_run", "status"} -> PipelineStatus(p.status, p.conclusion)
    [] p.kind = "deployment" -> "queued"
    [] p.kind = "deployment_status" -> DeploymentStatusOf(p.status)
    [] p.kind \in {"pull_request", "pull_request_review"} -> p.status

-----------------------------------------------------------------------------
NoSignal == [at |-> 0, result |-> "none"]

WallReportsTypeOK ==
  /\ instant \in 1 .. MaxInstant
  /\ Len(life) <= MaxSteps /\ came \subseteq 1 .. Len(life)
  /\ shownRow.at \in Instant
  /\ shownRow.result \in {ResultOf(life[i]) : i \in came} \cup {"none"}

WallReportsInit == instant = 1 /\ life = <<>> /\ came = {} /\ shownRow = NoSignal

TimeGoesOn ==
  /\ instant < MaxInstant
  /\ instant' = instant + 1
  /\ UNCHANGED <<life, came, shownRow>>

GitHubReports ==
  /\ Len(life) < MaxSteps
  /\ \E p \in IF life = <<>> THEN Births ELSE StepsAfter(life[Len(life)]) : life' = Append(life, p)
  /\ UNCHANGED <<instant, came, shownRow>>

\* The conflict clause of the insertion.
Kept(row, at, result) ==
  IF row.at <= at /\ ~(row.result = "dismissed" /\ result # "dismissed")
  THEN [at |-> at, result |-> result] ELSE row

\* A delivery arrives; a repeated one changes nothing.
ReportArrives(i) ==
  /\ i \in DOMAIN life \ came
  /\ came' = came \cup {i}
  /\ shownRow' = Kept(shownRow, ObservedAt(life[i], instant), ResultOf(life[i]))
  /\ UNCHANGED <<instant, life>>

WallReportsNext == TimeGoesOn \/ GitHubReports \/ \E i \in 1 .. MaxSteps : ReportArrives(i)

WallReportsSpec == WallReportsInit /\ [][WallReportsNext]_reportVars

-----------------------------------------------------------------------------
(* Property. *)

HasTime(p) == p.began # 0 \/ p.ended # 0 \/ p.changed # 0
\* A check keeps its start while it runs, so only its end is later than what came before.
Tells(p) == p.kind # "check_run" \/ p.status = "completed"

\* GitHub's last word stands: once it has arrived, the wall shows it, whichever of the
\* earlier steps arrive after it, if it was made later than they were and they all say
\* when.  A dismissal, which has the time of the review, stands as well.
LastWordStands ==
  LET n == Len(life) IN
  n \in came /\ Tells(life[n]) /\ (\A i \in 1 .. n : HasTime(life[i]))
      /\ (\A i \in 1 .. n - 1 : life[i].made < life[n].made)
    => shownRow.result = ResultOf(life[n])
=============================================================================
