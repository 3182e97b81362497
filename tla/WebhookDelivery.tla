-------------------------- MODULE WebhookDelivery --------------------------
(***************************************************************************)
(* Outbound webhook deliveries: the rows of ship_live_webhook_deliveries,  *)
(* the replicas' delivery workers that lease, send and record them, and    *)
(* the people who edit webhooks or redeliver.  server/webhook-outbox.ts    *)
(* holds the SQL, server/webhook-worker.ts the worker.                     *)
(*                                                                         *)
(* Every SQL statement is one step; between two statements of a task any   *)
(* other step may happen.  Time is abstract: a retry wait that ends and a  *)
(* lease that runs out are steps of their own, so every interleaving the   *)
(* real delays allow is a behaviour here.                                  *)
(***************************************************************************)
EXTENDS Naturals, FiniteSets

CONSTANTS
  Delivery,     \* identities of delivery rows
  Digest,       \* the deliveries of a digest.weekly event
  Hook,         \* webhooks
  HookOf,       \* the webhook of each delivery
  Worker,       \* replicas, one delivery worker each
  Lease,        \* lease tokens; one is fresh when neither a row nor a task has it
  NoLease,      \* SQL NULL in the lease column
  MaxAttempts,  \* MAX_ATTEMPTS (6)
  Concurrency,  \* tasks a worker runs at once (4)
  MaxFaults,    \* bound: crashes, failed statements and attempts that outlast a lease
  MaxEdits      \* bound: saves, redeliveries, access changes and shutdowns

ASSUME DeliveryAssumption ==
  /\ Digest \subseteq Delivery
  /\ HookOf \in [Delivery -> Hook]
  /\ IsFiniteSet(Lease)
  /\ NoLease \notin Lease
  /\ MaxAttempts \in Nat \ {0}
  /\ Concurrency \in Nat \ {0}
  /\ MaxFaults \in Nat
  /\ MaxEdits \in Nat

VARIABLES
  row,        \* delivery rows
  hook,       \* webhook rows: enabled, disabled, disabled with a paused_reason, deleted
  mayView,    \* what ownerMaySee answers for each delivery now
  task,       \* the delivery task that runs under each lease token
  worker,     \* the worker loop of each replica
  accepted,   \* history: requests the receiver took in since the delivery was queued
  overran,    \* history: tasks whose lease ran out under them
  abandoned,  \* history: leases whose task ended without recording
  faults, edits

tables  == <<row, hook, mayView>>
history == <<accepted, overran, abandoned>>
bounds  == <<faults, edits>>
vars    == <<row, hook, mayView, task, worker, history, bounds>>

-----------------------------------------------------------------------------
(* The tables and the tasks. *)

Settled == {"succeeded", "failed", "dead", "skipped"}

Row == [status   : {"absent", "pending", "removed"} \cup Settled,
        attempts : Nat,
        due      : BOOLEAN,               \* next_attempt_at <= now()
        lease    : Lease \cup {NoLease},
        lapsed   : BOOLEAN]               \* lease_until < now()

AbsentRow == [status |-> "absent", attempts |-> 0, due |-> FALSE,
              lease |-> NoLease, lapsed |-> FALSE]

\* What an attempt ends with; a "pending" outcome is another try later.
Outcome == {"succeeded", "denied", "failed", "gone", "dead", "pending"}

NoTask   == [phase |-> "none"]
LiveTask == [phase   : {"authorize", "enrich", "reauthorize", "send", "record", "pause"},
             on      : Delivery,
             by      : Worker,
             attempt : Nat,
             outcome : Outcome,
             held    : BOOLEAN]  \* history: access held at some time since the body was built
Task     == {NoTask} \cup LiveTask

WorkerState == [up : BOOLEAN, stopping : BOOLEAN, busy : BOOLEAN]

Running(l) == task[l].phase # "none"
Active(w)  == {l \in Lease : Running(l) /\ task[l].by = w}
Fresh(l)   == ~Running(l) /\ \A d \in Delivery : row[d].lease # l

TypeOK ==
  /\ row \in [Delivery -> Row]
  /\ hook \in [Hook -> {"on", "off", "paused", "removed"}]
  /\ mayView \in [Delivery -> BOOLEAN]
  /\ task \in [Lease -> Task]
  /\ worker \in [Worker -> WorkerState]
  /\ accepted \in [Delivery -> 0 .. 2]
  /\ overran \in SUBSET Lease
  /\ abandoned \in SUBSET Lease
  /\ faults \in 0 .. MaxFaults
  /\ edits \in 0 .. MaxEdits

Init ==
  /\ row = [d \in Delivery |-> AbsentRow]
  /\ hook = [h \in Hook |-> "on"]
  /\ mayView = [d \in Delivery |-> TRUE]
  /\ task = [l \in Lease |-> NoTask]
  /\ worker = [w \in Worker |-> [up |-> TRUE, stopping |-> FALSE, busy |-> FALSE]]
  /\ accepted = [d \in Delivery |-> 0]
  /\ overran = {} /\ abandoned = {}
  /\ faults = 0 /\ edits = 0

Edit  == edits < MaxEdits /\ edits' = edits + 1 /\ UNCHANGED faults
Fault == faults < MaxFaults /\ faults' = faults + 1 /\ UNCHANGED edits

-----------------------------------------------------------------------------
(* The rest of the server: routing, the webhook pages, access, retention.  *)

\* routeEvents inserts a row for an enabled webhook; "skipped" is a cooldown.
Route(d) ==
  /\ row[d].status = "absent"
  /\ hook[HookOf[d]] = "on"
  /\ \E s \in {"pending", "skipped"} :
       row' = [row EXCEPT ![d] = [@ EXCEPT !.status = s, !.due = TRUE]]
  /\ UNCHANGED <<hook, mayView, task, worker, history, bounds>>

\* A save switches the webhook on or off; only switching on clears paused_reason.
SaveHook(h) ==
  /\ Edit
  /\ hook[h] # "removed"
  /\ \/ hook' = [hook EXCEPT ![h] = "on"]
     \/ hook' = [hook EXCEPT ![h] = IF @ = "paused" THEN @ ELSE "off"]
  /\ UNCHANGED <<row, mayView, task, worker, accepted, overran, abandoned>>

\* Deleting a webhook deletes its deliveries by cascade; tasks run on unaware.
RemoveHook(h) ==
  /\ Edit
  /\ hook[h] # "removed"
  /\ hook' = [hook EXCEPT ![h] = "removed"]
  /\ row' = [d \in Delivery |->
               IF HookOf[d] = h THEN [AbsentRow EXCEPT !.status = "removed"] ELSE row[d]]
  /\ UNCHANGED <<mayView, task, worker, accepted, overran, abandoned>>

\* Redeliver: a finished row starts over with a fresh set of retries.
Redeliver(d) ==
  /\ Edit
  /\ row[d].status \in Settled
  /\ row' = [row EXCEPT ![d] = [status |-> "pending", attempts |-> 0, due |-> TRUE,
                                lease |-> NoLease, lapsed |-> FALSE]]
  /\ accepted' = [accepted EXCEPT ![d] = 0]
  /\ UNCHANGED <<hook, mayView, task, worker, overran, abandoned>>

\* The owner gains or loses membership or the repository.  The pinned repositories
\* are those of the claim's copy of the webhook, so they change between tasks only.
ChangeAccess(d) ==
  /\ Edit
  /\ mayView' = [mayView EXCEPT ![d] = ~@]
  /\ task' = [l \in Lease |->
                IF task[l].phase = "reauthorize" /\ task[l].on = d /\ mayView'[d]
                THEN [task[l] EXCEPT !.held = TRUE] ELSE task[l]]
  /\ UNCHANGED <<row, hook, worker, history>>

\* Retention deletes finished rows after 30 days, never pending ones.
Retire(d) ==
  /\ row[d].status \in Settled
  /\ row' = [row EXCEPT ![d] = [AbsentRow EXCEPT !.status = "removed"]]
  /\ UNCHANGED <<hook, mayView, task, worker, history, bounds>>

-----------------------------------------------------------------------------
(* Time. *)

\* A retry wait ends.
FallDue(d) ==
  /\ row[d].status = "pending" /\ ~row[d].due
  /\ row' = [row EXCEPT ![d].due = TRUE]
  /\ UNCHANGED <<hook, mayView, task, worker, history, bounds>>

Holds(l, d) == Running(l) /\ task[l].on = d /\ row[d].lease = l

\* The 60 seconds of a lease nobody works under any more run out.
Lapse(d) ==
  /\ row[d].lease # NoLease /\ ~row[d].lapsed
  /\ \A l \in Lease : ~Holds(l, d)
  /\ row' = [row EXCEPT ![d].lapsed = TRUE]
  /\ UNCHANGED <<hook, mayView, task, worker, history, bounds>>

\* A task outlasts its 60 seconds (a stalled process or database).
Overrun(d) ==
  /\ Fault
  /\ row[d].lease # NoLease /\ ~row[d].lapsed
  /\ \E l \in Lease : Holds(l, d) /\ overran' = overran \cup {l}
  /\ row' = [row EXCEPT ![d].lapsed = TRUE]
  /\ UNCHANGED <<hook, mayView, task, worker, accepted, abandoned>>

-----------------------------------------------------------------------------
(* The worker loop: setInterval calls tick, which returns at once while    *)
(* stopped or busy.                                                        *)

BeginTick(w) ==
  /\ worker[w].up /\ ~worker[w].stopping /\ ~worker[w].busy
  /\ worker' = [worker EXCEPT ![w].busy = TRUE]
  /\ UNCHANGED <<tables, task, history, bounds>>

\* A row that claimDeliveries selects.
ClaimableAnyLease(d) ==
  row[d].status = "pending" /\ row[d].due /\ hook[HookOf[d]] = "on"
ClaimableNeverLeased(d) == ClaimableAnyLease(d) /\ row[d].lease = NoLease
Claimable(d) ==
  /\ row[d].status = "pending" /\ row[d].due
  /\ hook[HookOf[d]] = "on"
  /\ row[d].lease = NoLease \/ row[d].lapsed

\* The claim statement leases up to concurrency - active.size rows, each on
\* its own; leasing several is several of these steps in a row.
Claim(w, d) ==
  /\ worker[w].up /\ worker[w].busy
  /\ Cardinality(Active(w)) < Concurrency
  /\ Claimable(d)
  /\ \E l \in Lease :
       /\ Fresh(l)
       /\ row' = [row EXCEPT ![d] = [@ EXCEPT !.lease = l, !.lapsed = FALSE]]
       /\ task' = [task EXCEPT ![l] =
            [phase |-> "authorize", on |-> d, by |-> w, attempt |-> row[d].attempts + 1,
             outcome |-> "pending", held |-> FALSE]]
       /\ abandoned' = abandoned \ {l, row[d].lease}
  /\ UNCHANGED <<hook, mayView, worker, accepted, overran, bounds>>

EndTick(w) ==
  /\ worker[w].up /\ worker[w].busy
  /\ worker' = [worker EXCEPT ![w].busy = FALSE]
  /\ UNCHANGED <<tables, task, history, bounds>>

\* stop(): no further tick starts, and the process waits for the running tick
\* and then for its tasks before it exits.
Stop(w) ==
  /\ Edit
  /\ worker[w].up /\ ~worker[w].stopping
  /\ worker' = [worker EXCEPT ![w].stopping = TRUE]
  /\ UNCHANGED <<tables, task, history>>

DrainedTickOnly(w) == worker[w].stopping /\ ~worker[w].busy
Drained(w) == worker[w].stopping /\ ~worker[w].busy /\ Active(w) = {}

\* The process ends; tasks still running end with it.
Exit(w) ==
  /\ worker[w].up /\ Drained(w)
  /\ worker' = [worker EXCEPT ![w] = [up |-> FALSE, stopping |-> FALSE, busy |-> FALSE]]
  /\ task' = [l \in Lease |-> IF l \in Active(w) THEN NoTask ELSE task[l]]
  /\ UNCHANGED <<tables, history, bounds>>

Start(w) ==
  /\ ~worker[w].up
  /\ worker' = [worker EXCEPT ![w].up = TRUE]
  /\ UNCHANGED <<tables, task, history, bounds>>

\* A crash, or the forced exit 5 seconds after a stop that does not finish.
Crash(w) ==
  /\ Fault
  /\ worker[w].up
  /\ worker' = [worker EXCEPT ![w] = [up |-> FALSE, stopping |-> FALSE, busy |-> FALSE]]
  /\ task' = [l \in Lease |-> IF l \in Active(w) THEN NoTask ELSE task[l]]
  /\ abandoned' = abandoned \cup Active(w)
  /\ overran' = overran \ Active(w)
  /\ UNCHANGED <<tables, accepted>>

-----------------------------------------------------------------------------
(* One delivery task: performDelivery, then completeDelivery. *)

\* The status of an attempt worth repeating: attempt n is the last, or is retried.
RetryOneTooMany(n) == IF n > MaxAttempts THEN "dead" ELSE "pending"
Retry(n) == IF n >= MaxAttempts THEN "dead" ELSE "pending"

\* The status an outcome is recorded with.
StatusVerbatim(o) == o
StatusOf(o) == IF o \in {"denied", "gone"} THEN "failed" ELSE o

GoTo(l, phase) == task' = [task EXCEPT ![l].phase = phase]
EndWith(l, outcome) ==
  task' = [task EXCEPT ![l].phase = "record", ![l].outcome = outcome]

\* The access check the server passes in answers "no access" when its own reads fail,
\* too, so performDelivery's branch for a check that throws is not taken here.
Authorize(l) ==
  /\ task[l].phase = "authorize"
  /\ \/ mayView[task[l].on] /\ GoTo(l, "enrich")
     \/ EndWith(l, "denied")
  /\ UNCHANGED <<tables, worker, history, bounds>>

\* enrich fills a digest; store.target opens the sealed settings and
\* prepareRequest renders the body, and either failing is final.
Enrich(l) ==
  /\ task[l].phase = "enrich"
  /\ \/ task' = [task EXCEPT ![l].phase = "reauthorize", ![l].held = mayView[task[l].on]]
     \/ task[l].on \in Digest /\ EndWith(l, Retry(task[l].attempt))
     \/ EndWith(l, "dead")
  /\ UNCHANGED <<tables, worker, history, bounds>>

\* Access is checked again once the body is ready; a digest also requires
\* the scope it was built from, and that read can throw.
ReauthorizeSkipped(l) ==
  /\ task[l].phase = "reauthorize"
  /\ GoTo(l, "send")
  /\ UNCHANGED <<tables, worker, history, bounds>>
Reauthorize(l) ==
  /\ task[l].phase = "reauthorize"
  /\ \/ mayView[task[l].on] /\ GoTo(l, "send")
     \/ EndWith(l, "denied")
     \/ task[l].on \in Digest /\ EndWith(l, Retry(task[l].attempt))
  /\ UNCHANGED <<tables, worker, history, bounds>>

\* The receiver answers; outcomeOf sorts the answer.
SendUnchecked(l) ==
  /\ task[l].phase = "send"
  /\ EndWith(l, "succeeded")
  /\ \/ accepted' = [accepted EXCEPT ![task[l].on] = IF @ < 2 THEN @ + 1 ELSE @]
     \/ UNCHANGED accepted                            \* 200 with an error in the body
  /\ UNCHANGED <<tables, worker, overran, abandoned, bounds>>
Send(l) ==
  /\ task[l].phase = "send"
  /\ \/ /\ EndWith(l, "succeeded")
        /\ accepted' = [accepted EXCEPT ![task[l].on] = IF @ < 2 THEN @ + 1 ELSE @]
     \/ EndWith(l, "gone") /\ UNCHANGED accepted                      \* 410
     \/ EndWith(l, "failed") /\ UNCHANGED accepted                    \* other final answers
     \/ EndWith(l, Retry(task[l].attempt)) /\ UNCHANGED accepted      \* no answer, 429, 5xx ...
  /\ UNCHANGED <<tables, worker, overran, abandoned, bounds>>

\* The UPDATE of completeDelivery: WHERE id and lease match.
RecordsById(l)  == row[task[l].on].status \notin {"absent", "removed"}
RecordsRow(l)   == row[task[l].on].lease = l

\* Leaving nothing in overran about a task that is over keeps the history finite.
Record(l) ==
  LET d      == task[l].on
      o      == task[l].outcome
      pauses == o = "gone" /\ RecordsRow(l)
  IN
  /\ task[l].phase = "record"
  /\ row' = IF RecordsRow(l)
            THEN [row EXCEPT ![d] = [status   |-> StatusOf(o),
                                     attempts |-> @.attempts + 1,
                                     due      |-> o # "pending",
                                     lease    |-> NoLease,
                                     lapsed   |-> FALSE]]
            ELSE row
  /\ task' = [task EXCEPT ![l] = IF pauses THEN [@ EXCEPT !.phase = "pause"] ELSE NoTask]
  /\ overran' = IF pauses THEN overran ELSE overran \ {l}
  /\ UNCHANGED <<hook, mayView, worker, accepted, abandoned, bounds>>

\* The second statement of completeDelivery, for a 410.
Pause(l) ==
  LET h == HookOf[task[l].on] IN
  /\ task[l].phase = "pause"
  /\ hook' = [hook EXCEPT ![h] = IF @ = "removed" THEN @ ELSE "paused"]
  /\ task' = [task EXCEPT ![l] = NoTask]
  /\ overran' = overran \ {l}
  /\ UNCHANGED <<row, mayView, worker, accepted, abandoned, bounds>>

\* Either statement can fail; the task logs it and ends.
RecordFails(l) ==
  /\ Fault
  /\ task[l].phase \in {"record", "pause"}
  /\ task' = [task EXCEPT ![l] = NoTask]
  /\ abandoned' = abandoned \cup {l}
  /\ overran' = overran \ {l}
  /\ UNCHANGED <<tables, worker, accepted>>

-----------------------------------------------------------------------------

TaskStep(l) ==
  Authorize(l) \/ Enrich(l) \/ Reauthorize(l) \/ Send(l) \/ Record(l) \/ Pause(l)

Next ==
  \/ \E d \in Delivery :
       \/ Route(d) \/ Redeliver(d) \/ ChangeAccess(d) \/ Retire(d)
       \/ FallDue(d) \/ Lapse(d) \/ Overrun(d)
       \/ \E w \in Worker : Claim(w, d)
  \/ \E h \in Hook : SaveHook(h) \/ RemoveHook(h)
  \/ \E w \in Worker :
       BeginTick(w) \/ EndTick(w) \/ Stop(w) \/ Exit(w) \/ Start(w) \/ Crash(w)
  \/ \E l \in Lease : TaskStep(l) \/ RecordFails(l)

Spec == Init /\ [][Next]_vars

\* Timers fire, promises settle and time passes; a replica that exits is started
\* again.  The claim takes due rows oldest first, so a row that stays due is not
\* passed over for ever even if others take the free slots meanwhile.
Fairness ==
  /\ \A l \in Lease : WF_vars(TaskStep(l))
  /\ \A d \in Delivery : WF_vars(FallDue(d)) /\ WF_vars(Lapse(d))
  /\ \A d \in Delivery : SF_vars(\E w \in Worker : Claim(w, d))
  /\ \A w \in Worker : /\ WF_vars(BeginTick(w)) /\ WF_vars(EndTick(w))
                       /\ WF_vars(Exit(w)) /\ WF_vars(Start(w))

FairSpec == Spec /\ Fairness

-----------------------------------------------------------------------------
(* Properties. *)

\* A task whose lease has not run out is its row's only owner: the row is still
\* pending under the task's token and at the attempt count the task read, whatever
\* redeliveries and other replicas do meanwhile (a deleted row aside).
LeaseProtects ==
  \A l \in Lease :
    Running(l) /\ l \notin overran /\ task[l].phase # "pause" =>
      LET r == row[task[l].on] IN
      \/ r.status = "removed"
      \/ r.status = "pending" /\ r.lease = l /\ task[l].attempt = r.attempts + 1

\* A lease on a row belongs to a task that works on that row, unless a crash or a
\* failed statement abandoned it: a worker that stops cleanly leaves no row waiting
\* for a lease to run out.
LeaseHeld ==
  \A d \in Delivery :
    row[d].lease # NoLease => Holds(row[d].lease, d) \/ row[d].lease \in abandoned

\* No row has more attempts than MAX_ATTEMPTS and a row still pending has at least one
\* left, so RETRY_SECONDS[attempt - 1] is always defined when a retry is scheduled.
RetryBudget ==
  /\ \A d \in Delivery : /\ row[d].attempts <= MaxAttempts
                         /\ row[d].status = "pending" => row[d].attempts < MaxAttempts
  /\ \A l \in Lease : Running(l) => task[l].attempt \in 1 .. MaxAttempts

\* A request that goes out was allowed at some time after its body was built: access
\* lost while the body was prepared, and not regained, stops it.
SentWithAccess ==
  \A l \in Lease : task[l].phase = "send" => task[l].held

\* Only Redeliver reopens a finished row: no late result of an earlier attempt
\* changes what the log says of it.
SettledStays ==
  [][\A d \in Delivery :
       row[d].status \in Settled /\ row'[d] # row[d] =>
         \/ row'[d].status = "removed"
         \/ row'[d].status = "pending" /\ edits' = edits + 1]_vars

\* Every pending delivery of a webhook that stays on is finished, however its
\* attempts end and even if tasks are lost on the way.
PendingSettles ==
  \A d \in Delivery :
    row[d].status = "pending" ~> (row[d].status # "pending" \/ hook[HookOf[d]] # "on")

\* The promise the component makes to the person reading the delivery log.
Promise == INSTANCE DeliveryPromise WITH
  state <- [d \in Delivery |-> row[d].status],
  taken <- [d \in Delivery |-> accepted[d] > 0]
PromiseKept == Promise!Spec

-----------------------------------------------------------------------------
(* The inductive invariant behind the properties. *)

\* A task whose token is on its row works on a pending row at the count it read.
HolderFits ==
  \A l \in Lease, d \in Delivery : Holds(l, d) =>
    /\ row[d].status = "pending"
    /\ task[l].phase # "pause"
    /\ task[l].attempt = row[d].attempts + 1
    /\ row[d].lapsed => l \in overran

\* Only a lease that ran out, or a deleted webhook, takes the row from its task.
StillHolds ==
  \A l \in Lease : Running(l) /\ l \notin overran /\ task[l].phase # "pause" =>
    row[task[l].on].status = "removed" \/ row[task[l].on].lease = l

OneRowPerLease ==
  \A d, e \in Delivery : row[d].lease # NoLease /\ row[d].lease = row[e].lease => d = e

OnlyPendingLeased ==
  \A d \in Delivery : row[d].status # "pending" => row[d].lease = NoLease

LeaseInv == HolderFits /\ StillHolds /\ OneRowPerLease /\ OnlyPendingLeased /\ LeaseHeld

\* A task that ends with another try to come has one left, and a row nobody queued yet
\* has used none.
BudgetInv ==
  /\ RetryBudget
  /\ \A l \in Lease : task[l].phase = "record" /\ task[l].outcome = "pending" =>
       task[l].attempt < MaxAttempts
  /\ \A d \in Delivery : row[d].status = "absent" => row[d].attempts = 0

\* A success to be recorded was taken in by the receiver.
AcceptedInv ==
  \A l \in Lease, d \in Delivery :
    Holds(l, d) /\ task[l].phase = "record" /\ task[l].outcome = "succeeded" => accepted[d] > 0

AccessInv ==
  /\ SentWithAccess
  /\ \A l \in Lease : task[l].phase = "reauthorize" /\ mayView[task[l].on] => task[l].held

IInv == TypeOK /\ LeaseInv /\ BudgetInv /\ AcceptedInv /\ AccessInv
=============================================================================
