---------------------------- MODULE HealthProbe ----------------------------
(***************************************************************************)
(* Service Health: the probes of a workspace, the replicas' schedulers     *)
(* that lease and run them (server/health-worker.ts), and what a check     *)
(* makes of a probe: its state, its incident and the webhook events        *)
(* (server/health-store.ts, complete).                                     *)
(*                                                                         *)
(* Every transaction is one step; the HTTP check runs between two of them. *)
(* Time is abstract: an interval that ends, a lease that runs out and a    *)
(* maintenance window that begins or ends are steps of their own.          *)
(***************************************************************************)
EXTENDS Naturals, FiniteSets

CONSTANTS
  Probe,        \* identities of probes
  Service,      \* services
  ServiceOf,    \* the service of each probe
  Rules,        \* what a probe may be configured to check
  FailAfter,    \* failureThreshold of each
  RecoverAfter, \* recoveryThreshold of each
  Worker,       \* replicas, one scheduler each
  Lease,        \* lease tokens
  NoLease,      \* SQL NULL in the lease column
  Concurrency,  \* checks a scheduler runs at once (4)
  MaxCount,     \* bound: counters stop here; only thresholds up to it are told apart
  MaxFaults,    \* bound: crashes, failed writes and checks that outlast a lease
  MaxEdits      \* bound: saves and deletions, maintenance changes, new keys, shutdowns

ASSUME HealthAssumption ==
  /\ ServiceOf \in [Probe -> Service]
  /\ MaxCount \in Nat
  /\ FailAfter \in [Rules -> 1 .. MaxCount]
  /\ RecoverAfter \in [Rules -> 1 .. MaxCount]
  /\ IsFiniteSet(Lease)
  /\ NoLease \notin Lease
  /\ Concurrency \in Nat \ {0}
  /\ MaxFaults \in Nat /\ MaxEdits \in Nat

VARIABLES
  probe,       \* probe rows
  open,        \* probes with an unresolved incident
  told,        \* the last health event and the last incident event of each probe
  maintained,  \* services inside a maintenance window
  answers,     \* whether a check of the probe's endpoint would pass now
  task,        \* the check that runs under each lease token
  worker,      \* the scheduler of each replica
  fenced,      \* history: checks whose lease ran out or was taken by a save
  blinded,     \* history: probes whose secret could not be opened since their incident opened
  faults, edits

bounds == <<faults, edits>>
vars   == <<probe, open, told, maintained, answers, task, worker, fenced, blinded, bounds>>

-----------------------------------------------------------------------------

State == {"unknown", "healthy", "degraded", "down"}

Row == [stored    : {"absent", "live", "removed"},
        enabled   : BOOLEAN,
        rules     : Rules,
        secret    : {"none", "sealed", "unreadable"},   \* headers_encrypted
        due       : BOOLEAN,                            \* next_check_at <= now()
        lease     : Lease \cup {NoLease},
        lapsed    : BOOLEAN,                            \* lease_until < now()
        state     : State,
        failures  : 0 .. MaxCount,
        successes : 0 .. MaxCount]

NoTask == [phase |-> "none"]
Task   == {NoTask} \cup [phase : {"probe", "record"}, on : Probe, by : Worker,
                         rules : Rules, ok : BOOLEAN]

Scheduler == [up : BOOLEAN, stopping : BOOLEAN, busy : BOOLEAN]

Told == [health   : {"none", "degraded", "down", "recovered"},
         incident : {"none", "opened", "resolved"}]

Running(l)  == task[l].phase # "none"
Holds(l, p) == Running(l) /\ task[l].on = p /\ probe[p].lease = l
Active(w)   == {l \in Lease : Running(l) /\ task[l].by = w}
Fresh(l)    == ~Running(l) /\ \A p \in Probe : probe[p].lease # l
Live(p)     == probe[p].stored = "live"

TypeOK ==
  /\ probe \in [Probe -> Row]
  /\ open \in SUBSET Probe
  /\ told \in [Probe -> Told]
  /\ maintained \in SUBSET Service
  /\ answers \in [Probe -> BOOLEAN]
  /\ task \in [Lease -> Task]
  /\ worker \in [Worker -> Scheduler]
  /\ fenced \in SUBSET Lease
  /\ blinded \in SUBSET Probe
  /\ faults \in 0 .. MaxFaults
  /\ edits \in 0 .. MaxEdits

NewRow(r, secret) ==
  [stored |-> "live", enabled |-> TRUE, rules |-> r, secret |-> secret, due |-> TRUE,
   lease |-> NoLease, lapsed |-> FALSE, state |-> "unknown", failures |-> 0, successes |-> 0]

Unheard == [health |-> "none", incident |-> "none"]

Init ==
  /\ \E r \in Rules : probe = [p \in Probe |-> [NewRow(r, "none") EXCEPT !.stored = "absent"]]
  /\ open = {}
  /\ told = [p \in Probe |-> Unheard]
  /\ maintained = {}
  /\ answers = [p \in Probe |-> TRUE]
  /\ task = [l \in Lease |-> NoTask]
  /\ worker = [w \in Worker |-> [up |-> TRUE, stopping |-> FALSE, busy |-> FALSE]]
  /\ fenced = {} /\ blinded = {}
  /\ faults = 0 /\ edits = 0

Edit  == edits < MaxEdits /\ edits' = edits + 1 /\ UNCHANGED faults
Fault == faults < MaxFaults /\ faults' = faults + 1 /\ UNCHANGED edits

-----------------------------------------------------------------------------
(* The Service Health pages. *)

\* saveProbe without an id.
CreateProbe(p) ==
  /\ probe[p].stored = "absent"
  /\ \E r \in Rules, s \in {"none", "sealed"}, on \in BOOLEAN :
       probe' = [probe EXCEPT ![p] = [NewRow(r, s) EXCEPT !.enabled = on]]
  /\ UNCHANGED <<open, told, maintained, answers, task, worker, fenced, blinded, bounds>>

\* New rules or headers put a probe back to unknown, but one that is down stays down.
ResetShowsPause(row) ==
  [row EXCEPT !.state = IF row.enabled THEN "unknown" ELSE "paused",
              !.failures = 0, !.successes = 0]
ResetAlways(row) == [row EXCEPT !.state = "unknown", !.failures = 0, !.successes = 0]
Reset(row) ==
  [row EXCEPT !.state = IF @ = "down" THEN @ ELSE "unknown", !.failures = 0, !.successes = 0]

\* What saving does to the lease.
KeepsLease(row) == [row EXCEPT !.due = TRUE]
TakesLease(row) == [row EXCEPT !.due = TRUE, !.lease = NoLease, !.lapsed = FALSE]

\* saveProbe: headers are kept, or replaced by none or by freshly sealed ones; old
\* headers that cannot be opened count as changed.
SaveProbe(p) ==
  /\ Edit
  /\ Live(p)
  /\ \E r \in Rules, on \in BOOLEAN, s \in {"none", "sealed", "unreadable"}, changed \in BOOLEAN :
       /\ s # probe[p].secret => changed /\ s # "unreadable"
       /\ s = probe[p].secret /\ changed => s = "sealed"
       /\ LET saved == TakesLease([probe[p] EXCEPT !.rules = r, !.enabled = on, !.secret = s])
          IN probe' = [probe EXCEPT
               ![p] = IF changed \/ r # probe[p].rules THEN Reset(saved) ELSE saved]
  /\ fenced' = fenced \cup {l \in Lease : Holds(l, p)}
  /\ UNCHANGED <<open, told, maintained, answers, task, worker, blinded>>

\* Deleting a probe or its service deletes its incidents by cascade; a check runs on.
Removed(P) ==
  /\ probe' = [p \in Probe |->
       IF p \in P /\ Live(p)
       THEN [NewRow(probe[p].rules, "none") EXCEPT !.stored = "removed"] ELSE probe[p]]
  /\ open' = open \ P
  /\ told' = [p \in Probe |-> IF p \in P THEN Unheard ELSE told[p]]
  /\ blinded' = blinded \ P
  /\ fenced' = fenced \cup {l \in Lease : \E p \in P : Holds(l, p)}
  /\ UNCHANGED <<maintained, answers, task, worker>>

DeleteProbe(p)   == Edit /\ Live(p) /\ Removed({p})
DeleteService(s) == Edit /\ Removed({p \in Probe : ServiceOf[p] = s})

\* checkNow, 10 seconds after the last check at the earliest.
CheckNow(p) ==
  /\ Live(p) /\ probe[p].enabled
  /\ probe[p].lease = NoLease \/ probe[p].lapsed
  /\ probe' = [probe EXCEPT ![p].due = TRUE]
  /\ UNCHANGED <<open, told, maintained, answers, task, worker, fenced, blinded, bounds>>

\* Windows are scheduled for a service or for all, begin, end and are cancelled.
Maintain ==
  /\ Edit
  /\ maintained' \in SUBSET Service
  /\ UNCHANGED <<probe, open, told, answers, task, worker, fenced, blinded>>

\* The replicas are given another TOKEN_ENCRYPTION_KEY: sealed headers do not open.
RotateKey ==
  /\ Edit
  /\ probe' = [p \in Probe |->
       IF probe[p].secret = "sealed" THEN [probe[p] EXCEPT !.secret = "unreadable"] ELSE probe[p]]
  /\ UNCHANGED <<open, told, maintained, answers, task, worker, fenced, blinded>>

\* Endpoints fail and recover as they please.
Flip(p) ==
  /\ answers' = [answers EXCEPT ![p] = ~@]
  /\ UNCHANGED <<probe, open, told, maintained, task, worker, fenced, blinded, bounds>>

-----------------------------------------------------------------------------
(* Time. *)

\* The interval, or the minute after a secret that did not open, ends.
FallDue(p) ==
  /\ Live(p) /\ ~probe[p].due
  /\ probe' = [probe EXCEPT ![p].due = TRUE]
  /\ UNCHANGED <<open, told, maintained, answers, task, worker, fenced, blinded, bounds>>

\* The 45 seconds of a lease nobody works under any more run out.
Lapse(p) ==
  /\ probe[p].lease # NoLease /\ ~probe[p].lapsed
  /\ \A l \in Lease : ~Holds(l, p)
  /\ probe' = [probe EXCEPT ![p].lapsed = TRUE]
  /\ UNCHANGED <<open, told, maintained, answers, task, worker, fenced, blinded, bounds>>

\* A check and its write outlast the 45 seconds (a stalled process or database).
Overrun(p) ==
  /\ Fault
  /\ ~probe[p].lapsed
  /\ \E l \in Lease : Holds(l, p) /\ fenced' = fenced \cup {l}
  /\ probe' = [probe EXCEPT ![p].lapsed = TRUE]
  /\ UNCHANGED <<open, told, maintained, answers, task, worker, blinded>>

-----------------------------------------------------------------------------
(* The scheduler: setInterval calls tick, which returns at once while      *)
(* stopped or busy.                                                        *)

BeginTick(w) ==
  /\ worker[w].up /\ ~worker[w].stopping /\ ~worker[w].busy
  /\ worker' = [worker EXCEPT ![w].busy = TRUE]
  /\ UNCHANGED <<probe, open, told, maintained, answers, task, fenced, blinded, bounds>>

\* A row that claim selects.
ClaimableAnyLease(p)   == Live(p) /\ probe[p].enabled /\ probe[p].due
ClaimableNeverLeased(p) == ClaimableAnyLease(p) /\ probe[p].lease = NoLease
Claimable(p) ==
  /\ Live(p) /\ probe[p].enabled /\ probe[p].due
  /\ probe[p].lease = NoLease \/ probe[p].lapsed

\* claim leases up to 4 - active.size rows, each on its own; leasing several is
\* several of these steps in a row.  A secret that does not open ends the claim.
Claim(w, p) ==
  /\ worker[w].up /\ worker[w].busy
  /\ Cardinality(Active(w)) < Concurrency
  /\ Claimable(p)
  /\ IF probe[p].secret = "unreadable"
     THEN /\ probe' = [probe EXCEPT ![p] =
               [@ EXCEPT !.due = FALSE, !.lease = NoLease, !.lapsed = FALSE, !.state = "unknown"]]
          /\ blinded' = IF p \in open THEN blinded \cup {p} ELSE blinded
          /\ UNCHANGED task
     ELSE /\ \E l \in Lease :
               /\ Fresh(l)
               /\ probe' = [probe EXCEPT ![p] = [@ EXCEPT !.lease = l, !.lapsed = FALSE]]
               /\ task' = [task EXCEPT ![l] =
                    [phase |-> "probe", on |-> p, by |-> w, rules |-> probe[p].rules, ok |-> FALSE]]
          /\ UNCHANGED blinded
  /\ UNCHANGED <<open, told, maintained, answers, worker, fenced, bounds>>

EndTick(w) ==
  /\ worker[w].up /\ worker[w].busy
  /\ worker' = [worker EXCEPT ![w].busy = FALSE]
  /\ UNCHANGED <<probe, open, told, maintained, answers, task, fenced, blinded, bounds>>

Stop(w) ==
  /\ Edit
  /\ worker[w].up /\ ~worker[w].stopping
  /\ worker' = [worker EXCEPT ![w].stopping = TRUE]
  /\ UNCHANGED <<probe, open, told, maintained, answers, task, fenced, blinded>>

\* The process ends once its tick and its checks have.
Exit(w) ==
  /\ worker[w].up /\ worker[w].stopping /\ ~worker[w].busy /\ Active(w) = {}
  /\ worker' = [worker EXCEPT ![w] = [up |-> FALSE, stopping |-> FALSE, busy |-> FALSE]]
  /\ UNCHANGED <<probe, open, told, maintained, answers, task, fenced, blinded, bounds>>

Start(w) ==
  /\ ~worker[w].up
  /\ worker' = [worker EXCEPT ![w].up = TRUE]
  /\ UNCHANGED <<probe, open, told, maintained, answers, task, fenced, blinded, bounds>>

\* A crash, or the forced exit 5 seconds after a stop that does not finish.
Crash(w) ==
  /\ Fault
  /\ worker[w].up
  /\ worker' = [worker EXCEPT ![w] = [up |-> FALSE, stopping |-> FALSE, busy |-> FALSE]]
  /\ task' = [l \in Lease |-> IF l \in Active(w) THEN NoTask ELSE task[l]]
  /\ fenced' = fenced \ Active(w)
  /\ UNCHANGED <<probe, open, told, maintained, answers, blinded>>

-----------------------------------------------------------------------------
(* One check: runProbe, then complete. *)

\* runProbe: the endpoint is asked, for timeoutMs at the longest.
Ask(l) ==
  /\ task[l].phase = "probe"
  /\ task' = [task EXCEPT ![l].phase = "record", ![l].ok = answers[task[l].on]]
  /\ UNCHANGED <<probe, open, told, maintained, answers, worker, fenced, blinded, bounds>>

Up(n) == IF n < MaxCount THEN n + 1 ELSE n

\* Inside a window a failed check changes nothing.
HeldNever(p, ok) == FALSE
Held(p, ok) == ServiceOf[p] \in maintained /\ ~ok

Successes(p, ok) ==
  IF ok THEN Up(probe[p].successes) ELSE IF Held(p, ok) THEN probe[p].successes ELSE 0
Failures(p, ok) ==
  IF ok THEN 0 ELSE IF Held(p, ok) THEN probe[p].failures ELSE Up(probe[p].failures)

\* The state a check leaves its probe in.
StatusFirstPass(p, ok) ==
  IF Held(p, ok) THEN probe[p].state
  ELSE IF ok THEN "healthy"
  ELSE IF probe[p].state = "down" \/ Failures(p, ok) >= FailAfter[probe[p].rules] THEN "down"
  ELSE "degraded"
Status(p, ok) ==
  IF Held(p, ok) THEN probe[p].state
  ELSE IF ok THEN IF probe[p].state = "down" /\ Successes(p, ok) < RecoverAfter[probe[p].rules]
                  THEN "down" ELSE "healthy"
  ELSE IF probe[p].state = "down" \/ Failures(p, ok) >= FailAfter[probe[p].rules] THEN "down"
  ELSE "degraded"

\* The incident it opens (one open incident a probe) or resolves.
OpensAnew(p, ok)  == Status(p, ok) = "down" /\ probe[p].state # "down"
Opens(p, ok)      == OpensAnew(p, ok) /\ p \notin open
ResolvesFromDown(p, ok) == Status(p, ok) = "healthy" /\ probe[p].state = "down" /\ p \in open
Resolves(p, ok)   == Status(p, ok) = "healthy" /\ p \in open

\* healthOutboxEvents, stored in the same transaction.
HealthEventDownOnly(p, ok) ==
  IF Status(p, ok) = "down" THEN "down"
  ELSE IF Status(p, ok) = "healthy" THEN "recovered" ELSE told[p].health
HealthEvent(p, ok) ==
  IF Status(p, ok) = probe[p].state /\ ~Opens(p, ok) /\ ~Resolves(p, ok) THEN told[p].health
  ELSE CASE Status(p, ok) = "down"     -> "down"
         [] Status(p, ok) = "degraded" -> "degraded"
         [] Status(p, ok) = "healthy" /\ probe[p].state \in {"down", "degraded"} -> "recovered"
         [] OTHER -> told[p].health
IncidentEvent(p, ok) ==
  IF Opens(p, ok) THEN "opened" ELSE IF Resolves(p, ok) THEN "resolved" ELSE told[p].incident

\* The lease a result is accepted under.
AcceptsLapsed(l) == probe[task[l].on].lease = l
Accepts(l) == probe[task[l].on].lease = l /\ ~probe[task[l].on].lapsed

Record(l) ==
  LET p  == task[l].on
      ok == task[l].ok
  IN
  /\ task[l].phase = "record"
  /\ IF Accepts(l)
     THEN /\ probe' = [probe EXCEPT ![p] =
               [@ EXCEPT !.state = Status(p, ok), !.failures = Failures(p, ok),
                         !.successes = Successes(p, ok), !.due = FALSE,
                         !.lease = NoLease, !.lapsed = FALSE]]
          /\ open' = IF Opens(p, ok) THEN open \cup {p}
                     ELSE IF Resolves(p, ok) THEN open \ {p} ELSE open
          /\ blinded' = IF Resolves(p, ok) THEN blinded \ {p} ELSE blinded
          /\ told' = [told EXCEPT ![p] =
               [health |-> HealthEvent(p, ok), incident |-> IncidentEvent(p, ok)]]
     ELSE UNCHANGED <<probe, open, blinded, told>>
  /\ task' = [task EXCEPT ![l] = NoTask]
  /\ fenced' = fenced \ {l}
  /\ UNCHANGED <<maintained, answers, worker, bounds>>

\* The transaction fails; the check logs it and ends, and its lease runs out.
RecordFails(l) ==
  /\ Fault
  /\ task[l].phase = "record"
  /\ task' = [task EXCEPT ![l] = NoTask]
  /\ fenced' = fenced \ {l}
  /\ UNCHANGED <<probe, open, told, maintained, answers, worker, blinded>>

-----------------------------------------------------------------------------

TaskStep(l) == Ask(l) \/ Record(l)

Next ==
  \/ \E p \in Probe :
       \/ CreateProbe(p) \/ SaveProbe(p) \/ DeleteProbe(p) \/ CheckNow(p)
       \/ Flip(p) \/ FallDue(p) \/ Lapse(p) \/ Overrun(p)
       \/ \E w \in Worker : Claim(w, p)
  \/ Maintain \/ RotateKey
  \/ \E s \in Service : DeleteService(s)
  \/ \E w \in Worker :
       BeginTick(w) \/ EndTick(w) \/ Stop(w) \/ Exit(w) \/ Start(w) \/ Crash(w)
  \/ \E l \in Lease : TaskStep(l) \/ RecordFails(l)

Spec == Init /\ [][Next]_vars

\* Timers fire, checks end (runProbe has a timer of its own) and time passes; a replica
\* that exits is started again.  claim takes due probes oldest first, so one that stays
\* due is not passed over for ever.
Fairness ==
  /\ \A l \in Lease : WF_vars(TaskStep(l))
  /\ \A p \in Probe : WF_vars(FallDue(p)) /\ WF_vars(Lapse(p))
  /\ \A p \in Probe : SF_vars(\E w \in Worker : Claim(w, p))
  /\ \A w \in Worker : /\ WF_vars(BeginTick(w)) /\ WF_vars(EndTick(w))
                       /\ WF_vars(Exit(w)) /\ WF_vars(Start(w))

FairSpec == Spec /\ Fairness

-----------------------------------------------------------------------------
(* Properties. *)

\* Leases and saves fence checks: a check that may still be recorded was made under
\* the rules now in force of a probe that is not paused, so a result of old rules never
\* counts against new ones, nor one of a pause in it.
FencedByEdits ==
  \A l \in Lease, p \in Probe : Holds(l, p) =>
    Live(p) /\ probe[p].enabled /\ task[l].rules = probe[p].rules

\* A running check whose lease has not run out, and whose probe was not saved or
\* deleted since, is the only one its probe will take a result from.
LeaseProtects ==
  \A l \in Lease : Running(l) /\ l \notin fenced => probe[task[l].on].lease = l

\* The two above with what makes them inductive: a check whose lease ran out is fenced.
LapsedFenced == \A l \in Lease, p \in Probe : Holds(l, p) /\ probe[p].lapsed => l \in fenced

FenceInv == FencedByEdits /\ LapsedFenced /\ LeaseProtects

\* An incident spans a probe's time down: down means that one is open, and an open one
\* means down, unless the probe's secret could not be opened since.
IncidentSpansDown ==
  \A p \in Probe : /\ probe[p].state = "down" => p \in open
                   /\ p \in open /\ p \notin blinded => probe[p].state = "down"

\* What webhooks were last told is what the pages show: an incident they believe open is
\* open, and a probe that is down or degraded was the last thing they heard of it.
AlertsAgree ==
  \A p \in Probe : /\ told[p].incident = "opened" <=> p \in open
                   /\ probe[p].state \in {"down", "degraded"} => told[p].health = probe[p].state

\* The two above with what makes them inductive: a probe that is not there is blank.
AbsentBlank == \A p \in Probe : ~Live(p) => probe[p].state = "unknown" /\ p \notin open

IncidentInv == IncidentSpansDown /\ AlertsAgree /\ AbsentBlank

\* An incident opens only on as many failed checks in a row as the rules ask for, and
\* never on a check recorded inside a maintenance window.
IncidentEarned ==
  [][\A p \in open' \ open : /\ probe'[p].failures >= FailAfter[probe[p].rules]
                             /\ ServiceOf[p] \notin maintained]_vars

\* An incident is resolved only by as many passing checks as the rules ask for, unless
\* the probe's secret could not be opened while it was open.
RecoveryEarned ==
  [][\A p \in open \ (open' \cup blinded) :
       Live(p)' => probe'[p].successes >= RecoverAfter[probe[p].rules]]_vars

Checked(p) == Live(p) /\ probe[p].enabled /\ probe[p].secret # "unreadable"

\* A probe that is on is checked again and again, though replicas crash, checks are lost
\* and leases run out; and the incident follows the endpoint: one that stays down outside
\* maintenance has an open incident in the end, one that stays up has none.
IncidentFollows ==
  \A p \in Probe :
    /\ []<>(~Live(p) \/ ~probe[p].enabled \/ ~probe[p].due)
    /\ <>[](Checked(p) /\ ~answers[p] /\ ServiceOf[p] \notin maintained) => <>[](p \in open)
    /\ <>[](Checked(p) /\ answers[p]) => <>[](p \notin open)

=============================================================================
