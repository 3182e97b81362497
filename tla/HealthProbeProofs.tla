-------------------------- MODULE HealthProbeProofs --------------------------
(***************************************************************************)
(* Theorems about HealthProbe for any number of probes, services, rules,   *)
(* thresholds, replicas and lease tokens.                                  *)
(***************************************************************************)
EXTENDS HealthProbe, TLAPS

\* Changing the columns that one statement changes keeps a row's type.
LEMMA RowColumns ==
  ASSUME NEW r \in Row
  PROVE  /\ [r EXCEPT !.due = TRUE] \in Row
         /\ [r EXCEPT !.lapsed = TRUE] \in Row
         /\ [r EXCEPT !.secret = "unreadable"] \in Row
         /\ [r EXCEPT !.due = FALSE, !.lease = NoLease, !.lapsed = FALSE, !.state = "unknown"] \in Row
         /\ \A l \in Lease : [r EXCEPT !.lease = l, !.lapsed = FALSE] \in Row
  BY DEF Row, State

LEMMA LapsedRow ==
  ASSUME NEW r \in Row
  PROVE  LET q == [r EXCEPT !.lapsed = TRUE] IN
         /\ q.stored = r.stored /\ q.enabled = r.enabled /\ q.rules = r.rules
         /\ q.lease = r.lease /\ q.state = r.state
  BY DEF Row

\* What a save leaves is a row; a reset puts a state other than down to unknown.
LEMMA SavedRow ==
  ASSUME NEW r \in Row, NEW u \in Rules, NEW on \in BOOLEAN,
         NEW s \in {"none", "sealed", "unreadable"}
  PROVE  TakesLease([r EXCEPT !.rules = u, !.enabled = on, !.secret = s]) \in Row
  BY DEF Row, TakesLease

LEMMA ResetRow ==
  ASSUME HealthAssumption, NEW r \in Row
  PROVE  /\ Reset(r) \in Row
         /\ Reset(r).stored = r.stored /\ Reset(r).lease = r.lease
         /\ Reset(r).state = IF r.state = "down" THEN "down" ELSE "unknown"
<1>1. 0 \in 0 .. MaxCount
  BY DEF HealthAssumption
<1>2. QED  BY <1>1 DEF Row, State, Reset

LEMMA NewRows ==
  ASSUME HealthAssumption, NEW u \in Rules, NEW s \in {"none", "sealed"}
  PROVE  /\ NewRow(u, s) \in Row
         /\ \A on \in BOOLEAN : [NewRow(u, s) EXCEPT !.enabled = on] \in Row
         /\ \A x \in {"absent", "removed"} : [NewRow(u, s) EXCEPT !.stored = x] \in Row
<1>1. NewRow(u, s) \in Row
  BY DEF HealthAssumption, NewRow, Row, State
<1>2. ASSUME NEW q \in Row
      PROVE  /\ \A on \in BOOLEAN : [q EXCEPT !.enabled = on] \in Row
             /\ \A x \in {"absent", "removed"} : [q EXCEPT !.stored = x] \in Row
  BY DEF Row
<1>3. QED  BY <1>1, <1>2

\* The flags of a scheduler.
LEMMA WorkerFlags ==
  ASSUME NEW f \in Scheduler
  PROVE  /\ \A b \in BOOLEAN : [f EXCEPT !.busy = b] \in Scheduler
         /\ [f EXCEPT !.stopping = TRUE] \in Scheduler
         /\ [f EXCEPT !.up = TRUE] \in Scheduler
         /\ [up |-> FALSE, stopping |-> FALSE, busy |-> FALSE] \in Scheduler
  BY DEF Scheduler

\* A check leaves a state and counters of the right type.
LEMMA CheckTypes ==
  ASSUME HealthAssumption, TypeOK, NEW p \in Probe, NEW ok \in BOOLEAN
  PROVE  /\ Status(p, ok) \in State
         /\ Failures(p, ok) \in 0 .. MaxCount
         /\ Successes(p, ok) \in 0 .. MaxCount
         /\ [health |-> HealthEvent(p, ok), incident |-> IncidentEvent(p, ok)] \in Told
<1>0. /\ probe[p].state \in State
      /\ probe[p].failures \in 0 .. MaxCount /\ probe[p].successes \in 0 .. MaxCount
      /\ told[p].health \in {"none", "degraded", "down", "recovered"}
      /\ told[p].incident \in {"none", "opened", "resolved"}
  BY DEF TypeOK, Row, Told
<1>1. Status(p, ok) \in State
  BY <1>0 DEF Status, State
<1>2. Failures(p, ok) \in 0 .. MaxCount
  BY <1>0 DEF Failures, Up, HealthAssumption
<1>3. Successes(p, ok) \in 0 .. MaxCount
  BY <1>0 DEF Successes, Up, HealthAssumption
<1>4. HealthEvent(p, ok) \in {"none", "degraded", "down", "recovered"}
  BY <1>0, <1>1 DEF HealthEvent, State
<1>5. IncidentEvent(p, ok) \in {"none", "opened", "resolved"}
  BY <1>0 DEF IncidentEvent
<1>6. QED  BY <1>1, <1>2, <1>3, <1>4, <1>5 DEF Told

-----------------------------------------------------------------------------
(* Types. *)

LEMMA TypeInvariant == Init => TypeOK
<1> SUFFICES ASSUME Init PROVE TypeOK
  OBVIOUS
<1>1. probe \in [Probe -> Row]
  BY HealthAssumption, NewRows DEF Init
<1>2. QED
  BY <1>1, HealthAssumption DEF Init, TypeOK, Told, Unheard, Task, Scheduler

LEMMA TypeStep == TypeOK /\ [Next]_vars => TypeOK'
<1> SUFFICES ASSUME TypeOK, [Next]_vars PROVE TypeOK'
  OBVIOUS
<1> USE HealthAssumption
<1>1. ASSUME NEW p \in Probe, CreateProbe(p) PROVE TypeOK'
  <2>1. probe' \in [Probe -> Row]
    <3>1. PICK r \in Rules, s \in {"none", "sealed"}, on \in BOOLEAN :
            probe' = [probe EXCEPT ![p] = [NewRow(r, s) EXCEPT !.enabled = on]]
      BY <1>1 DEF CreateProbe
    <3>2. [NewRow(r, s) EXCEPT !.enabled = on] \in Row
      BY NewRows
    <3>3. QED  BY <3>1, <3>2 DEF TypeOK
  <2>2. QED  BY <1>1, <2>1 DEF TypeOK, CreateProbe, bounds
<1>2. ASSUME NEW p \in Probe, SaveProbe(p) PROVE TypeOK'
  <2>1. probe' \in [Probe -> Row]
    <3>1. PICK r \in Rules, on \in BOOLEAN, s \in {"none", "sealed", "unreadable"},
               changed \in BOOLEAN :
            LET saved == TakesLease([probe[p] EXCEPT !.rules = r, !.enabled = on, !.secret = s])
            IN probe' = [probe EXCEPT
                 ![p] = IF changed \/ r # probe[p].rules THEN Reset(saved) ELSE saved]
      BY <1>2 DEF SaveProbe
    <3>2. probe[p] \in Row
      BY DEF TypeOK
    <3>3. TakesLease([probe[p] EXCEPT !.rules = r, !.enabled = on, !.secret = s]) \in Row
      BY <3>2, SavedRow
    <3>4. QED  BY <3>1, <3>3, ResetRow DEF TypeOK
  <2>2. QED  BY <1>2, <2>1 DEF TypeOK, SaveProbe, Edit
<1>3. ASSUME NEW P \in SUBSET Probe, Edit, Removed(P) PROVE TypeOK'
  <2>1. \A p \in Probe : probe[p].rules \in Rules
    BY DEF TypeOK, Row
  <2>2. probe' \in [Probe -> Row]
    BY <1>3, <2>1, NewRows DEF TypeOK, Removed
  <2>3. told' \in [Probe -> Told]
    BY <1>3 DEF TypeOK, Removed, Told, Unheard
  <2>4. QED  BY <1>3, <2>2, <2>3 DEF TypeOK, Removed, Edit
<1>4. ASSUME NEW p \in Probe, DeleteProbe(p) PROVE TypeOK'
  BY <1>3, <1>4 DEF DeleteProbe
<1>5. ASSUME NEW s \in Service, DeleteService(s) PROVE TypeOK'
  BY <1>3, <1>5 DEF DeleteService
<1>6. ASSUME NEW p \in Probe, CheckNow(p) \/ FallDue(p) \/ Lapse(p) PROVE TypeOK'
  <2>1. probe' \in [Probe -> Row]
    <3>1. CASE CheckNow(p)  BY <3>1, RowColumns DEF TypeOK, CheckNow
    <3>2. CASE FallDue(p)   BY <3>2, RowColumns DEF TypeOK, FallDue
    <3>3. CASE Lapse(p)     BY <3>3, RowColumns DEF TypeOK, Lapse
    <3>4. QED  BY <1>6, <3>1, <3>2, <3>3
  <2>2. QED  BY <1>6, <2>1 DEF TypeOK, CheckNow, FallDue, Lapse, bounds
<1>7. ASSUME NEW p \in Probe, Flip(p) PROVE TypeOK'
  BY <1>7 DEF TypeOK, Flip, bounds
<1>8. ASSUME NEW p \in Probe, Overrun(p) PROVE TypeOK'
  <2>1. probe' \in [Probe -> Row]
    BY <1>8, RowColumns DEF TypeOK, Overrun
  <2>2. QED  BY <1>8, <2>1 DEF TypeOK, Overrun, Fault
<1>9. ASSUME NEW w \in Worker, NEW p \in Probe, Claim(w, p) PROVE TypeOK'
  <2>1. CASE probe[p].secret = "unreadable"
    <3>1. probe' \in [Probe -> Row]
      <4>1. probe' = [probe EXCEPT ![p] =
               [@ EXCEPT !.due = FALSE, !.lease = NoLease, !.lapsed = FALSE, !.state = "unknown"]]
        BY <1>9, <2>1 DEF Claim
      <4>2. QED  BY <4>1, RowColumns DEF TypeOK
    <3>2. QED  BY <1>9, <2>1, <3>1 DEF TypeOK, Claim, bounds
  <2>2. CASE probe[p].secret # "unreadable"
    <3>1. PICK l \in Lease :
            /\ probe' = [probe EXCEPT ![p] = [@ EXCEPT !.lease = l, !.lapsed = FALSE]]
            /\ task' = [task EXCEPT ![l] =
                 [phase |-> "probe", on |-> p, by |-> w, rules |-> probe[p].rules, ok |-> FALSE]]
      BY <1>9, <2>2 DEF Claim
    <3>2. probe' \in [Probe -> Row]
      BY <3>1, RowColumns DEF TypeOK
    <3>3. probe[p].rules \in Rules
      BY DEF TypeOK, Row
    <3>4. task' \in [Lease -> Task]
      BY <3>1, <3>3 DEF TypeOK, Task
    <3>5. QED  BY <1>9, <2>2, <3>2, <3>4 DEF TypeOK, Claim, bounds
  <2>3. QED  BY <2>1, <2>2
<1>10. CASE Maintain
  BY <1>10 DEF TypeOK, Maintain, Edit
<1>11. CASE RotateKey
  <2>1. probe' \in [Probe -> Row]
    BY <1>11, RowColumns DEF TypeOK, RotateKey
  <2>2. QED  BY <1>11, <2>1 DEF TypeOK, RotateKey, Edit
<1>12. ASSUME NEW w \in Worker, BeginTick(w) \/ EndTick(w) \/ Exit(w) \/ Start(w) PROVE TypeOK'
  <2>1. worker' \in [Worker -> Scheduler]
    <3>1. CASE BeginTick(w)  BY <3>1, WorkerFlags DEF TypeOK, BeginTick
    <3>2. CASE EndTick(w)    BY <3>2, WorkerFlags DEF TypeOK, EndTick
    <3>3. CASE Exit(w)       BY <3>3, WorkerFlags DEF TypeOK, Exit
    <3>4. CASE Start(w)      BY <3>4, WorkerFlags DEF TypeOK, Start
    <3>5. QED  BY <1>12, <3>1, <3>2, <3>3, <3>4
  <2>2. QED  BY <1>12, <2>1 DEF TypeOK, BeginTick, EndTick, Exit, Start, bounds
<1>13. ASSUME NEW w \in Worker, Stop(w) PROVE TypeOK'
  <2>1. worker' \in [Worker -> Scheduler]
    BY <1>13, WorkerFlags DEF TypeOK, Stop
  <2>2. QED  BY <1>13, <2>1 DEF TypeOK, Stop, Edit
<1>14. ASSUME NEW w \in Worker, Crash(w) PROVE TypeOK'
  <2>1. worker' \in [Worker -> Scheduler]
    BY <1>14, WorkerFlags DEF TypeOK, Crash
  <2>2. task' \in [Lease -> Task]
    BY <1>14 DEF TypeOK, Crash, Task
  <2>3. QED  BY <1>14, <2>1, <2>2 DEF TypeOK, Crash, Fault
<1>15. ASSUME NEW l \in Lease, Ask(l) PROVE TypeOK'
  <2>1. task' \in [Lease -> Task]
    <3>1. /\ task[l] \in [phase : {"probe", "record"}, on : Probe, by : Worker,
                          rules : Rules, ok : BOOLEAN]
          /\ answers[task[l].on] \in BOOLEAN
      BY <1>15 DEF TypeOK, Ask, Task, NoTask
    <3>2. [task[l] EXCEPT !.phase = "record", !.ok = answers[task[l].on]] \in Task
      BY <3>1 DEF Task
    <3>3. QED  BY <1>15, <3>2 DEF TypeOK, Ask
  <2>2. QED  BY <1>15, <2>1 DEF TypeOK, Ask, bounds
<1>16. ASSUME NEW l \in Lease, Record(l) PROVE TypeOK'
  <2> DEFINE p  == task[l].on
             ok == task[l].ok
  <2>1. p \in Probe /\ ok \in BOOLEAN
    BY <1>16 DEF TypeOK, Record, Task, NoTask
  <2>2. task' \in [Lease -> Task]
    BY <1>16 DEF TypeOK, Record, Task
  <2>3. CASE ~Accepts(l)
    BY <1>16, <2>2, <2>3 DEF TypeOK, Record, bounds
  <2>4. CASE Accepts(l)
    <3>1. [probe[p] EXCEPT !.state = Status(p, ok), !.failures = Failures(p, ok),
             !.successes = Successes(p, ok), !.due = FALSE,
             !.lease = NoLease, !.lapsed = FALSE] \in Row
      <4>1. probe[p] \in Row
        BY <2>1 DEF TypeOK
      <4>2. QED  BY <2>1, <4>1, CheckTypes DEF Row
    <3>2. probe' \in [Probe -> Row]
      BY <1>16, <2>1, <2>4, <3>1 DEF TypeOK, Record
    <3>3. told' \in [Probe -> Told]
      BY <1>16, <2>1, <2>4, CheckTypes DEF TypeOK, Record
    <3>4. QED  BY <1>16, <2>1, <2>2, <2>4, <3>2, <3>3 DEF TypeOK, Record, bounds
  <2>5. QED  BY <2>3, <2>4
<1>17. ASSUME NEW l \in Lease, RecordFails(l) PROVE TypeOK'
  BY <1>17 DEF TypeOK, RecordFails, Fault, Task
<1>18. CASE UNCHANGED vars
  BY <1>18 DEF TypeOK, vars, bounds
<1>19. QED
  BY <1>1, <1>2, <1>4, <1>5, <1>6, <1>7, <1>8, <1>9, <1>10, <1>11, <1>12, <1>13, <1>14,
     <1>15, <1>16, <1>17, <1>18 DEF Next, TaskStep

\* Type correctness: every reachable state has the shape the tables declare.
THEOREM TypeCorrect == Spec => []TypeOK
  BY TypeInvariant, TypeStep, PTL DEF Spec

-----------------------------------------------------------------------------
(* Fences. *)

\* The probe of a running check is one, and its lease is not NULL.
LEMMA RunningTask ==
  ASSUME TypeOK, NEW l \in Lease, Running(l)
  PROVE  task[l].on \in Probe /\ l # NoLease
  BY HealthAssumption DEF TypeOK, Task, NoTask, Running

\* A step of the pages or of time that runs no check and touches no lease keeps the
\* fences if it keeps the rules and the switch of every live probe.
LEMMA FenceKept ==
  ASSUME TypeOK, FenceInv, UNCHANGED <<task, fenced>>,
         \A p \in Probe : /\ probe'[p].lease = probe[p].lease
                          /\ probe'[p].lapsed = probe[p].lapsed
                          /\ probe'[p].rules = probe[p].rules
                          /\ probe'[p].enabled = probe[p].enabled
                          /\ probe'[p].stored = probe[p].stored
  PROVE  FenceInv'
  BY RunningTask DEF FenceInv, FencedByEdits, LapsedFenced, LeaseProtects, Holds, Running, Live

\* A save drops the lease and keeps the state, unless it puts one other than down to unknown.
LEMMA SaveEffect ==
  ASSUME TypeOK, NEW p \in Probe, SaveProbe(p)
  PROVE  /\ probe'[p].stored = probe[p].stored /\ probe'[p].lease = NoLease
         /\ \/ probe'[p].state = probe[p].state
            \/ probe'[p].state = "unknown" /\ probe[p].state # "down"
         /\ \A q \in Probe \ {p} : probe'[q] = probe[q]
<1>1. PICK r \in Rules, on \in BOOLEAN, s \in {"none", "sealed", "unreadable"},
           changed \in BOOLEAN :
        LET saved == TakesLease([probe[p] EXCEPT !.rules = r, !.enabled = on, !.secret = s])
        IN probe' = [probe EXCEPT
             ![p] = IF changed \/ r # probe[p].rules THEN Reset(saved) ELSE saved]
  BY DEF SaveProbe
<1> DEFINE saved == TakesLease([probe[p] EXCEPT !.rules = r, !.enabled = on, !.secret = s])
<1>2. /\ saved \in Row /\ saved.stored = probe[p].stored
      /\ saved.lease = NoLease /\ saved.state = probe[p].state
  <2>1. probe[p] \in Row
    BY DEF TypeOK
  <2>2. saved \in Row
    BY <2>1, SavedRow
  <2>3. saved.stored = probe[p].stored /\ saved.lease = NoLease /\ saved.state = probe[p].state
    BY <2>1 DEF TakesLease, Row
  <2>4. QED  BY <2>2, <2>3
<1>3. /\ probe'[p] = saved \/ probe'[p] = Reset(saved)
      /\ \A q \in Probe \ {p} : probe'[q] = probe[q]
  BY <1>1 DEF TypeOK
<1> HIDE DEF saved
<1>4. CASE probe'[p] = saved         BY <1>2, <1>3, <1>4
<1>5. CASE probe'[p] = Reset(saved)  BY <1>2, <1>3, <1>5, HealthAssumption, ResetRow
<1>6. QED  BY <1>3, <1>4, <1>5

\* A recorded result gives its probe the state and the counters of the check and ends
\* the lease.
LEMMA RecordEffect ==
  ASSUME TypeOK, NEW l \in Lease, Record(l), Accepts(l)
  PROVE  LET p  == task[l].on
             ok == task[l].ok IN
         /\ p \in Probe /\ ok \in BOOLEAN /\ Holds(l, p)
         /\ probe'[p].state = Status(p, ok) /\ probe'[p].stored = probe[p].stored
         /\ probe'[p].failures = Failures(p, ok) /\ probe'[p].successes = Successes(p, ok)
         /\ probe'[p].lease = NoLease
         /\ \A q \in Probe \ {p} : probe'[q] = probe[q]
<1> DEFINE p  == task[l].on
           ok == task[l].ok
<1>1. p \in Probe /\ ok \in BOOLEAN /\ Holds(l, p)
  BY DEF Record, Accepts, Holds, Running, TypeOK, Task, NoTask
<1>2. probe[p] \in Row
  BY <1>1 DEF TypeOK
<1>3. probe' = [probe EXCEPT ![p] =
         [@ EXCEPT !.state = Status(p, ok), !.failures = Failures(p, ok),
                   !.successes = Successes(p, ok), !.due = FALSE,
                   !.lease = NoLease, !.lapsed = FALSE]]
  BY DEF Record
<1> HIDE DEF p, ok
<1>4. /\ probe'[p].state = Status(p, ok) /\ probe'[p].stored = probe[p].stored
      /\ probe'[p].failures = Failures(p, ok) /\ probe'[p].successes = Successes(p, ok)
      /\ probe'[p].lease = NoLease
      /\ \A q \in Probe \ {p} : probe'[q] = probe[q]
  BY <1>1, <1>2, <1>3 DEF TypeOK, Row
<1>5. QED  BY <1>1, <1>4 DEF p, ok

\* A row that loses its lease keeps the fences if the check that held it is fenced, or
\* none held it.
LEMMA LeaseDropped ==
  ASSUME TypeOK, FenceInv, UNCHANGED task, fenced \subseteq fenced',
         \A p \in Probe : \/ probe'[p] = probe[p]
                          \/ /\ probe'[p].lease = NoLease
                             /\ \A l \in Lease : Holds(l, p) => l \in fenced'
  PROVE  FenceInv'
<1>1. ASSUME NEW l \in Lease, NEW p \in Probe, Holds(l, p)'
      PROVE  Holds(l, p) /\ probe'[p] = probe[p]
  <2>1. l # NoLease
    BY HealthAssumption
  <2>2. probe'[p] = probe[p]
    BY <1>1, <2>1 DEF Holds
  <2>3. QED  BY <1>1, <2>2 DEF Holds, Running
<1>2. FencedByEdits'
  BY <1>1 DEF FenceInv, FencedByEdits, Live
<1>3. LapsedFenced'
  BY <1>1 DEF FenceInv, LapsedFenced
<1>4. LeaseProtects'
  <2> SUFFICES ASSUME NEW l \in Lease, Running(l), l \notin fenced'
               PROVE  probe'[task[l].on].lease = l
    BY DEF LeaseProtects, Running
  <2>1. task[l].on \in Probe /\ probe[task[l].on].lease = l
    BY RunningTask DEF FenceInv, LeaseProtects
  <2>2. Holds(l, task[l].on)
    BY <2>1 DEF Holds
  <2>3. QED  BY <2>1, <2>2
<1>5. QED  BY <1>2, <1>3, <1>4 DEF FenceInv

LEMMA FenceStep == TypeOK /\ FenceInv /\ [Next]_vars => FenceInv'
<1> SUFFICES ASSUME TypeOK, FenceInv, [Next]_vars PROVE FenceInv'
  OBVIOUS
<1> USE HealthAssumption
<1>1. ASSUME NEW p \in Probe, CreateProbe(p) PROVE FenceInv'
  <2>1. PICK r \in Rules, s \in {"none", "sealed"}, on \in BOOLEAN :
          probe' = [probe EXCEPT ![p] = [NewRow(r, s) EXCEPT !.enabled = on]]
    BY <1>1 DEF CreateProbe
  <2>2. probe'[p].lease = NoLease /\ \A q \in Probe \ {p} : probe'[q] = probe[q]
    BY <2>1 DEF TypeOK, NewRow
  <2>3. \A l \in Lease : ~Holds(l, p)
    BY <1>1 DEF CreateProbe, FenceInv, FencedByEdits, Live
  <2>4. QED  BY <1>1, <2>2, <2>3, LeaseDropped DEF CreateProbe
<1>2. ASSUME NEW p \in Probe, SaveProbe(p) PROVE FenceInv'
  <2>3. probe'[p].lease = NoLease /\ \A q \in Probe \ {p} : probe'[q] = probe[q]
    BY <1>2, SaveEffect
  <2>4. UNCHANGED task /\ fenced \subseteq fenced' /\ \A l \in Lease : Holds(l, p) => l \in fenced'
    BY <1>2 DEF SaveProbe
  <2>5. QED  BY <2>3, <2>4, LeaseDropped
<1>3. ASSUME NEW P \in SUBSET Probe, Removed(P) PROVE FenceInv'
  <2>1. \A p \in Probe : probe'[p] = probe[p] \/ (p \in P /\ probe'[p].lease = NoLease)
    <3>1. \A u : [NewRow(u, "none") EXCEPT !.stored = "removed"].lease = NoLease
      BY DEF NewRow
    <3>2. \A p \in Probe :
            \/ probe'[p] = probe[p]
            \/ p \in P /\ probe'[p] = [NewRow(probe[p].rules, "none") EXCEPT !.stored = "removed"]
      BY <1>3 DEF Removed
    <3>3. QED  BY <3>1, <3>2
  <2>2. /\ UNCHANGED task /\ fenced \subseteq fenced'
        /\ \A l \in Lease : (\E p \in P : Holds(l, p)) => l \in fenced'
    BY <1>3 DEF Removed
  <2>3. QED  BY <2>1, <2>2, LeaseDropped
<1>4. ASSUME NEW p \in Probe, DeleteProbe(p) PROVE FenceInv'
  BY <1>3, <1>4 DEF DeleteProbe
<1>5. ASSUME NEW s \in Service, DeleteService(s) PROVE FenceInv'
  BY <1>3, <1>5 DEF DeleteService
<1>6. ASSUME NEW p \in Probe, CheckNow(p) \/ FallDue(p) PROVE FenceInv'
  <2>1. probe' = [probe EXCEPT ![p].due = TRUE] /\ UNCHANGED <<task, fenced>>
    BY <1>6 DEF CheckNow, FallDue
  <2>2. QED  BY <2>1, FenceKept DEF TypeOK, Row
<1>7. ASSUME NEW p \in Probe, Lapse(p) PROVE FenceInv'
  <2>1. /\ probe' = [probe EXCEPT ![p].lapsed = TRUE] /\ UNCHANGED <<task, fenced>>
        /\ \A l \in Lease : ~Holds(l, p)
    BY <1>7 DEF Lapse
  <2>2. \A q \in Probe : /\ probe'[q].lease = probe[q].lease /\ probe'[q].rules = probe[q].rules
                         /\ probe'[q].enabled = probe[q].enabled /\ probe'[q].stored = probe[q].stored
                         /\ q # p => probe'[q].lapsed = probe[q].lapsed
    BY <2>1, LapsedRow DEF TypeOK
  <2>3. QED
    BY <2>1, <2>2, RunningTask DEF FenceInv, FencedByEdits, LapsedFenced, LeaseProtects, Holds, Running, Live
<1>8. ASSUME NEW p \in Probe, Overrun(p) PROVE FenceInv'
  <2>1. PICK l \in Lease : Holds(l, p) /\ fenced' = fenced \cup {l}
    BY <1>8 DEF Overrun
  <2>2. probe' = [probe EXCEPT ![p].lapsed = TRUE] /\ UNCHANGED task
    BY <1>8 DEF Overrun
  <2>3. \A q \in Probe : /\ probe'[q].lease = probe[q].lease /\ probe'[q].rules = probe[q].rules
                         /\ probe'[q].enabled = probe[q].enabled /\ probe'[q].stored = probe[q].stored
                         /\ q # p => probe'[q].lapsed = probe[q].lapsed
    BY <2>2, LapsedRow DEF TypeOK
  <2>4. \A k \in Lease : Holds(k, p) => k = l
    BY <2>1 DEF Holds
  <2>5. QED
    BY <2>1, <2>2, <2>3, <2>4, RunningTask
       DEF FenceInv, FencedByEdits, LapsedFenced, LeaseProtects, Holds, Running, Live
<1>9. ASSUME NEW w \in Worker, NEW p \in Probe, Claim(w, p) PROVE FenceInv'
  <2>0. \A l \in Lease : Holds(l, p) => l \in fenced
    BY <1>9 DEF Claim, Claimable, FenceInv, LapsedFenced, Holds
  <2>1. CASE probe[p].secret = "unreadable"
    <3>1. /\ probe' = [probe EXCEPT ![p] =
               [@ EXCEPT !.due = FALSE, !.lease = NoLease, !.lapsed = FALSE, !.state = "unknown"]]
          /\ UNCHANGED <<task, fenced>>
      BY <1>9, <2>1 DEF Claim
    <3>2. probe'[p].lease = NoLease /\ \A q \in Probe \ {p} : probe'[q] = probe[q]
      BY <3>1 DEF TypeOK, Row
    <3>3. QED  BY <2>0, <3>1, <3>2, LeaseDropped
  <2>2. CASE probe[p].secret # "unreadable"
    <3>1. PICK l \in Lease :
            /\ Fresh(l)
            /\ probe' = [probe EXCEPT ![p] = [@ EXCEPT !.lease = l, !.lapsed = FALSE]]
            /\ task' = [task EXCEPT ![l] =
                 [phase |-> "probe", on |-> p, by |-> w, rules |-> probe[p].rules, ok |-> FALSE]]
      BY <1>9, <2>2 DEF Claim
    <3>2. /\ Live(p)' /\ probe'[p].enabled /\ probe'[p].rules = probe[p].rules
          /\ probe'[p].lease = l /\ probe'[p].lapsed = FALSE
          /\ \A q \in Probe \ {p} : probe'[q] = probe[q]
      BY <1>9, <3>1 DEF Claim, Claimable, Live, TypeOK, Row
    <3>3. /\ task'[l].on = p /\ task'[l].rules = probe[p].rules /\ Running(l)'
          /\ \A k \in Lease \ {l} : task'[k] = task[k]
          /\ UNCHANGED fenced
      BY <1>9, <3>1 DEF Claim, TypeOK, Running
    <3>4. ~Running(l) /\ \A q \in Probe : probe[q].lease # l
      BY <3>1 DEF Fresh
    <3>5. ASSUME NEW k \in Lease, NEW q \in Probe, Holds(k, q)'
          PROVE  (k = l /\ q = p) \/ (k # l /\ q # p /\ Holds(k, q))
      <4>1. CASE k = l
        <5>1. task'[k].on = q
          BY <3>5 DEF Holds
        <5>2. QED  BY <3>3, <4>1, <5>1
      <4>2. CASE k # l
        <5>1. q # p
          BY <3>2, <3>5, <4>2 DEF Holds
        <5>2. QED  BY <3>2, <3>3, <3>5, <4>2, <5>1 DEF Holds, Running
      <4>3. QED  BY <4>1, <4>2
    <3>6. FencedByEdits'
      BY <3>2, <3>3, <3>5 DEF FenceInv, FencedByEdits, Live
    <3>7. LapsedFenced'
      BY <3>2, <3>3, <3>5 DEF FenceInv, LapsedFenced
    <3>8. LeaseProtects'
      <4> SUFFICES ASSUME NEW k \in Lease, k # l, Running(k), k \notin fenced
                   PROVE  probe'[task[k].on].lease = k
        BY <3>2, <3>3 DEF LeaseProtects, Running
      <4>1. task[k].on \in Probe /\ probe[task[k].on].lease = k
        BY RunningTask DEF FenceInv, LeaseProtects
      <4>2. task[k].on # p
        BY <2>0, <4>1 DEF Holds
      <4>3. QED  BY <3>2, <4>1, <4>2
    <3>9. QED  BY <3>6, <3>7, <3>8 DEF FenceInv
  <2>3. QED  BY <2>1, <2>2
<1>10. CASE Maintain
  BY <1>10, FenceKept DEF Maintain
<1>11. CASE RotateKey
  BY <1>11, FenceKept DEF RotateKey, TypeOK, Row
<1>12. ASSUME NEW w \in Worker, BeginTick(w) \/ EndTick(w) \/ Stop(w) \/ Exit(w) \/ Start(w)
       PROVE  FenceInv'
  BY <1>12, FenceKept DEF BeginTick, EndTick, Stop, Exit, Start
<1>13. ASSUME NEW p \in Probe, Flip(p) PROVE FenceInv'
  BY <1>13, FenceKept DEF Flip
<1>14. ASSUME NEW w \in Worker, Crash(w) PROVE FenceInv'
  <2>1. \A l \in Lease : Running(l)' => task'[l] = task[l] /\ l \notin Active(w)
    BY <1>14 DEF Crash, Running, NoTask
  <2>2. UNCHANGED probe /\ fenced' = fenced \ Active(w)
    BY <1>14 DEF Crash
  <2>3. QED
    BY <2>1, <2>2, RunningTask DEF FenceInv, FencedByEdits, LapsedFenced, LeaseProtects, Holds, Running, Live
<1>15. ASSUME NEW l \in Lease, Ask(l) PROVE FenceInv'
  <2>1. /\ Running(l) /\ Running(l)'
        /\ task'[l].on = task[l].on /\ task'[l].rules = task[l].rules
        /\ \A k \in Lease \ {l} : task'[k] = task[k]
        /\ UNCHANGED <<probe, fenced>>
    BY <1>15 DEF Ask, TypeOK, Task, NoTask, Running
  <2>2. \A k \in Lease : /\ Running(k)' = Running(k)
                         /\ task'[k].on = task[k].on /\ task'[k].rules = task[k].rules
    BY <2>1 DEF Running
  <2>3. QED
    BY <2>1, <2>2 DEF FenceInv, FencedByEdits, LapsedFenced, LeaseProtects, Holds, Live
<1>16. ASSUME NEW l \in Lease, Record(l) \/ RecordFails(l) PROVE FenceInv'
  <2>1. /\ ~Running(l)' /\ fenced' = fenced \ {l}
        /\ \A k \in Lease \ {l} : task'[k] = task[k]
    BY <1>16 DEF Record, RecordFails, TypeOK, NoTask, Running
  <2>2. \A q \in Probe : \/ probe'[q] = probe[q]
                         \/ /\ probe[q].lease = l /\ probe'[q].lease = NoLease
    <3>1. CASE RecordFails(l)
      BY <3>1 DEF RecordFails
    <3>2. CASE Record(l) /\ ~Accepts(l)
      BY <3>2 DEF Record
    <3>3. CASE Record(l) /\ Accepts(l)
      <4>1. task[l].on \in Probe /\ probe[task[l].on].lease = l
        BY <3>3, RunningTask DEF Record, Accepts, Running
      <4>2. /\ probe'[task[l].on].lease = NoLease
            /\ \A q \in Probe \ {task[l].on} : probe'[q] = probe[q]
        BY <3>3, RecordEffect
      <4>3. QED  BY <4>1, <4>2
    <3>4. QED  BY <1>16, <3>1, <3>2, <3>3
  <2>3. ASSUME NEW k \in Lease, NEW q \in Probe, Holds(k, q)'
        PROVE  k # l /\ Holds(k, q) /\ probe'[q] = probe[q] /\ task'[k] = task[k]
    BY <2>1, <2>2, <2>3 DEF Holds, Running
  <2>4. FencedByEdits'
    BY <2>3 DEF FenceInv, FencedByEdits, Live
  <2>5. LapsedFenced'
    BY <2>1, <2>3 DEF FenceInv, LapsedFenced
  <2>6. LeaseProtects'
    <3> SUFFICES ASSUME NEW k \in Lease, k # l, Running(k), k \notin fenced
                 PROVE  probe'[task[k].on].lease = k
      BY <2>1 DEF LeaseProtects, Running
    <3>1. task[k].on \in Probe /\ probe[task[k].on].lease = k
      BY RunningTask DEF FenceInv, LeaseProtects
    <3>2. QED  BY <2>2, <3>1
  <2>7. QED  BY <2>4, <2>5, <2>6 DEF FenceInv
<1>17. CASE UNCHANGED vars
  BY <1>17, FenceKept DEF vars
<1>18. QED
  BY <1>1, <1>2, <1>4, <1>5, <1>6, <1>7, <1>8, <1>9, <1>10, <1>11, <1>12, <1>13, <1>14,
     <1>15, <1>16, <1>17 DEF Next, TaskStep

\* A lease, an edit or a removal fences off the probe it overtakes.
THEOREM Fences == Spec => []FenceInv
<1>1. Init => FenceInv
  BY DEF Init, FenceInv, FencedByEdits, LapsedFenced, LeaseProtects, Holds, Running, NoTask
<1>2. QED  BY <1>1, TypeCorrect, FenceStep, PTL DEF Spec

\* Fencing: whatever is saved, paused or deleted and however many replicas check a probe,
\* a result counts only under the rules its check was made under.
THEOREM EditsFence == Spec => []FencedByEdits
<1>1. FenceInv => FencedByEdits
  BY DEF FenceInv
<1>2. QED  BY <1>1, Fences, PTL

\* Exclusive leases: a check that was not overrun or fenced by a save is the only one its
\* probe takes a result from.
THEOREM LeaseExclusion == Spec => []LeaseProtects
<1>1. FenceInv => LeaseProtects
  BY DEF FenceInv
<1>2. QED  BY <1>1, Fences, PTL

-----------------------------------------------------------------------------
(* Incidents and alerts. *)

\* What a check makes of its probe: it is down after the check only as it was before or
\* as an incident opens, healthy only as the open incident resolves, and a check that
\* changes nothing tells nothing.
LEMMA CheckOutcome ==
  ASSUME TypeOK, NEW p \in Probe, NEW ok \in BOOLEAN
  PROVE  /\ Status(p, ok) = "down" =>
              ~Resolves(p, ok) /\ (probe[p].state = "down" \/ p \in open \/ Opens(p, ok))
         /\ probe[p].state = "down" => Status(p, ok) = "down" \/ Status(p, ok) = "healthy"
         /\ Status(p, ok) = "healthy" => Resolves(p, ok) \/ p \notin open
         /\ Opens(p, ok) => Status(p, ok) = "down"
         /\ Resolves(p, ok) => Status(p, ok) = "healthy" /\ p \in open
         /\ Status(p, ok) \in {"down", "degraded"} =>
              HealthEvent(p, ok) =
                IF Status(p, ok) = probe[p].state /\ ~Opens(p, ok) THEN told[p].health
                ELSE Status(p, ok)
<1>1. probe[p].state \in State
  BY DEF TypeOK, Row
<1>2. probe[p].state = "down" => Status(p, ok) = "down" \/ Status(p, ok) = "healthy"
  BY DEF Status
<1>3. /\ Status(p, ok) = "down" =>
           ~Resolves(p, ok) /\ (probe[p].state = "down" \/ p \in open \/ Opens(p, ok))
      /\ Status(p, ok) = "healthy" => Resolves(p, ok) \/ p \notin open
      /\ Opens(p, ok) => Status(p, ok) = "down"
      /\ Resolves(p, ok) => Status(p, ok) = "healthy" /\ p \in open
  BY DEF Opens, OpensAnew, Resolves
<1>4. Status(p, ok) \in {"down", "degraded"} =>
        HealthEvent(p, ok) =
          IF Status(p, ok) = probe[p].state /\ ~Opens(p, ok) THEN told[p].health
          ELSE Status(p, ok)
  BY <1>3 DEF HealthEvent
<1>5. QED  BY <1>2, <1>3, <1>4

\* A step keeps the invariant if it keeps, of every probe, whether it is there, its
\* incident and what was told of it, and its state, or loses a secret, or is a save that
\* puts a state other than down to unknown.
LEMMA IncidentKept ==
  ASSUME TypeOK, IncidentInv, UNCHANGED <<open, told>>, blinded \subseteq blinded',
         \A p \in Probe : \/ probe'[p].stored = probe[p].stored /\ probe'[p].state = probe[p].state
                          \/ /\ probe'[p].state = "unknown"
                             /\ probe[p].state # "down" \/ p \notin open \/ p \in blinded'
                             /\ p \in open => Live(p)'
  PROVE  IncidentInv'
<1>1. IncidentSpansDown'
  BY DEF IncidentInv, IncidentSpansDown
<1>2. AlertsAgree'
  BY DEF IncidentInv, AlertsAgree
<1>3. AbsentBlank'
  BY DEF IncidentInv, AbsentBlank, Live
<1>4. QED  BY <1>1, <1>2, <1>3 DEF IncidentInv

LEMMA IncidentStep == TypeOK /\ FenceInv /\ IncidentInv /\ [Next]_vars => IncidentInv'
<1> SUFFICES ASSUME TypeOK, FenceInv, IncidentInv, [Next]_vars PROVE IncidentInv'
  OBVIOUS
<1> USE HealthAssumption
<1>1. ASSUME NEW p \in Probe, CreateProbe(p) PROVE IncidentInv'
  <2>1. PICK r \in Rules, s \in {"none", "sealed"}, on \in BOOLEAN :
          probe' = [probe EXCEPT ![p] = [NewRow(r, s) EXCEPT !.enabled = on]]
    BY <1>1 DEF CreateProbe
  <2>2. probe'[p].state = "unknown" /\ \A q \in Probe \ {p} : probe'[q] = probe[q]
    BY <2>1 DEF TypeOK, NewRow
  <2>3. p \notin open
    BY <1>1 DEF CreateProbe, IncidentInv, AbsentBlank, Live
  <2>4. QED  BY <1>1, <2>2, <2>3, IncidentKept DEF CreateProbe
<1>2. ASSUME NEW p \in Probe, SaveProbe(p) PROVE IncidentInv'
  <2>4. \A q \in Probe \ {p} : probe'[q] = probe[q]
    BY <1>2, SaveEffect
  <2>5. /\ probe'[p].stored = probe[p].stored
        /\ \/ probe'[p].state = probe[p].state
           \/ probe'[p].state = "unknown" /\ probe[p].state # "down"
    BY <1>2, SaveEffect
  <2>6. Live(p) /\ UNCHANGED <<open, told, blinded>>
    BY <1>2 DEF SaveProbe
  <2>7. QED  BY <2>4, <2>5, <2>6, IncidentKept DEF Live
<1>3. ASSUME NEW P \in SUBSET Probe, Removed(P) PROVE IncidentInv'
  <2>1. ASSUME NEW p \in Probe, p \notin P
        PROVE  /\ probe'[p] = probe[p] /\ told'[p] = told[p]
               /\ p \in open' <=> p \in open
               /\ p \in blinded' <=> p \in blinded
    BY <1>3, <2>1 DEF Removed
  <2>2. ASSUME NEW p \in Probe, p \in P
        PROVE  /\ ~Live(p)' /\ probe'[p].state = "unknown"
               /\ told'[p].incident = "none" /\ p \notin open'
    <3>1. \A u : LET q == [NewRow(u, "none") EXCEPT !.stored = "removed"]
                 IN  q.stored = "removed" /\ q.state = "unknown"
      BY DEF NewRow
    <3>2. probe'[p] = IF Live(p) THEN [NewRow(probe[p].rules, "none") EXCEPT !.stored = "removed"]
                      ELSE probe[p]
      BY <1>3, <2>2 DEF Removed
    <3>3. ~Live(p) => probe[p].state = "unknown"
      BY DEF IncidentInv, AbsentBlank
    <3>4. ~Live(p)' /\ probe'[p].state = "unknown"
      BY <3>1, <3>2, <3>3 DEF Live
    <3>5. QED  BY <1>3, <2>2, <3>4 DEF Removed, Unheard
  <2>3. IncidentSpansDown'
    BY <2>1, <2>2 DEF IncidentInv, IncidentSpansDown
  <2>4. AlertsAgree'
    BY <2>1, <2>2 DEF IncidentInv, AlertsAgree
  <2>5. AbsentBlank'
    BY <2>1, <2>2 DEF IncidentInv, AbsentBlank, Live
  <2>6. QED  BY <2>3, <2>4, <2>5 DEF IncidentInv
<1>4. ASSUME NEW p \in Probe, DeleteProbe(p) PROVE IncidentInv'
  BY <1>3, <1>4 DEF DeleteProbe
<1>5. ASSUME NEW s \in Service, DeleteService(s) PROVE IncidentInv'
  BY <1>3, <1>5 DEF DeleteService
<1>6. ASSUME NEW p \in Probe, CheckNow(p) \/ FallDue(p) PROVE IncidentInv'
  <2>1. probe' = [probe EXCEPT ![p].due = TRUE] /\ UNCHANGED <<open, told, blinded>>
    BY <1>6 DEF CheckNow, FallDue
  <2>2. QED  BY <2>1, IncidentKept DEF TypeOK, Row
<1>7. ASSUME NEW p \in Probe, Lapse(p) \/ Overrun(p) PROVE IncidentInv'
  <2>1. probe' = [probe EXCEPT ![p].lapsed = TRUE] /\ UNCHANGED <<open, told, blinded>>
    BY <1>7 DEF Lapse, Overrun
  <2>2. QED  BY <2>1, LapsedRow, IncidentKept DEF TypeOK
<1>8. ASSUME NEW w \in Worker, NEW p \in Probe, Claim(w, p) PROVE IncidentInv'
  <2>1. CASE probe[p].secret = "unreadable"
    <3>1. /\ probe' = [probe EXCEPT ![p] =
               [@ EXCEPT !.due = FALSE, !.lease = NoLease, !.lapsed = FALSE, !.state = "unknown"]]
          /\ blinded' = IF p \in open THEN blinded \cup {p} ELSE blinded
          /\ UNCHANGED <<open, told>>
      BY <1>8, <2>1 DEF Claim
    <3>2. /\ probe'[p].state = "unknown" /\ probe'[p].stored = probe[p].stored
          /\ \A q \in Probe \ {p} : probe'[q] = probe[q]
      BY <3>1 DEF TypeOK, Row
    <3>3. Live(p)
      BY <1>8 DEF Claim, Claimable
    <3>4. QED  BY <3>1, <3>2, <3>3, IncidentKept DEF Live
  <2>2. CASE probe[p].secret # "unreadable"
    <3>1. PICK l \in Lease :
            probe' = [probe EXCEPT ![p] = [@ EXCEPT !.lease = l, !.lapsed = FALSE]]
      BY <1>8, <2>2 DEF Claim
    <3>2. \A q \in Probe : probe'[q].stored = probe[q].stored /\ probe'[q].state = probe[q].state
      BY <3>1 DEF TypeOK, Row
    <3>3. QED  BY <1>8, <2>2, <3>2, IncidentKept DEF Claim
  <2>3. QED  BY <2>1, <2>2
<1>9. CASE RotateKey
  BY <1>9, IncidentKept DEF RotateKey, TypeOK, Row
<1>10. ASSUME NEW l \in Lease, Record(l) PROVE IncidentInv'
  <2>1. CASE ~Accepts(l)
    BY <1>10, <2>1, IncidentKept DEF Record
  <2>2. CASE Accepts(l)
    <3> DEFINE p  == task[l].on
               ok == task[l].ok
    <3>1. p \in Probe /\ ok \in BOOLEAN /\ Holds(l, p)
      BY <1>10, <2>2, RecordEffect
    <3>2. Live(p)
      BY <3>1 DEF FenceInv, FencedByEdits
    <3>3. /\ open' = IF Opens(p, ok) THEN open \cup {p}
                     ELSE IF Resolves(p, ok) THEN open \ {p} ELSE open
          /\ blinded' = IF Resolves(p, ok) THEN blinded \ {p} ELSE blinded
          /\ told' = [told EXCEPT ![p] =
               [health |-> HealthEvent(p, ok), incident |-> IncidentEvent(p, ok)]]
      BY <1>10, <2>2 DEF Record
    <3>a. /\ probe'[p].state = Status(p, ok) /\ probe'[p].stored = probe[p].stored
          /\ \A q \in Probe \ {p} : probe'[q] = probe[q]
      BY <1>10, <2>2, RecordEffect
    <3> HIDE DEF p, ok
    <3>4. ASSUME NEW q \in Probe, q # p
          PROVE  /\ probe'[q] = probe[q] /\ told'[q] = told[q]
                 /\ (q \in open') <=> (q \in open)
                 /\ (q \in blinded') <=> (q \in blinded)
      BY <3>a, <3>3, <3>4 DEF TypeOK
    <3>5. /\ probe'[p].state = Status(p, ok) /\ probe'[p].stored = probe[p].stored
          /\ told'[p].health = HealthEvent(p, ok)
          /\ told'[p].incident = IncidentEvent(p, ok)
      BY <3>a, <3>1, <3>3 DEF TypeOK
    <3>6. /\ probe[p].state = "down" => p \in open
          /\ p \in open /\ p \notin blinded => probe[p].state = "down"
          /\ told[p].incident = "opened" <=> p \in open
          /\ probe[p].state \in {"down", "degraded"} => told[p].health = probe[p].state
      BY <3>1 DEF IncidentInv, IncidentSpansDown, AlertsAgree
    <3>7. /\ Status(p, ok) = "down" => p \in open'
          /\ p \in open' /\ p \notin blinded' => Status(p, ok) = "down"
      BY <3>1, <3>3, <3>6, CheckOutcome
    <3>8. told'[p].incident = "opened" <=> p \in open'
      BY <3>3, <3>5, <3>6 DEF IncidentEvent, Opens
    <3>9. Status(p, ok) \in {"down", "degraded"} => told'[p].health = Status(p, ok)
      BY <3>1, <3>5, <3>6, CheckOutcome
    <3>10. IncidentSpansDown'
      BY <3>4, <3>5, <3>7 DEF IncidentInv, IncidentSpansDown
    <3>11. AlertsAgree'
      BY <3>4, <3>5, <3>8, <3>9 DEF IncidentInv, AlertsAgree
    <3>12. AbsentBlank'
      BY <3>2, <3>4, <3>5 DEF IncidentInv, AbsentBlank, Live
    <3>13. QED  BY <3>10, <3>11, <3>12 DEF IncidentInv
  <2>3. QED  BY <2>1, <2>2
<1>11. ASSUME NEW l \in Lease, Ask(l) \/ RecordFails(l) PROVE IncidentInv'
  BY <1>11, IncidentKept DEF Ask, RecordFails
<1>12. CASE Maintain \/ \E p \in Probe : Flip(p)
  BY <1>12, IncidentKept DEF Maintain, Flip
<1>13. ASSUME NEW w \in Worker,
              BeginTick(w) \/ EndTick(w) \/ Stop(w) \/ Exit(w) \/ Start(w) \/ Crash(w)
       PROVE  IncidentInv'
  BY <1>13, IncidentKept DEF BeginTick, EndTick, Stop, Exit, Start, Crash
<1>14. CASE UNCHANGED vars
  BY <1>14, IncidentKept DEF vars
<1>15. QED
  BY <1>1, <1>2, <1>4, <1>5, <1>6, <1>7, <1>8, <1>9, <1>10, <1>11, <1>12, <1>13, <1>14
     DEF Next, TaskStep

\* A monitor's open incident and its alerts agree with the state it is in.
THEOREM Incidents == Spec => []IncidentInv
<1>1. Init => IncidentInv
  BY DEF Init, NewRow, Unheard, IncidentInv, IncidentSpansDown, AlertsAgree, AbsentBlank
<1>2. QED  BY <1>1, TypeCorrect, Fences, IncidentStep, PTL DEF Spec

\* A down probe has an open incident, and an open incident a down probe unless its secret
\* was lost, through any saves, deletions, maintenance windows and crashes.
THEOREM IncidentsSpan == Spec => []IncidentSpansDown
<1>1. IncidentInv => IncidentSpansDown
  BY DEF IncidentInv
<1>2. QED  BY <1>1, Incidents, PTL

\* What webhooks were last told agrees with the incidents and the states kept.
THEOREM AlertsTrue == Spec => []AlertsAgree
<1>1. IncidentInv => AlertsAgree
  BY DEF IncidentInv
<1>2. QED  BY <1>1, Incidents, PTL

\* Only a recorded check, or a deletion, changes which incidents are open.
LEMMA OpenChanges ==
  ASSUME TypeOK, FenceInv, [Next]_vars, NEW q \in Probe,
         \/ q \in open /\ q \notin open' /\ Live(q)'
         \/ q \notin open /\ q \in open'
  PROVE  \E l \in Lease : /\ Record(l) /\ Accepts(l) /\ task[l].on = q
                          /\ task[l].ok \in BOOLEAN
<1>1. \E l \in Lease : Record(l)
  <2>1. ASSUME NEW P \in SUBSET Probe, Removed(P) PROVE FALSE
    <3>1. q \in P /\ q \in open
      BY <2>1 DEF Removed
    <3>2. \A u : [NewRow(u, "none") EXCEPT !.stored = "removed"].stored = "removed"
      BY DEF NewRow
    <3>3. probe'[q] = IF Live(q) THEN [NewRow(probe[q].rules, "none") EXCEPT !.stored = "removed"]
                      ELSE probe[q]
      BY <2>1, <3>1 DEF Removed
    <3>4. QED  BY <2>1, <3>1, <3>2, <3>3 DEF Live, Removed
  <2>2. ASSUME NEW p \in Probe, DeleteProbe(p) PROVE FALSE
    BY <2>1, <2>2 DEF DeleteProbe
  <2>3. ASSUME NEW s \in Service, DeleteService(s) PROVE FALSE
    BY <2>1, <2>3 DEF DeleteService
  <2>4. QED
    BY <2>2, <2>3 DEF Next, TaskStep, vars, CreateProbe, SaveProbe, CheckNow, Flip, FallDue, Lapse,
       Overrun, Claim, Maintain, RotateKey, BeginTick, EndTick, Stop, Exit, Start, Crash, Ask,
       RecordFails
<1>2. PICK l \in Lease : Record(l)
  BY <1>1
<1>3. Accepts(l) /\ task[l].on = q
  BY <1>2 DEF Record
<1>4. QED  BY <1>2, <1>3, RecordEffect

\* Incidents are earned: one opens only at the failure threshold, outside maintenance.
THEOREM OpenedAtThreshold == Spec => IncidentEarned
<1>1. TypeOK /\ FenceInv /\ [Next]_vars =>
        [\A p \in open' \ open : /\ probe'[p].failures >= FailAfter[probe[p].rules]
                                 /\ ServiceOf[p] \notin maintained]_vars
  <2> SUFFICES ASSUME TypeOK, FenceInv, Next, NEW p \in Probe, p \notin open, p \in open'
               PROVE  /\ probe'[p].failures >= FailAfter[probe[p].rules]
                      /\ ServiceOf[p] \notin maintained
    BY TypeStep DEF TypeOK
  <2>1. PICK l \in Lease : Record(l) /\ Accepts(l) /\ task[l].on = p /\ task[l].ok \in BOOLEAN
    BY OpenChanges
  <2>2. Opens(p, task[l].ok) /\ probe'[p].failures = Failures(p, task[l].ok)
    BY <2>1, RecordEffect DEF Record, TypeOK
  <2>3. QED  BY <2>2, <2>1 DEF Opens, OpensAnew, Status, Held
<1>2. QED  BY <1>1, TypeCorrect, Fences, PTL DEF Spec, IncidentEarned

\* Recoveries are earned: an incident resolves only at the recovery threshold, unless the
\* probe's secret was lost while it was open.
THEOREM ResolvedAtThreshold == Spec => RecoveryEarned
<1>1. TypeOK /\ FenceInv /\ IncidentInv /\ [Next]_vars =>
        [\A p \in open \ (open' \cup blinded) :
           Live(p)' => probe'[p].successes >= RecoverAfter[probe[p].rules]]_vars
  <2> SUFFICES ASSUME TypeOK, FenceInv, IncidentInv, Next,
                      NEW p \in Probe, p \in open, p \notin open', p \notin blinded, Live(p)'
               PROVE  probe'[p].successes >= RecoverAfter[probe[p].rules]
    BY DEF TypeOK
  <2>1. PICK l \in Lease : Record(l) /\ Accepts(l) /\ task[l].on = p /\ task[l].ok \in BOOLEAN
    BY OpenChanges
  <2>2. Resolves(p, task[l].ok) /\ probe'[p].successes = Successes(p, task[l].ok)
    BY <2>1, RecordEffect DEF Record, TypeOK
  <2>3. probe[p].state = "down"
    BY DEF IncidentInv, IncidentSpansDown
  <2>4. Successes(p, task[l].ok) \in 0 .. MaxCount /\ RecoverAfter[probe[p].rules] \in 1 .. MaxCount
    BY <2>1, HealthAssumption, CheckTypes DEF HealthAssumption, TypeOK, Row
  <2>5. QED  BY <2>1, <2>2, <2>3, <2>4, HealthAssumption DEF Resolves, Status
<1>2. QED  BY <1>1, TypeCorrect, Fences, Incidents, PTL DEF Spec, RecoveryEarned
=============================================================================
