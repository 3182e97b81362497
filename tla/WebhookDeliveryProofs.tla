----------------------- MODULE WebhookDeliveryProofs -----------------------
(***************************************************************************)
(* Theorems about WebhookDelivery for any number of deliveries, webhooks,  *)
(* replicas and lease tokens, and any MAX_ATTEMPTS.                        *)
(***************************************************************************)
EXTENDS WebhookDelivery, TLAPS

\* Changing a column of a row, or a flag of a worker, keeps its type.
LEMMA RowColumns ==
  ASSUME NEW r \in Row
  PROVE  /\ \A s \in {"pending", "skipped"} : [r EXCEPT !.status = s, !.due = TRUE] \in Row
         /\ [r EXCEPT !.due = TRUE] \in Row
         /\ [r EXCEPT !.lapsed = TRUE] \in Row
         /\ \A l \in Lease : [r EXCEPT !.lease = l, !.lapsed = FALSE] \in Row
         /\ [AbsentRow EXCEPT !.status = "removed"] \in Row
  BY DEF Row, AbsentRow, Settled

LEMMA WorkerFlags ==
  ASSUME NEW s \in WorkerState
  PROVE  /\ \A b \in BOOLEAN : [s EXCEPT !.busy = b] \in WorkerState
         /\ [s EXCEPT !.stopping = TRUE] \in WorkerState
         /\ [s EXCEPT !.up = TRUE] \in WorkerState
  BY DEF WorkerState

\* Type correctness: every reachable state has the shape the tables declare.
LEMMA TypeInvariant == Init => TypeOK
  BY DeliveryAssumption DEF Init, TypeOK, Row, AbsentRow, Task, NoTask, WorkerState, Settled

LEMMA TypeStep == TypeOK /\ [Next]_vars => TypeOK'
<1> SUFFICES ASSUME TypeOK, [Next]_vars PROVE TypeOK'
  OBVIOUS
<1> USE DeliveryAssumption
<1>1. ASSUME NEW d \in Delivery, Route(d) PROVE TypeOK'
  <2>1. row' \in [Delivery -> Row]
    <3>1. PICK s \in {"pending", "skipped"} :
            row' = [row EXCEPT ![d] = [@ EXCEPT !.status = s, !.due = TRUE]]
      BY <1>1 DEF Route
    <3>2. QED  BY <3>1, RowColumns DEF TypeOK
  <2>2. QED  BY <1>1, <2>1 DEF TypeOK, Route, history, bounds
<1>2. ASSUME NEW d \in Delivery, Redeliver(d) PROVE TypeOK'
  BY <1>2 DEF TypeOK, Redeliver, Row, Settled, Edit
<1>3. ASSUME NEW d \in Delivery, ChangeAccess(d) PROVE TypeOK'
  <2>1. \A l \in Lease : task'[l] \in Task
    BY <1>3 DEF TypeOK, ChangeAccess, Task, LiveTask, NoTask
  <2>2. task' \in [Lease -> Task]
    BY <1>3, <2>1 DEF ChangeAccess
  <2>3. QED  BY <1>3, <2>2 DEF TypeOK, ChangeAccess, Edit, history
<1>4. ASSUME NEW d \in Delivery, Retire(d) PROVE TypeOK'
  BY <1>4, RowColumns DEF TypeOK, Retire, history, bounds
<1>5. ASSUME NEW d \in Delivery, FallDue(d) \/ Lapse(d) PROVE TypeOK'
  <2>1. row' \in [Delivery -> Row]
    <3>1. CASE FallDue(d)  BY <3>1, RowColumns DEF TypeOK, FallDue
    <3>2. CASE Lapse(d)    BY <3>2, RowColumns DEF TypeOK, Lapse
    <3>3. QED  BY <1>5, <3>1, <3>2
  <2>2. QED  BY <1>5, <2>1 DEF TypeOK, FallDue, Lapse, history, bounds
<1>6. ASSUME NEW d \in Delivery, Overrun(d) PROVE TypeOK'
  <2>1. row' \in [Delivery -> Row]
    BY <1>6, RowColumns DEF TypeOK, Overrun
  <2>2. QED  BY <1>6, <2>1 DEF TypeOK, Overrun, Fault
<1>7. ASSUME NEW d \in Delivery, NEW w \in Worker, Claim(w, d) PROVE TypeOK'
  <2>1. PICK l \in Lease :
          /\ row' = [row EXCEPT ![d] = [@ EXCEPT !.lease = l, !.lapsed = FALSE]]
          /\ task' = [task EXCEPT ![l] =
               [phase |-> "authorize", on |-> d, by |-> w, attempt |-> row[d].attempts + 1,
                outcome |-> "pending", held |-> FALSE]]
          /\ abandoned' = abandoned \ {l, row[d].lease}
    BY <1>7 DEF Claim
  <2>2. row' \in [Delivery -> Row]
    BY <2>1, RowColumns DEF TypeOK
  <2>3. row[d].attempts + 1 \in Nat
    BY DEF TypeOK, Row
  <2>4. task' \in [Lease -> Task]
    BY <2>1, <2>3 DEF TypeOK, Task, LiveTask, Outcome
  <2>5. QED  BY <1>7, <2>1, <2>2, <2>4 DEF TypeOK, Claim, bounds
<1>8. ASSUME NEW h \in Hook, SaveHook(h) PROVE TypeOK'
  BY <1>8 DEF TypeOK, SaveHook, Edit
<1>9. ASSUME NEW h \in Hook, RemoveHook(h) PROVE TypeOK'
  <2>1. row' \in [Delivery -> Row]
    BY <1>9, RowColumns DEF TypeOK, RemoveHook
  <2>2. QED  BY <1>9, <2>1 DEF TypeOK, RemoveHook, Edit
<1>10. ASSUME NEW w \in Worker, BeginTick(w) \/ EndTick(w) \/ Start(w) PROVE TypeOK'
  <2>1. worker' \in [Worker -> WorkerState]
    <3>1. CASE BeginTick(w)  BY <3>1, WorkerFlags DEF TypeOK, BeginTick
    <3>2. CASE EndTick(w)    BY <3>2, WorkerFlags DEF TypeOK, EndTick
    <3>3. CASE Start(w)      BY <3>3, WorkerFlags DEF TypeOK, Start
    <3>4. QED  BY <1>10, <3>1, <3>2, <3>3
  <2>2. QED  BY <1>10, <2>1 DEF TypeOK, BeginTick, EndTick, Start, tables, history, bounds
<1>11. ASSUME NEW w \in Worker, Stop(w) PROVE TypeOK'
  <2>1. worker' \in [Worker -> WorkerState]
    BY <1>11, WorkerFlags DEF TypeOK, Stop
  <2>2. QED  BY <1>11, <2>1 DEF TypeOK, Stop, Edit, tables, history
<1>12. ASSUME NEW w \in Worker, Exit(w) PROVE TypeOK'
  BY <1>12 DEF TypeOK, Exit, WorkerState, Task, tables, history, bounds
<1>13. ASSUME NEW w \in Worker, Crash(w) PROVE TypeOK'
  BY <1>13 DEF TypeOK, Crash, Fault, WorkerState, Task, Active, tables
<1>14. ASSUME NEW l \in Lease, Authorize(l) \/ Enrich(l) \/ Reauthorize(l) PROVE TypeOK'
  BY <1>14 DEF TypeOK, Authorize, Enrich, Reauthorize, GoTo, EndWith, Retry,
               Task, LiveTask, NoTask, Outcome, tables, history, bounds
<1>15. ASSUME NEW l \in Lease, Send(l) PROVE TypeOK'
  BY <1>15 DEF TypeOK, Send, EndWith, Retry, Task, LiveTask, NoTask, Outcome, tables, bounds
<1>16. ASSUME NEW l \in Lease, Record(l) PROVE TypeOK'
  <2>1. task[l] \in LiveTask
    BY <1>16 DEF TypeOK, Record, Task, NoTask
  <2>2. row' \in [Delivery -> Row]
    <3>1. [status |-> StatusOf(task[l].outcome), attempts |-> row[task[l].on].attempts + 1,
           due |-> task[l].outcome # "pending", lease |-> NoLease, lapsed |-> FALSE] \in Row
      BY <2>1 DEF TypeOK, Row, LiveTask, Outcome, StatusOf, Settled
    <3>2. QED  BY <1>16, <3>1 DEF TypeOK, Record
  <2>3. task' \in [Lease -> Task]
    BY <1>16, <2>1 DEF TypeOK, Record, Task, LiveTask
  <2>4. HookOf[task[l].on] \in Hook
    BY <2>1 DEF LiveTask
  <2>5. QED  BY <1>16, <2>2, <2>3, <2>4 DEF TypeOK, Record, bounds
<1>17. ASSUME NEW l \in Lease, Pause(l) PROVE TypeOK'
  BY <1>17 DEF TypeOK, Pause, Task, LiveTask, NoTask, bounds
<1>18. ASSUME NEW l \in Lease, RecordFails(l) PROVE TypeOK'
  BY <1>18 DEF TypeOK, RecordFails, Fault, Task, tables
<1>19. CASE UNCHANGED vars
  BY <1>19 DEF TypeOK, vars, history, bounds
<1>20. QED
  BY <1>1, <1>2, <1>3, <1>4, <1>5, <1>6, <1>7, <1>8, <1>9, <1>10, <1>11, <1>12, <1>13,
     <1>14, <1>15, <1>16, <1>17, <1>18, <1>19 DEF Next, TaskStep

\* Type correctness: the rows and the tasks of the workers keep their shape.
THEOREM TypeCorrect == Spec => []TypeOK
  BY TypeInvariant, TypeStep, PTL DEF Spec

-----------------------------------------------------------------------------
(* Leases. *)

\* A step of a task up to its answer changes that task's phase, outcome and held flag only.
LEMMA TaskMoves ==
  ASSUME TypeOK, NEW l \in Lease, Authorize(l) \/ Enrich(l) \/ Reauthorize(l) \/ Send(l)
  PROVE  /\ task[l] \in LiveTask /\ task'[l] \in LiveTask
         /\ task[l].phase \in {"authorize", "enrich", "reauthorize", "send"}
         /\ task'[l].phase \in {"enrich", "reauthorize", "send", "record"}
         /\ task'[l].on = task[l].on /\ task'[l].by = task[l].by
         /\ task'[l].attempt = task[l].attempt
         /\ \A k \in Lease \ {l} : task'[k] = task[k]
         /\ UNCHANGED <<row, hook, mayView, worker, overran, abandoned, faults, edits>>
<1>1. task[l] \in LiveTask
  BY DEF TypeOK, Task, NoTask, Authorize, Enrich, Reauthorize, Send
<1>2. CASE Authorize(l)
  BY <1>1, <1>2 DEF TypeOK, LiveTask, Authorize, GoTo, EndWith, Retry, Outcome, tables, history, bounds
<1>3. CASE Enrich(l)
  BY <1>1, <1>3 DEF TypeOK, LiveTask, Enrich, EndWith, Retry, Outcome, tables, history, bounds
<1>4. CASE Reauthorize(l)
  BY <1>1, <1>4 DEF TypeOK, LiveTask, Reauthorize, GoTo, EndWith, Retry, Outcome, tables, history, bounds
<1>5. CASE Send(l)
  BY <1>1, <1>5 DEF TypeOK, LiveTask, Send, EndWith, Retry, Outcome, tables, bounds
<1>6. QED
  BY <1>2, <1>3, <1>4, <1>5

\* Every step keeps leases and tasks matched.
LEMMA LeaseStep == TypeOK /\ LeaseInv /\ [Next]_vars => LeaseInv'
<1> SUFFICES ASSUME TypeOK, LeaseInv, [Next]_vars PROVE LeaseInv'
  OBVIOUS
<1> USE DeliveryAssumption DEF TypeOK, LeaseInv, HolderFits, StillHolds, OneRowPerLease,
        OnlyPendingLeased, LeaseHeld, Holds, Running, Row, Task, LiveTask
<1>1. ASSUME NEW d \in Delivery, Route(d) PROVE LeaseInv'
  BY <1>1 DEF Route, history, bounds
<1>2. ASSUME NEW d \in Delivery, Redeliver(d) PROVE LeaseInv'
  BY <1>2 DEF Redeliver, Settled
<1>3. ASSUME NEW d \in Delivery, ChangeAccess(d) PROVE LeaseInv'
  BY <1>3 DEF ChangeAccess, history
<1>4. ASSUME NEW d \in Delivery, Retire(d) PROVE LeaseInv'
  BY <1>4 DEF Retire, AbsentRow, history, bounds
<1>5. ASSUME NEW d \in Delivery, FallDue(d) PROVE LeaseInv'
  BY <1>5 DEF FallDue, history, bounds
<1>6. ASSUME NEW d \in Delivery, Lapse(d) PROVE LeaseInv'
  BY <1>6 DEF Lapse, history, bounds
<1>7. ASSUME NEW d \in Delivery, Overrun(d) PROVE LeaseInv'
  BY <1>7 DEF Overrun
<1>8. ASSUME NEW d \in Delivery, NEW w \in Worker, Claim(w, d) PROVE LeaseInv'
  BY <1>8 DEF Claim, Claimable, Fresh
<1>9. ASSUME NEW h \in Hook, SaveHook(h) PROVE LeaseInv'
  BY <1>9 DEF SaveHook
<1>10. ASSUME NEW h \in Hook, RemoveHook(h) PROVE LeaseInv'
  <2>1. /\ UNCHANGED <<task, overran, abandoned>>
        /\ \A d \in Delivery : \/ row'[d] = row[d]
                               \/ row'[d].status = "removed" /\ row'[d].lease = NoLease
    BY <1>10 DEF RemoveHook, AbsentRow
  <2>2. HolderFits'
    <3> SUFFICES ASSUME NEW l \in Lease, NEW d \in Delivery, Holds(l, d)'
                 PROVE  /\ row'[d].status = "pending"
                        /\ task'[l].phase # "pause"
                        /\ task'[l].attempt = row'[d].attempts + 1
                        /\ row'[d].lapsed => l \in overran'
      OBVIOUS
    <3>1. row'[d] = row[d]
      BY <2>1
    <3>2. Holds(l, d)
      BY <2>1, <3>1
    <3>3. QED  BY <2>1, <3>1, <3>2
  <2>3. StillHolds'
    <3> SUFFICES ASSUME NEW l \in Lease, Running(l), l \notin overran, task[l].phase # "pause"
                 PROVE  row'[task[l].on].status = "removed" \/ row'[task[l].on].lease = l
      BY <2>1
    <3>1. task[l].on \in Delivery
      BY DEF NoTask
    <3>2. row[task[l].on].status = "removed" \/ row[task[l].on].lease = l
      OBVIOUS
    <3>3. QED  BY <2>1, <3>1, <3>2
  <2>4. OneRowPerLease'  BY <2>1
  <2>5. OnlyPendingLeased'  BY <2>1
  <2>6. LeaseHeld'  BY <2>1
  <2>7. QED  BY <2>2, <2>3, <2>4, <2>5, <2>6
<1>11. ASSUME NEW w \in Worker, BeginTick(w) \/ EndTick(w) \/ Start(w) \/ Stop(w) PROVE LeaseInv'
  BY <1>11 DEF BeginTick, EndTick, Start, Stop, tables, history
<1>12. ASSUME NEW w \in Worker, Exit(w) PROVE LeaseInv'
  BY <1>12 DEF Exit, Drained, Active, tables, history
<1>13. ASSUME NEW w \in Worker, Crash(w) PROVE LeaseInv'
  BY <1>13 DEF Crash, Active, NoTask, tables
<1>14. ASSUME NEW l \in Lease, Authorize(l) \/ Enrich(l) \/ Reauthorize(l) \/ Send(l)
       PROVE  LeaseInv'
  <2>1. Running(l) /\ task[l].phase # "pause" /\ Running(l)' /\ (task[l].phase # "pause")'
    BY <1>14, TaskMoves
  <2>2. HolderFits'  BY <1>14, <2>1, TaskMoves
  <2>3. StillHolds'  BY <1>14, <2>1, TaskMoves
  <2>4. OneRowPerLease'  BY <1>14, <2>1, TaskMoves
  <2>5. OnlyPendingLeased'  BY <1>14, <2>1, TaskMoves
  <2>6. LeaseHeld'  BY <1>14, <2>1, TaskMoves
  <2>7. QED  BY <2>2, <2>3, <2>4, <2>5, <2>6
<1>18. ASSUME NEW l \in Lease, Record(l) PROVE LeaseInv'
  BY <1>18 DEF Record, RecordsRow, NoTask
<1>19. ASSUME NEW l \in Lease, Pause(l) PROVE LeaseInv'
  BY <1>19 DEF Pause, NoTask
<1>20. ASSUME NEW l \in Lease, RecordFails(l) PROVE LeaseInv'
  BY <1>20 DEF RecordFails, NoTask, tables
<1>21. CASE UNCHANGED vars
  BY <1>21 DEF vars, history
<1>22. QED
  BY <1>1, <1>2, <1>3, <1>4, <1>5, <1>6, <1>7, <1>8, <1>9, <1>10, <1>11, <1>12, <1>13, <1>14, <1>18, <1>19, <1>20, <1>21 DEF Next, TaskStep

\* A task that holds a row holds it under the lease that the row names.
THEOREM LeasesMatch == Spec => []LeaseInv
<1>1. Init => LeaseInv
  BY DeliveryAssumption DEF Init, AbsentRow, NoTask, LeaseInv, HolderFits, StillHolds,
     OneRowPerLease, OnlyPendingLeased, LeaseHeld, Holds, Running
<1>2. QED
  BY <1>1, TypeCorrect, LeaseStep, PTL DEF Spec

\* Exclusive leases: while its lease has not run out, a task is the only one that can
\* finish its row, for any number of replicas, redeliveries and crashes.
THEOREM LeaseExclusion == Spec => []LeaseProtects
<1>1. TypeOK /\ LeaseInv => LeaseProtects
  BY DEF TypeOK, Task, NoTask, LiveTask, LeaseInv, HolderFits, StillHolds, LeaseProtects,
         Holds, Running
<1>2. QED
  BY <1>1, TypeCorrect, LeasesMatch, PTL

\* No lease leaks: a leased row has its task, unless a fault took the task.
THEOREM NoLeaseLeaks == Spec => []LeaseHeld
<1>1. LeaseInv => LeaseHeld
  BY DEF LeaseInv
<1>2. QED
  BY <1>1, LeasesMatch, PTL

\* Only a redelivery reopens a finished row, and only deletion removes it.
THEOREM FinishedStays == Spec => SettledStays
<1>1. TypeOK /\ LeaseInv /\ [Next]_vars =>
        [\A d \in Delivery :
           row[d].status \in Settled /\ row'[d] # row[d] =>
             \/ row'[d].status = "removed"
             \/ row'[d].status = "pending" /\ edits' = edits + 1]_vars
  <2> SUFFICES ASSUME TypeOK, LeaseInv, Next, NEW e \in Delivery,
                      row[e].status \in Settled, row'[e] # row[e]
               PROVE  \/ row'[e].status = "removed"
                      \/ row'[e].status = "pending" /\ edits' = edits + 1
    OBVIOUS
  <2> USE DeliveryAssumption DEF TypeOK, Settled
  <2>0. row[e].lease = NoLease
    BY DEF LeaseInv, OnlyPendingLeased
  <2>1. ASSUME NEW d \in Delivery, Route(d) \/ FallDue(d) PROVE FALSE
    BY <2>1 DEF Route, FallDue
  <2>2. ASSUME NEW d \in Delivery, Redeliver(d) PROVE row'[e].status = "pending" /\ edits' = edits + 1
    BY <2>2 DEF Redeliver, Edit
  <2>3. ASSUME NEW d \in Delivery, Retire(d) PROVE row'[e].status = "removed"
    BY <2>3 DEF Retire, AbsentRow
  <2>4. ASSUME NEW d \in Delivery, Lapse(d) \/ Overrun(d) PROVE FALSE
    BY <2>0, <2>4 DEF Lapse, Overrun
  <2>5. ASSUME NEW d \in Delivery, NEW w \in Worker, Claim(w, d) PROVE FALSE
    BY <2>5 DEF Claim, Claimable
  <2>6. ASSUME NEW h \in Hook, RemoveHook(h) PROVE row'[e].status = "removed"
    BY <2>6 DEF RemoveHook, AbsentRow
  <2>7. ASSUME NEW l \in Lease, Record(l) PROVE FALSE
    <3>1. task[l] \in LiveTask /\ Running(l)
      BY <2>7 DEF Record, Task, NoTask, Running
    <3>2. RecordsRow(l) => row[task[l].on].status = "pending"
      BY <3>1 DEF LeaseInv, HolderFits, Holds, RecordsRow, LiveTask
    <3>3. QED  BY <2>7, <3>1, <3>2 DEF Record, LiveTask
  <2>8. ASSUME NEW l \in Lease, TaskStep(l) \/ RecordFails(l) PROVE FALSE
    BY <2>7, <2>8, TaskMoves DEF TaskStep, Pause, RecordFails, tables
  <2>9. ASSUME NEW d \in Delivery, ChangeAccess(d) PROVE FALSE
    BY <2>9 DEF ChangeAccess
  <2>10. ASSUME NEW h \in Hook, SaveHook(h) PROVE FALSE
    BY <2>10 DEF SaveHook
  <2>11. ASSUME NEW w \in Worker,
               BeginTick(w) \/ EndTick(w) \/ Stop(w) \/ Exit(w) \/ Start(w) \/ Crash(w)
         PROVE FALSE
    BY <2>11 DEF BeginTick, EndTick, Stop, Exit, Start, Crash, tables
  <2>12. QED
    BY <2>1, <2>2, <2>3, <2>4, <2>5, <2>6, <2>8, <2>9, <2>10, <2>11 DEF Next
<1>2. QED
  BY <1>1, TypeCorrect, LeasesMatch, PTL DEF Spec, SettledStays

-----------------------------------------------------------------------------
(* Retries. *)

\* An attempt that ends with another try to come was not the last one.
LEMMA TriesLeft ==
  ASSUME TypeOK, NEW l \in Lease, Authorize(l) \/ Enrich(l) \/ Reauthorize(l) \/ Send(l),
         task'[l].phase = "record", task'[l].outcome = "pending"
  PROVE  task[l].attempt < MaxAttempts
<1>1. task[l] \in LiveTask /\ task[l].attempt \in Nat
  BY TaskMoves DEF LiveTask
<1>2. task'[l].outcome = Retry(task[l].attempt)
  <2>1. task \in [Lease -> Task] /\ task[l].phase # "record"
    BY TaskMoves DEF TypeOK
  <2>2. CASE Authorize(l)
    BY <1>1, <2>1, <2>2 DEF LiveTask, Authorize, GoTo, EndWith
  <2>3. CASE Enrich(l)
    BY <1>1, <2>1, <2>3 DEF LiveTask, Enrich, EndWith
  <2>4. CASE Reauthorize(l)
    BY <1>1, <2>1, <2>4 DEF LiveTask, Reauthorize, GoTo, EndWith
  <2>5. CASE Send(l)
    BY <1>1, <2>1, <2>5 DEF LiveTask, Send, EndWith
  <2>6. QED  BY <2>2, <2>3, <2>4, <2>5
<1>3. QED
  BY <1>1, <1>2, DeliveryAssumption DEF Retry

\* Every step keeps the retry budget: a task reads an attempt count that only it can raise.
LEMMA BudgetStep == TypeOK /\ LeaseInv /\ BudgetInv /\ [Next]_vars => BudgetInv'
<1> SUFFICES ASSUME TypeOK, LeaseInv, BudgetInv, [Next]_vars PROVE BudgetInv'
  OBVIOUS
<1> USE DeliveryAssumption DEF BudgetInv, RetryBudget, Running, NoTask
<1>0. /\ row \in [Delivery -> Row] /\ \A d \in Delivery : row[d].attempts \in Nat
      /\ task \in [Lease -> Task]
  BY DEF TypeOK, Row
<1>1. ASSUME NEW d \in Delivery, Route(d) PROVE BudgetInv'
  BY <1>0, <1>1 DEF Row, Route, history, bounds
<1>2. ASSUME NEW d \in Delivery, Redeliver(d) PROVE BudgetInv'
  BY <1>0, <1>2 DEF Row, Redeliver
<1>3. ASSUME NEW d \in Delivery, ChangeAccess(d) PROVE BudgetInv'
  BY <1>0, <1>3 DEF Task, LiveTask, ChangeAccess, history
<1>4. ASSUME NEW d \in Delivery, Retire(d) PROVE BudgetInv'
  BY <1>0, <1>4 DEF Row, Retire, AbsentRow, history, bounds
<1>5. ASSUME NEW d \in Delivery, FallDue(d) PROVE BudgetInv'
  BY <1>0, <1>5 DEF Row, FallDue, history, bounds
<1>6. ASSUME NEW d \in Delivery, Lapse(d) \/ Overrun(d) PROVE BudgetInv'
  BY <1>0, <1>6 DEF Row, Lapse, Overrun, history, bounds
<1>7. ASSUME NEW d \in Delivery, NEW w \in Worker, Claim(w, d) PROVE BudgetInv'
  BY <1>0, <1>7 DEF Row, Claim, Claimable
<1>8. ASSUME NEW h \in Hook, SaveHook(h) PROVE BudgetInv'
  BY <1>8 DEF SaveHook
<1>9. ASSUME NEW h \in Hook, RemoveHook(h) PROVE BudgetInv'
  BY <1>0, <1>9 DEF Row, RemoveHook, AbsentRow
<1>10. ASSUME NEW w \in Worker, BeginTick(w) \/ EndTick(w) \/ Start(w) \/ Stop(w) PROVE BudgetInv'
  BY <1>10 DEF BeginTick, EndTick, Start, Stop, tables, history
<1>11. ASSUME NEW w \in Worker, Exit(w) \/ Crash(w) PROVE BudgetInv'
  BY <1>11 DEF Exit, Crash, tables, history
<1>12. ASSUME NEW l \in Lease, Authorize(l) \/ Enrich(l) \/ Reauthorize(l) \/ Send(l)
       PROVE  BudgetInv'
  BY <1>12, TaskMoves, TriesLeft
<1>13. ASSUME NEW l \in Lease, Record(l) PROVE BudgetInv'
  <2>1. task[l] \in LiveTask /\ Running(l)
    BY <1>13, <1>0 DEF Record, Task
  <2>2. RecordsRow(l) => row[task[l].on].status = "pending"
                         /\ task[l].attempt = row[task[l].on].attempts + 1
    BY <2>1 DEF LiveTask, LeaseInv, HolderFits, Holds, RecordsRow
  <2>3. \A d \in Delivery :
          \/ row'[d] = row[d]
          \/ /\ row'[d].attempts = task[l].attempt
             /\ row'[d].status = StatusOf(task[l].outcome)
    BY <1>0, <1>13, <2>1, <2>2 DEF Record, LiveTask
  <2>4. task[l].attempt \in 1 .. MaxAttempts /\ StatusOf(task[l].outcome) # "absent"
        /\ (StatusOf(task[l].outcome) = "pending" => task[l].attempt < MaxAttempts)
    BY <1>13, <2>1 DEF StatusOf, LiveTask, Outcome, Record
  <2>5. \A k \in Lease : task'[k] \in {task[k], NoTask, [task[k] EXCEPT !.phase = "pause"]}
    BY <1>0, <1>13 DEF Record
  <2>6. RetryBudget'
    BY <1>0, <2>1, <2>3, <2>4, <2>5, <1>13 DEF Record, LiveTask, Task
  <2>7. QED
    BY <1>0, <2>1, <2>3, <2>4, <2>5, <2>6, <1>13 DEF Record, LiveTask, Task
<1>14. ASSUME NEW l \in Lease, Pause(l) \/ RecordFails(l) PROVE BudgetInv'
  BY <1>0, <1>14 DEF Pause, RecordFails, tables
<1>15. CASE UNCHANGED vars
  BY <1>15 DEF vars
<1>16. QED
  BY <1>1, <1>2, <1>3, <1>4, <1>5, <1>6, <1>7, <1>8, <1>9, <1>10, <1>11, <1>12, <1>13, <1>14,
     <1>15 DEF Next, TaskStep

\* The retry budget: six attempts at most, and a row still waiting has one left.
THEOREM BudgetKept == Spec => []RetryBudget
<1>1. Init => BudgetInv
  BY DeliveryAssumption DEF Init, AbsentRow, NoTask, BudgetInv, RetryBudget, Running
<1>2. BudgetInv => RetryBudget
  BY DEF BudgetInv
<1>3. QED
  BY <1>1, <1>2, TypeCorrect, LeasesMatch, BudgetStep, PTL DEF Spec

-----------------------------------------------------------------------------
(* Access. *)

\* Every step keeps the access a body was built under on its task's record.
LEMMA AccessStep == TypeOK /\ AccessInv /\ [Next]_vars => AccessInv'
<1> SUFFICES ASSUME TypeOK, AccessInv, [Next]_vars PROVE AccessInv'
  OBVIOUS
<1> USE DEF AccessInv, SentWithAccess, NoTask
<1>0. task \in [Lease -> Task]
  BY DEF TypeOK
<1>1. ASSUME NEW d \in Delivery, ChangeAccess(d) PROVE AccessInv'
  <2> SUFFICES ASSUME NEW l \in Lease
               PROVE  /\ task'[l].phase = "send" => task'[l].held
                      /\ task'[l].phase = "reauthorize" /\ mayView'[task'[l].on] => task'[l].held
    OBVIOUS
  <2>1. CASE task[l].phase = "reauthorize" /\ task[l].on = d /\ mayView'[d]
    <3>1. task'[l] = [task[l] EXCEPT !.held = TRUE]
      BY <1>1, <2>1 DEF ChangeAccess
    <3>2. task[l] \in LiveTask
      BY <1>0, <2>1 DEF Task
    <3>3. QED  BY <3>1, <3>2 DEF LiveTask
  <2>2. CASE ~(task[l].phase = "reauthorize" /\ task[l].on = d /\ mayView'[d])
    <3>1. task'[l] = task[l] /\ \A e \in Delivery \ {d} : mayView'[e] = mayView[e]
      BY <1>1, <2>2 DEF ChangeAccess, TypeOK
    <3>2. task[l].phase = "reauthorize" => task[l].on \in Delivery
      BY <1>0 DEF Task, LiveTask
    <3>3. QED  BY <2>2, <3>1, <3>2
  <2>3. QED  BY <2>1, <2>2
<1>2. ASSUME NEW d \in Delivery,
             Route(d) \/ Redeliver(d) \/ Retire(d) \/ FallDue(d) \/ Lapse(d) \/ Overrun(d)
      PROVE  AccessInv'
  BY <1>2 DEF Route, Redeliver, Retire, FallDue, Lapse, Overrun
<1>3. ASSUME NEW d \in Delivery, NEW w \in Worker, Claim(w, d) PROVE AccessInv'
  BY <1>0, <1>3 DEF Claim
<1>4. ASSUME NEW h \in Hook, SaveHook(h) \/ RemoveHook(h) PROVE AccessInv'
  BY <1>4 DEF SaveHook, RemoveHook
<1>5. ASSUME NEW w \in Worker, BeginTick(w) \/ EndTick(w) \/ Start(w) \/ Stop(w) PROVE AccessInv'
  BY <1>5 DEF BeginTick, EndTick, Start, Stop, tables
<1>6. ASSUME NEW w \in Worker, Exit(w) \/ Crash(w) PROVE AccessInv'
  BY <1>6 DEF Exit, Crash, tables
<1>7. ASSUME NEW l \in Lease, Authorize(l) PROVE AccessInv'
  BY <1>0, <1>7 DEF Authorize, GoTo, EndWith, tables, Task, LiveTask
<1>8. ASSUME NEW l \in Lease, Enrich(l) PROVE AccessInv'
  <2>1. task[l] \in LiveTask /\ mayView' = mayView
    BY <1>0, <1>8 DEF Enrich, Task, tables
  <2>2. CASE task' = [task EXCEPT ![l].phase = "reauthorize", ![l].held = mayView[task[l].on]]
    BY <1>0, <2>1, <2>2 DEF LiveTask
  <2>3. CASE \E o : EndWith(l, o)
    BY <1>0, <2>1, <2>3 DEF LiveTask, EndWith
  <2>4. QED  BY <1>8, <2>2, <2>3 DEF Enrich
<1>9. ASSUME NEW l \in Lease, Reauthorize(l) PROVE AccessInv'
  BY <1>0, <1>9 DEF Reauthorize, GoTo, EndWith, tables, Task, LiveTask
<1>10. ASSUME NEW l \in Lease, Send(l) PROVE AccessInv'
  BY <1>0, <1>10 DEF Send, EndWith, tables, Task, LiveTask
<1>11. ASSUME NEW l \in Lease, Record(l) \/ Pause(l) \/ RecordFails(l) PROVE AccessInv'
  <2>1. mayView' = mayView
    BY <1>11 DEF Record, Pause, RecordFails, tables
  <2>2. task[l] \in LiveTask
    BY <1>0, <1>11 DEF Record, Pause, RecordFails, Task
  <2>3. /\ \A k \in Lease \ {l} : task'[k] = task[k]
        /\ task'[l] = NoTask \/ task'[l] = [task[l] EXCEPT !.phase = "pause"]
    BY <1>0, <1>11 DEF Record, Pause, RecordFails
  <2>4. task'[l].phase \in {"none", "pause"}
    BY <2>2, <2>3 DEF LiveTask
  <2>5. QED  BY <2>1, <2>3, <2>4
<1>12. CASE UNCHANGED vars
  BY <1>12 DEF vars, tables
<1>13. QED
  BY <1>1, <1>2, <1>3, <1>4, <1>5, <1>6, <1>7, <1>8, <1>9, <1>10, <1>11, <1>12 DEF Next, TaskStep

\* Nothing is sent to a webhook whose owner had lost access when the body was built
\* and never got it back, whenever the access changes.
THEOREM AccessKept == Spec => []SentWithAccess
<1>1. Init => AccessInv
  BY DEF Init, AccessInv, SentWithAccess, NoTask
<1>2. AccessInv => SentWithAccess
  BY DEF AccessInv
<1>3. QED
  BY <1>1, <1>2, TypeCorrect, AccessStep, PTL DEF Spec

-----------------------------------------------------------------------------
(* The promise of the delivery log. *)

\* A task up to its answer adds to what its receiver took in, and counts a success
\* only with an addition.
LEMMA AnswerCounts ==
  ASSUME TypeOK, NEW l \in Lease, Authorize(l) \/ Enrich(l) \/ Reauthorize(l) \/ Send(l)
  PROVE  /\ \/ UNCHANGED accepted
            \/ /\ accepted'[task[l].on] > 0
               /\ \A d \in Delivery \ {task[l].on} : accepted'[d] = accepted[d]
         /\ task'[l].phase = "record" /\ task'[l].outcome = "succeeded" =>
              accepted'[task[l].on] > 0
<1>0. /\ task \in [Lease -> Task] /\ task[l] \in LiveTask
      /\ accepted \in [Delivery -> 0 .. 2] /\ task[l].on \in Delivery
      /\ task[l].phase # "record"
  BY TaskMoves DEF TypeOK, LiveTask
<1>1. \A n \in Nat : Retry(n) # "succeeded"
  BY DEF Retry
<1>2. CASE Authorize(l)
  BY <1>0, <1>1, <1>2 DEF LiveTask, Authorize, GoTo, EndWith, history
<1>3. CASE Enrich(l)
  BY <1>0, <1>1, <1>3 DEF LiveTask, Enrich, EndWith, history
<1>4. CASE Reauthorize(l)
  BY <1>0, <1>1, <1>4 DEF LiveTask, Reauthorize, GoTo, EndWith, history
<1>5. CASE Send(l)
  BY <1>0, <1>1, <1>5 DEF LiveTask, Send, EndWith
<1>6. QED  BY <1>2, <1>3, <1>4, <1>5

\* Every step keeps a success that is still to be recorded a true one.
LEMMA AcceptedStep == TypeOK /\ LeaseInv /\ AcceptedInv /\ [Next]_vars => AcceptedInv'
<1> SUFFICES ASSUME TypeOK, LeaseInv, AcceptedInv, [Next]_vars PROVE AcceptedInv'
  OBVIOUS
<1> USE DeliveryAssumption DEF AcceptedInv, Holds, Running, NoTask
<1>0. /\ row \in [Delivery -> Row] /\ task \in [Lease -> Task]
      /\ accepted \in [Delivery -> 0 .. 2]
  BY DEF TypeOK
<1>1. ASSUME NEW d \in Delivery,
             Route(d) \/ Retire(d) \/ FallDue(d) \/ Lapse(d) \/ Overrun(d)
      PROVE  AcceptedInv'
  <2>1. UNCHANGED <<task, accepted>>
    BY <1>1 DEF Route, Retire, FallDue, Lapse, Overrun, history
  <2>2. \A e \in Delivery : row'[e].lease \in {row[e].lease, NoLease}
    <3>1. CASE Route(d)
      BY <1>0, <3>1 DEF Row, Route
    <3>2. CASE Retire(d)
      BY <1>0, <3>2 DEF Row, AbsentRow, Retire
    <3>3. CASE FallDue(d)
      BY <1>0, <3>3 DEF Row, FallDue
    <3>4. CASE Lapse(d)
      BY <1>0, <3>4 DEF Row, Lapse
    <3>5. CASE Overrun(d)
      <4>1. row' = [row EXCEPT ![d].lapsed = TRUE]
        BY <3>5 DEF Overrun
      <4>2. QED  BY <1>0, <4>1 DEF Row
    <3>6. QED  BY <1>1, <3>1, <3>2, <3>3, <3>4, <3>5
  <2>3. QED  BY <2>1, <2>2
<1>2. ASSUME NEW d \in Delivery, Redeliver(d) PROVE AcceptedInv'
  BY <1>0, <1>2 DEF Redeliver
<1>3. ASSUME NEW d \in Delivery, ChangeAccess(d) PROVE AcceptedInv'
  <2>1. \A l \in Lease :
          task'[l] = IF task[l].phase = "reauthorize" /\ task[l].on = d /\ mayView'[d]
                     THEN [task[l] EXCEPT !.held = TRUE] ELSE task[l]
    BY <1>3 DEF ChangeAccess
  <2>2. \A l \in Lease : task[l].phase = "reauthorize" => task[l] \in LiveTask
    BY <1>0 DEF Task
  <2>3. \A l \in Lease : task'[l].phase = "record" => task'[l] = task[l]
    BY <2>1, <2>2 DEF LiveTask
  <2>4. UNCHANGED <<row, accepted>>
    BY <1>3 DEF ChangeAccess, history
  <2>5. QED  BY <2>3, <2>4
<1>4. ASSUME NEW d \in Delivery, NEW w \in Worker, Claim(w, d) PROVE AcceptedInv'
  BY <1>0, <1>4 DEF Claim, Fresh
<1>5. ASSUME NEW h \in Hook, SaveHook(h) \/ RemoveHook(h) PROVE AcceptedInv'
  <2>1. UNCHANGED <<task, accepted>>
    BY <1>5 DEF SaveHook, RemoveHook
  <2>2. \A e \in Delivery : row'[e].lease \in {row[e].lease, NoLease}
    BY <1>0, <1>5 DEF AbsentRow, SaveHook, RemoveHook
  <2>3. QED  BY <2>1, <2>2
<1>6. ASSUME NEW w \in Worker, BeginTick(w) \/ EndTick(w) \/ Start(w) \/ Stop(w) PROVE AcceptedInv'
  BY <1>6 DEF BeginTick, EndTick, Start, Stop, tables, history
<1>7. ASSUME NEW w \in Worker, Exit(w) \/ Crash(w) PROVE AcceptedInv'
  BY <1>7 DEF Exit, Crash, tables, history
<1>8. ASSUME NEW l \in Lease, Authorize(l) \/ Enrich(l) \/ Reauthorize(l) \/ Send(l)
      PROVE  AcceptedInv'
  <2> SUFFICES ASSUME NEW k \in Lease, NEW d \in Delivery, Holds(k, d)',
                      task'[k].phase = "record", task'[k].outcome = "succeeded"
               PROVE  accepted'[d] > 0
    OBVIOUS
  <2>1. CASE k = l
    BY <1>8, <2>1, TaskMoves, AnswerCounts
  <2>2. CASE k # l
    BY <1>0, <1>8, <2>2, TaskMoves, AnswerCounts
  <2>3. QED  BY <2>1, <2>2
<1>9. ASSUME NEW l \in Lease, Record(l) \/ Pause(l) \/ RecordFails(l) PROVE AcceptedInv'
  <2>1. task[l] \in LiveTask /\ accepted' = accepted
    BY <1>0, <1>9 DEF Record, Pause, RecordFails, Task
  <2>2. /\ \A k \in Lease \ {l} : task'[k] = task[k]
        /\ task'[l] = NoTask \/ task'[l] = [task[l] EXCEPT !.phase = "pause"]
    BY <1>0, <1>9 DEF Record, Pause, RecordFails
  <2>3. task'[l].phase # "record"
    BY <2>1, <2>2 DEF LiveTask
  <2>4. \A e \in Delivery : row'[e].lease \in {row[e].lease, NoLease}
    BY <1>0, <1>9 DEF Record, Pause, RecordFails, tables
  <2>5. QED  BY <2>1, <2>2, <2>3, <2>4
<1>10. CASE UNCHANGED vars
  BY <1>10 DEF vars, history
<1>11. QED
  BY <1>1, <1>2, <1>3, <1>4, <1>5, <1>6, <1>7, <1>8, <1>9, <1>10 DEF Next, TaskStep

\* Recording is the only way a worker ends a delivery, and it ends a pending one,
\* as succeeded only when the receiver took a request in.
LEMMA RecordEnds ==
  ASSUME TypeOK, LeaseInv, AcceptedInv, NEW l \in Lease, Record(l)
  PROVE  /\ UNCHANGED accepted
         /\ \/ \A d \in Delivery : row'[d].status = row[d].status
            \/ /\ task[l].on \in Delivery /\ row[task[l].on].status = "pending"
               /\ row'[task[l].on].status \in {"succeeded", "failed", "dead"}
               /\ row'[task[l].on].status = "succeeded" => accepted[task[l].on] > 0
               /\ \A d \in Delivery \ {task[l].on} : row'[d] = row[d]
<1>1. task[l] \in LiveTask /\ Running(l) /\ task[l].on \in Delivery /\ task[l].phase = "record"
  BY DEF Record, TypeOK, Task, NoTask, LiveTask, Running
<1>2. CASE ~RecordsRow(l)
  BY <1>2 DEF Record
<1>3. CASE RecordsRow(l)
  <2>1. Holds(l, task[l].on)
    BY <1>1, <1>3 DEF Holds, RecordsRow
  <2>2. row[task[l].on].status = "pending"
    BY <1>1, <2>1 DEF LeaseInv, HolderFits
  <2>3. task[l].outcome = "succeeded" => accepted[task[l].on] > 0
    BY <1>1, <2>1 DEF AcceptedInv
  <2>4. /\ row'[task[l].on].status = StatusOf(task[l].outcome)
        /\ \A d \in Delivery \ {task[l].on} : row'[d] = row[d]
        /\ UNCHANGED accepted
    BY <1>1, <1>3 DEF TypeOK, Record
  <2>5. \/ StatusOf(task[l].outcome) = "pending"
        \/ /\ StatusOf(task[l].outcome) \in {"succeeded", "failed", "dead"}
           /\ StatusOf(task[l].outcome) = "succeeded" => task[l].outcome = "succeeded"
    BY <1>1 DEF StatusOf, LiveTask, Outcome
  <2>6. QED  BY <1>1, <2>2, <2>3, <2>4, <2>5
<1>4. QED  BY <1>2, <1>3

\* Every step of the workers is a step of the promise or changes nothing it speaks of.
LEMMA PromiseStep ==
  ASSUME TypeOK, LeaseInv, AcceptedInv, [Next]_vars
  PROVE  [Promise!Next]_<<[d \in Delivery |-> row[d].status], [d \in Delivery |-> accepted[d] > 0]>>
<1> DEFINE state == [d \in Delivery |-> row[d].status]
           taken == [d \in Delivery |-> accepted[d] > 0]
           Goal  == [Promise!Next]_<<state, taken>>
<1> USE DeliveryAssumption DEF TypeOK
<1>0. /\ state' = [d \in Delivery |-> row'[d].status]
      /\ taken' = [d \in Delivery |-> accepted'[d] > 0]
  OBVIOUS
<1>1. ASSUME NEW d \in Delivery, Route(d) PROVE Goal
  <2>1. PICK s \in {"pending", "skipped"} :
          row' = [row EXCEPT ![d] = [@ EXCEPT !.status = s, !.due = TRUE]]
    BY <1>1 DEF Route
  <2>2. state' = [state EXCEPT ![d] = s]
    BY <2>1 DEF Row
  <2>3. state[d] = "absent" /\ UNCHANGED taken
    BY <1>1 DEF Route, history
  <2>4. QED  BY <2>2, <2>3 DEF Promise!Next, Promise!Queue
<1>2. ASSUME NEW d \in Delivery, Redeliver(d) PROVE Goal
  <2>1. state' = [state EXCEPT ![d] = "pending"]
    BY <1>2 DEF Redeliver
  <2>2. taken' = [taken EXCEPT ![d] = FALSE]
    <3>1. \A e \in Delivery : (accepted'[e] > 0) = (IF e = d THEN FALSE ELSE accepted[e] > 0)
      <4>1. accepted'[d] = 0 /\ \A e \in Delivery \ {d} : accepted'[e] = accepted[e]
        BY <1>2 DEF Redeliver
      <4>2. (accepted'[d] > 0) = FALSE
        BY <4>1
      <4>3. ASSUME NEW e \in Delivery
            PROVE  (accepted'[e] > 0) = (IF e = d THEN FALSE ELSE accepted[e] > 0)
        <5>1. CASE e = d   BY <4>2, <5>1, Zenon
        <5>2. CASE e # d   BY <4>1, <5>2, Zenon
        <5>3. QED  BY <5>1, <5>2
      <4>4. QED  BY <4>3
    <3>2. taken' = [e \in Delivery |-> IF e = d THEN FALSE ELSE accepted[e] > 0]
      BY <3>1, Zenon
    <3>3. QED  BY <3>2, Zenon
  <2>3. state[d] \in Promise!Ended
    BY <1>2 DEF Redeliver, Settled, Promise!Ended
  <2>4. QED  BY <2>1, <2>2, <2>3 DEF Promise!Next, Promise!StartOver
<1>3. ASSUME NEW d \in Delivery, Retire(d) PROVE Goal
  <2>1. state' = [e \in Delivery |-> IF e \in {d} THEN "removed" ELSE state[e]]
    BY <1>3 DEF Retire, AbsentRow
  <2>2. UNCHANGED taken
    BY <1>3 DEF Retire, history
  <2>3. {d} \in SUBSET Delivery /\ Promise!Remove({d})
    BY <2>1, <2>2 DEF Promise!Remove
  <2>4. QED  BY <2>3 DEF Promise!Next
<1>4. ASSUME NEW h \in Hook, RemoveHook(h) PROVE Goal
  <2> DEFINE D == {d \in Delivery : HookOf[d] = h}
  <2>1. state' = [e \in Delivery |-> IF e \in D THEN "removed" ELSE state[e]]
    BY <1>4 DEF RemoveHook, AbsentRow
  <2>2. UNCHANGED taken
    BY <1>4 DEF RemoveHook
  <2>3. QED  BY <2>1, <2>2 DEF Promise!Next, Promise!Remove
<1>5. ASSUME NEW d \in Delivery, FallDue(d) \/ Lapse(d) \/ Overrun(d) \/ ChangeAccess(d) PROVE Goal
  <2>1. \A e \in Delivery : row'[e].status = row[e].status
    <3>1. CASE FallDue(d)
      BY <3>1 DEF Row, FallDue
    <3>2. CASE Lapse(d)
      BY <3>2 DEF Row, Lapse
    <3>3. CASE Overrun(d)
      <4>1. row' = [row EXCEPT ![d].lapsed = TRUE]
        BY <3>3 DEF Overrun
      <4>2. QED  BY <4>1 DEF Row
    <3>4. CASE ChangeAccess(d)
      BY <3>4 DEF ChangeAccess
    <3>5. QED  BY <1>5, <3>1, <3>2, <3>3, <3>4
  <2>2. UNCHANGED accepted
    BY <1>5 DEF FallDue, Lapse, Overrun, ChangeAccess, history
  <2>3. QED  BY <2>1, <2>2
<1>6. ASSUME NEW d \in Delivery, NEW w \in Worker, Claim(w, d) PROVE Goal
  <2>1. \A e \in Delivery : row'[e].status = row[e].status
    BY <1>6 DEF Row, Claim
  <2>2. UNCHANGED accepted
    BY <1>6 DEF Claim
  <2>3. QED  BY <2>1, <2>2
<1>7. ASSUME NEW h \in Hook, SaveHook(h) PROVE Goal
  BY <1>7 DEF SaveHook
<1>8. ASSUME NEW w \in Worker,
             BeginTick(w) \/ EndTick(w) \/ Stop(w) \/ Exit(w) \/ Start(w) \/ Crash(w)
      PROVE Goal
  BY <1>8 DEF BeginTick, EndTick, Stop, Exit, Start, Crash, tables, history
<1>9. ASSUME NEW l \in Lease, Authorize(l) \/ Enrich(l) \/ Reauthorize(l) \/ Send(l) PROVE Goal
  <2>1. UNCHANGED row /\ task[l].on \in Delivery
    BY <1>9, TaskMoves DEF LiveTask
  <2>2. CASE UNCHANGED accepted
    BY <2>1, <2>2
  <2>3. CASE /\ accepted'[task[l].on] > 0
             /\ \A d \in Delivery \ {task[l].on} : accepted'[d] = accepted[d]
    <3>1. taken' = [taken EXCEPT ![task[l].on] = TRUE]
      BY <2>1, <2>3
    <3>2. QED  BY <2>1, <3>1 DEF Promise!Next, Promise!Arrive
  <2>4. QED  BY <1>9, <2>2, <2>3, AnswerCounts
<1>10. ASSUME NEW l \in Lease, Record(l) PROVE Goal
  <2>1. UNCHANGED taken
    BY <1>10, RecordEnds
  <2>2. CASE \A d \in Delivery : row'[d].status = row[d].status
    BY <2>1, <2>2
  <2>3. CASE /\ task[l].on \in Delivery /\ row[task[l].on].status = "pending"
             /\ row'[task[l].on].status \in {"succeeded", "failed", "dead"}
             /\ row'[task[l].on].status = "succeeded" => accepted[task[l].on] > 0
             /\ \A d \in Delivery \ {task[l].on} : row'[d] = row[d]
    <3>1. state' = [state EXCEPT ![task[l].on] = row'[task[l].on].status]
      BY <2>3
    <3>2. \E d \in Delivery : Promise!End(d)
      BY <2>1, <2>3, <3>1 DEF Promise!End
    <3>3. QED  BY <3>2 DEF Promise!Next
  <2>4. QED  BY <1>10, <2>2, <2>3, RecordEnds
<1>11. ASSUME NEW l \in Lease, Pause(l) \/ RecordFails(l) PROVE Goal
  BY <1>11 DEF Pause, RecordFails, tables
<1>12. CASE UNCHANGED vars
  BY <1>12 DEF vars, tables, history
<1>13. QED
  BY <1>1, <1>2, <1>3, <1>4, <1>5, <1>6, <1>7, <1>8, <1>9, <1>10, <1>11, <1>12 DEF Next, TaskStep

\* The delivery workers implement the promise of the delivery log: queued once, ended
\* once, succeeded only if the receiver took the request in, reopened only from scratch.
THEOREM Refinement == Spec => PromiseKept
<1>1. Init => Promise!Init
  <2> SUFFICES ASSUME Init PROVE Promise!Init
    OBVIOUS
  <2>1. [d \in Delivery |-> row[d].status] = [d \in Delivery |-> "absent"]
    BY DEF Init, AbsentRow
  <2>2. [d \in Delivery |-> accepted[d] > 0] = [d \in Delivery |-> FALSE]
    <3>1. \A d \in Delivery : (accepted[d] > 0) = FALSE
      BY DEF Init
    <3>2. QED  BY <3>1, Zenon
  <2>3. QED  BY <2>1, <2>2 DEF Promise!Init
<1>2. Init => AcceptedInv
  BY DEF Init, AcceptedInv, Holds, Running, NoTask
<1>3. QED
  BY <1>1, <1>2, PromiseStep, TypeCorrect, LeasesMatch, AcceptedStep, PTL
     DEF Spec, PromiseKept, Promise!Spec
=============================================================================
