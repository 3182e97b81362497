--------------------------- MODULE WebhookRouting ---------------------------
(***************************************************************************)
(* The outbox of webhook events and its routing: every replica's worker    *)
(* takes a batch of stored events in one transaction and turns them into   *)
(* deliveries, applying each webhook's cooldown (server/webhook-outbox.ts, *)
(* routeEvents and coolingDown).                                           *)
(*                                                                         *)
(* Transactions are READ COMMITTED: a statement sees what is committed     *)
(* and what its own transaction wrote, and waits for another transaction   *)
(* that holds the row it writes.  A DELETE does not see a row another      *)
(* transaction has inserted and not committed, and does not wait for it.   *)
(***************************************************************************)
EXTENDS Naturals, FiniteSets, FiniteSetsExt, TLC

CONSTANTS
  Hook,       \* webhooks of one workspace, numbered in the order of created_at
  Key,        \* what alerts are about: a probe, a pipeline, an environment, a source
  Replica,    \* replicas, one routing transaction each at a time
  NoReplica,
  Emitted,    \* the kinds of events the sources record
  BatchLimit, \* events a batch takes (50)
  MaxEvents,  \* bound: events stored
  MaxFaults,  \* bound: transactions that fail or end with their process
  MaxEdits    \* bound: webhooks switched on or off, or deleted

\* What routing tells apart: alerts and recoveries about a key, and activity, which
\* has no cooldown.
Kind   == [class : {"alert", "recovery"}, key : Key] \cup [class : {"activity"}]
Alerts == {k \in Kind : k.class = "alert"}

ASSUME RoutingAssumption ==
  /\ Emitted \subseteq Kind
  /\ Hook \subseteq Nat
  /\ NoReplica \notin Replica
  /\ BatchLimit \in Nat \ {0}
  /\ MaxEvents \in Nat /\ MaxFaults \in Nat /\ MaxEdits \in Nat

VARIABLES
  event,     \* stored events in the order of created_at
  hook,      \* webhook rows
  delivery,  \* committed delivery rows
  cooldown,  \* cooldown rows: the committed value and an uncommitted one
  tx,        \* the routing transaction of each replica
  burst,     \* history: alerts sent since the cooldown last ran out or was ended
  faults, edits

vars == <<event, hook, delivery, cooldown, tx, burst, faults, edits>>

-----------------------------------------------------------------------------
Slot == 1 .. MaxEvents

NoEvent     == [routed |-> TRUE]
StoredEvent == [is : Emitted, routed : BOOLEAN]

Running == {"none", "running", "over"}
CooldownRow == [value : Running,                    \* committed
                by    : Replica \cup {NoReplica},   \* the transaction that holds the row
                next  : Running]                    \* what that transaction made of it

Verdict == {"undecided", "passed", "sent", "skipped"}

Idle == [open |-> FALSE, batch |-> {}, hooks |-> {},
         out |-> [e \in Slot |-> [h \in Hook |-> "undecided"]]]
Tx   == [open : BOOLEAN, batch : SUBSET Slot, hooks : SUBSET Hook,
         out : [Slot -> [Hook -> Verdict]]]

NoCooldown == [value |-> "none", by |-> NoReplica, next |-> "none"]

TypeOK ==
  /\ event \in [Slot -> StoredEvent \cup {NoEvent}]
  /\ hook \in [Hook -> {"on", "off", "removed"}]
  /\ delivery \in [Slot -> [Hook -> {"none", "sent", "skipped"}]]
  /\ cooldown \in [Hook -> [Key -> CooldownRow]]
  /\ tx \in [Replica -> Tx]
  /\ burst \in [Hook -> [Key -> 0 .. 2]]
  /\ faults \in 0 .. MaxFaults
  /\ edits \in 0 .. MaxEdits

Init ==
  /\ event = [e \in Slot |-> NoEvent]
  /\ hook = [h \in Hook |-> "on"]
  /\ delivery = [e \in Slot |-> [h \in Hook |-> "none"]]
  /\ cooldown = [h \in Hook |-> [k \in Key |-> NoCooldown]]
  /\ tx = [r \in Replica |-> Idle]
  /\ burst = [h \in Hook |-> [k \in Key |-> 0]]
  /\ faults = 0 /\ edits = 0

Stored(e)   == event[e] # NoEvent
Unrouted(e) == Stored(e) /\ ~event[e].routed
Is(e, c, k) == Stored(e) /\ event[e].is = [class |-> c, key |-> k]

-----------------------------------------------------------------------------
(* Sources, the webhook pages, time and retention. *)

\* recordWorkspaceEvent in its caller's transaction, while a webhook listens.
Store(k) ==
  /\ \E h \in Hook : hook[h] = "on"
  /\ \E e \in Slot :
       /\ ~Stored(e) /\ \A f \in 1 .. e - 1 : Stored(f)
       /\ event' = [event EXCEPT ![e] = [is |-> k, routed |-> FALSE]]
  /\ UNCHANGED <<hook, delivery, cooldown, tx, burst, faults, edits>>

Edit == edits < MaxEdits /\ edits' = edits + 1

SaveHook(h) ==
  /\ Edit
  /\ hook[h] # "removed"
  /\ \E s \in {"on", "off"} : hook' = [hook EXCEPT ![h] = s]
  /\ UNCHANGED <<event, delivery, cooldown, tx, burst, faults>>

\* The row is key-locked by transactions that inserted a delivery or a cooldown for it;
\* deleting it deletes both by cascade.
RemoveHook(h) ==
  /\ Edit
  /\ hook[h] # "removed"
  /\ \A r \in Replica, e \in Slot : tx[r].out[e][h] \notin {"sent", "skipped"}
  /\ \A k \in Key : cooldown[h][k].by = NoReplica
  /\ hook' = [hook EXCEPT ![h] = "removed"]
  /\ delivery' = [e \in Slot |-> [delivery[e] EXCEPT ![h] = "none"]]
  /\ cooldown' = [cooldown EXCEPT ![h] = [k \in Key |-> NoCooldown]]
  /\ burst' = [burst EXCEPT ![h] = [k \in Key |-> 0]]
  /\ UNCHANGED <<event, tx, faults>>

\* until <= now().  A transaction reads now() once, at its start, and whoever else
\* wants a row it holds waits, so a cooldown that ends meanwhile ends for nobody.
Expire(h, k) ==
  /\ cooldown[h][k].value = "running" /\ cooldown[h][k].by = NoReplica
  /\ cooldown' = [cooldown EXCEPT ![h][k].value = "over"]
  /\ burst' = [burst EXCEPT ![h][k] = 0]
  /\ UNCHANGED <<event, hook, delivery, tx, faults, edits>>

\* Retention deletes rows whose cooldown is over.
Sweep(h, k) ==
  /\ cooldown[h][k].value = "over" /\ cooldown[h][k].by = NoReplica
  /\ cooldown' = [cooldown EXCEPT ![h][k] = NoCooldown]
  /\ UNCHANGED <<event, hook, delivery, tx, burst, faults, edits>>

-----------------------------------------------------------------------------
(* The routing transaction. *)

Locked == UNION {tx[r].batch : r \in Replica}

\* The oldest events that are neither routed nor locked, FOR UPDATE SKIP LOCKED, then
\* the webhooks that are enabled.  A webhook passes on events it did not choose, its
\* filters turn down, or its owner has no access to, as far as the lookup could tell.
Begin(r) ==
  LET free  == {e \in Slot : Unrouted(e) /\ e \notin Locked}
      batch == {e \in free : Cardinality({f \in free : f < e}) < BatchLimit}
      on    == {h \in Hook : hook[h] = "on"}
  IN
  /\ ~tx[r].open
  /\ free # {}
  /\ \E passed \in SUBSET (batch \X on) :
       tx' = [tx EXCEPT ![r] =
         [open |-> TRUE, batch |-> batch, hooks |-> on,
          out |-> [e \in Slot |-> [h \in Hook |->
                     IF <<e, h>> \in passed THEN "passed" ELSE "undecided"]]]]
  /\ UNCHANGED <<event, hook, delivery, cooldown, burst, faults, edits>>

Undecided(r) ==
  {p \in tx[r].batch \X tx[r].hooks : tx[r].out[p[1]][p[2]] = "undecided"}

\* Events are taken in order, and the webhooks of each in order.
Turn(r, e, h) ==
  /\ tx[r].open
  /\ <<e, h>> \in Undecided(r)
  /\ \A p \in Undecided(r) : e < p[1] \/ (e = p[1] /\ h <= p[2])

Decide(r, e, h, v) == tx' = [tx EXCEPT ![r].out[e][h] = v]

\* Another transaction holds the row.
Held(r, h, k) == cooldown[h][k].by \notin {NoReplica, r}

\* What a statement of r sees, and what it leaves.
SeenBy(r, h, k) == IF cooldown[h][k].by = r THEN cooldown[h][k].next ELSE cooldown[h][k].value
Write(r, h, k, v) ==
  cooldown' = [cooldown EXCEPT ![h][k] = [value |-> @.value, by |-> r, next |-> v]]

SendActivity(r, e, h) ==
  /\ Turn(r, e, h) /\ event[e].is.class = "activity" /\ hook[h] # "removed"
  /\ Decide(r, e, h, "sent")
  /\ UNCHANGED <<event, hook, delivery, cooldown, burst, faults, edits>>

\* INSERT ... ON CONFLICT DO UPDATE WHERE until <= now() waits for the row and locks
\* it; no row back means that a cooldown runs.
SendAlertNoWait(r, e, h) ==
  LET k == event[e].is.key IN
  /\ Turn(r, e, h) /\ event[e].is.class = "alert" /\ hook[h] # "removed"
  /\ Decide(r, e, h, IF SeenBy(r, h, k) = "running" THEN "skipped" ELSE "sent")
  /\ Write(r, h, k, "running")
  /\ UNCHANGED <<event, hook, delivery, burst, faults, edits>>
SendAlert(r, e, h) ==
  LET k == event[e].is.key IN
  /\ Turn(r, e, h) /\ event[e].is.class = "alert" /\ hook[h] # "removed"
  /\ ~Held(r, h, k)
  /\ Decide(r, e, h, IF SeenBy(r, h, k) = "running" THEN "skipped" ELSE "sent")
  /\ Write(r, h, k, "running")
  /\ UNCHANGED <<event, hook, delivery, burst, faults, edits>>

\* DELETE of the cooldown row: it waits for a committed row that is held, and passes
\* over one that only another transaction's insert has made.
SendRecovery(r, e, h) ==
  LET k == event[e].is.key IN
  /\ Turn(r, e, h) /\ event[e].is.class = "recovery" /\ hook[h] # "removed"
  /\ ~Held(r, h, k) \/ cooldown[h][k].value = "none"
  /\ Decide(r, e, h, "sent")
  /\ IF Held(r, h, k) \/ SeenBy(r, h, k) = "none"
     THEN UNCHANGED cooldown
     ELSE Write(r, h, k, "none")
  /\ UNCHANGED <<event, hook, delivery, burst, faults, edits>>

\* Alerts about k that r sends to h after its last recovery, and whether it has one.
Ended(r, h, k) == \E e \in tx[r].batch : Is(e, "recovery", k) /\ tx[r].out[e][h] = "sent"
SentLast(r, h, k) ==
  {e \in tx[r].batch :
     /\ Is(e, "alert", k) /\ tx[r].out[e][h] = "sent"
     /\ \A f \in tx[r].batch : Is(f, "recovery", k) /\ tx[r].out[f][h] = "sent" => f < e}

Committed(r) == [h \in Hook |-> [k \in Key |->
  LET c == cooldown[h][k] IN
  IF c.by = r THEN [value |-> c.next, by |-> NoReplica, next |-> "none"] ELSE c]]

\* The pairs of the batch that get a row; ON CONFLICT DO NOTHING keeps one there is.
InsertsPassed(r, e, h) == tx[r].out[e][h] # "undecided"
Inserts(r, e, h) == tx[r].out[e][h] \in {"sent", "skipped"}

Commit(r) ==
  /\ tx[r].open
  /\ Undecided(r) = {}
  /\ event' = [e \in Slot |->
                 IF e \in tx[r].batch THEN [event[e] EXCEPT !.routed = TRUE] ELSE event[e]]
  /\ delivery' = [e \in Slot |-> [h \in Hook |->
                    IF Inserts(r, e, h) /\ delivery[e][h] = "none" THEN tx[r].out[e][h]
                    ELSE delivery[e][h]]]
  /\ cooldown' = Committed(r)
  /\ burst' = [h \in Hook |-> [k \in Key |->
       Min({2, Cardinality(SentLast(r, h, k)) + IF Ended(r, h, k) THEN 0 ELSE burst[h][k]})]]
  /\ tx' = [tx EXCEPT ![r] = Idle]
  /\ UNCHANGED <<hook, faults, edits>>

\* A ROLLBACK that left behind a cooldown written outside the transaction, and one that
\* left the row locked by a connection returned to the pool.
UndoneKeepsWrites(r) == Committed(r)
UndoneKeepsLocks(r)  == cooldown

\* ROLLBACK, or the end of the connection: locks and writes are gone.
Undone(r) == [h \in Hook |-> [k \in Key |->
  LET c == cooldown[h][k] IN
  IF c.by = r THEN [value |-> c.value, by |-> NoReplica, next |-> "none"] ELSE c]]

Rollback(r) ==
  /\ tx[r].open
  /\ cooldown' = Undone(r)
  /\ tx' = [tx EXCEPT ![r] = Idle]
  /\ UNCHANGED <<event, hook, delivery, burst>>

\* A statement or the commit fails, or the process ends.
Fail(r) ==
  /\ faults < MaxFaults /\ faults' = faults + 1
  /\ Rollback(r)
  /\ UNCHANGED edits

\* The webhook was deleted after the batch read it: the foreign key refuses the row,
\* and the whole batch rolls back.
RefuseRow(r, e, h) ==
  /\ Turn(r, e, h) /\ hook[h] = "removed"
  /\ Rollback(r)
  /\ UNCHANGED <<faults, edits>>

\* r waits for a row that s holds.
Waits(r, s) ==
  \E e \in Slot, h \in Hook :
    LET c == cooldown[h][event[e].is.key] IN
    /\ Turn(r, e, h) /\ hook[h] # "removed"
    /\ s # r
    /\ \/ event[e].is.class = "alert" /\ c.by = s
       \/ event[e].is.class = "recovery" /\ c.by = s /\ c.value # "none"

\* Transactions that wait for each other: the database ends one of them.
BreakDeadlock(r) ==
  /\ \E S \in SUBSET Replica :
       /\ r \in S
       /\ \A s \in S : (\E q \in S : Waits(s, q)) /\ (\E q \in S : Waits(q, s))
  /\ Rollback(r)
  /\ UNCHANGED <<faults, edits>>

-----------------------------------------------------------------------------

Route(r, e, h) ==
  SendActivity(r, e, h) \/ SendAlert(r, e, h) \/ SendRecovery(r, e, h) \/ RefuseRow(r, e, h)

Next ==
  \/ \E k \in Emitted : Store(k)
  \/ \E h \in Hook : SaveHook(h) \/ RemoveHook(h) \/ \E k \in Key : Expire(h, k) \/ Sweep(h, k)
  \/ \E r \in Replica :
       \/ Begin(r) \/ Commit(r) \/ Fail(r) \/ BreakDeadlock(r)
       \/ \E e \in Slot, h \in Hook : Route(r, e, h)

Spec == Init /\ [][Next]_vars

\* Ticks come every two seconds, statements end, and the database breaks deadlocks and
\* gives a row that is released to the statement that waits for it.
Fairness ==
  /\ \A r \in Replica : WF_vars(Begin(r)) /\ WF_vars(Commit(r))
  /\ \A e \in Slot, h \in Hook : SF_vars(\E r \in Replica : Route(r, e, h))
  /\ WF_vars(\E r \in Replica : BreakDeadlock(r))

FairSpec == Spec /\ Fairness

\* TLC: replicas, and subjects, differ in nothing but their names.
Interchangeable == Permutations(Key) \cup Permutations(Replica)

-----------------------------------------------------------------------------
(* Properties. *)

\* A webhook gets one alert about a subject per cooldown, however many replicas route
\* alerts about it at the same time: only the end of the cooldown or a recovery lets
\* the next one through.
CooldownSpacing == \A h \in Hook, k \in Key : burst[h][k] <= 1

\* An alert is held back only because another one about the same subject was really
\* queued: a transaction that fails leaves no cooldown behind that would swallow it.
SkipExplained ==
  \A e \in Slot, h \in Hook : delivery[e][h] = "skipped" =>
    \E a \in Slot : Is(a, "alert", event[e].is.key) /\ delivery[a][h] = "sent"

\* The outbox always drains: every stored event is routed in the end, though replicas
\* wait for each other's cooldown rows and deadlock over them.
EventsRouted == []<>(\A e \in Slot : ~Unrouted(e))

=============================================================================
