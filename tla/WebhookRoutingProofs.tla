------------------------ MODULE WebhookRoutingProofs ------------------------
(***************************************************************************)
(* Theorems about WebhookRouting for any number of webhooks, subjects,     *)
(* replicas and events, and any BatchLimit.                                *)
(***************************************************************************)
EXTENDS WebhookRouting, TLAPS, FiniteSetTheorems

-----------------------------------------------------------------------------
(* The inductive invariant. *)

Decided(r, e, h) == tx[r].out[e][h] \in {"sent", "skipped"}

\* Alerts about k for h: one is queued, and one is sent by r's open transaction.
AlertQueued(h, k) == \E a \in Slot : Is(a, "alert", k) /\ delivery[a][h] = "sent"
AlertSent(r, h, k) == \E a \in tx[r].batch : Is(a, "alert", k) /\ tx[r].out[a][h] = "sent"

\* Only routed events have deliveries, and no event is in two batches.
EventsFit ==
  \A e \in Slot, h \in Hook : delivery[e][h] # "none" => Stored(e) /\ event[e].routed
BatchesFit ==
  /\ \A r \in Replica : \A e \in tx[r].batch : Unrouted(e)
  /\ \A r, s \in Replica : r # s => tx[r].batch \cap tx[s].batch = {}

\* A batch is decided in the order of its events.
TurnsTaken ==
  \A r \in Replica, e \in Slot, h \in Hook : Decided(r, e, h) =>
    /\ tx[r].open /\ e \in tx[r].batch /\ h \in tx[r].hooks /\ hook[h] # "removed"
    /\ \A f \in tx[r].batch : f < e => tx[r].out[f][h] # "undecided"

\* Only an open transaction holds a row, and it has made it "running" or gone.
RowsFit ==
  \A h \in Hook, k \in Key :
    LET c == cooldown[h][k] IN
    /\ c.by = NoReplica => c.next = "none"
    /\ c.by # NoReplica => tx[c.by].open /\ c.next # "over"

\* Who deletes a row has sent a recovery; who sends an alert after its last recovery
\* holds the row as running, and sends no second one.
RecoveryEnds ==
  \A r \in Replica, h \in Hook, k \in Key :
    cooldown[h][k].by = r /\ cooldown[h][k].next = "none" => Ended(r, h, k)
AlertHolds ==
  \A r \in Replica, h \in Hook, k \in Key : \A e \in SentLast(r, h, k) :
    /\ cooldown[h][k].by = r /\ cooldown[h][k].next = "running"
    /\ SentLast(r, h, k) = {e}
    /\ ~Ended(r, h, k) => cooldown[h][k].value # "running"

\* Alerts count only while their cooldown runs.
BurstRuns == \A h \in Hook, k \in Key : burst[h][k] # 0 => cooldown[h][k].value = "running"

\* A cooldown runs, and an alert is held back, because of an alert that is queued or
\* that the same transaction sends.
RunningExplained ==
  \A h \in Hook, k \in Key :
    /\ cooldown[h][k].value = "running" => AlertQueued(h, k)
    /\ \A r \in Replica : cooldown[h][k].by = r /\ cooldown[h][k].next = "running" =>
         AlertSent(r, h, k) \/ AlertQueued(h, k)
SkipsExplained ==
  \A r \in Replica, e \in Slot, h \in Hook : tx[r].out[e][h] = "skipped" =>
    \E k \in Key : Is(e, "alert", k) /\ (AlertSent(r, h, k) \/ AlertQueued(h, k))
QueuedSkips ==
  \A e \in Slot, h \in Hook : delivery[e][h] = "skipped" =>
    \E k \in Key : Is(e, "alert", k) /\ AlertQueued(h, k)

\* What holds of the batches, of the rows, and of what explains them.
BatchInv == EventsFit /\ BatchesFit /\ TurnsTaken
RowInv   == RowsFit /\ RecoveryEnds /\ AlertHolds /\ BurstRuns /\ CooldownSpacing
SkipInv  == RunningExplained /\ SkipsExplained /\ QueuedSkips

RoutingInv == TypeOK /\ BatchInv /\ RowInv /\ SkipInv

-----------------------------------------------------------------------------
(* What the operators return. *)

LEMMA MinWithTwo ==
  ASSUME NEW n \in Nat
  PROVE  /\ Min({2, n}) \in 0 .. 2
         /\ Min({2, n}) # 0 => n # 0
         /\ n <= 1 => Min({2, n}) <= 1
<1>1. CASE n <= 2
  <2>1. n \in {2, n} /\ \A y \in {2, n} : n =< y
    BY <1>1
  <2>2. \A x \in {2, n} : (\A y \in {2, n} : x =< y) => x = n
    BY <1>1
  <2>3. Min({2, n}) = n
    BY <2>1, <2>2 DEF Min
  <2>4. QED  BY <1>1, <2>3
<1>2. CASE n > 2
  <2>1. 2 \in {2, n} /\ \A y \in {2, n} : 2 =< y
    BY <1>2
  <2>2. \A x \in {2, n} : (\A y \in {2, n} : x =< y) => x = 2
    BY <1>2
  <2>3. Min({2, n}) = 2
    BY <2>1, <2>2 DEF Min
  <2>4. QED  BY <1>2, <2>3
<1>3. QED  BY <1>1, <1>2

\* The alerts that a transaction sends about one subject can be counted.
LEMMA SentLastCounts ==
  ASSUME TypeOK, NEW r \in Replica, NEW h \in Hook, NEW k \in Key
  PROVE  /\ Cardinality(SentLast(r, h, k)) \in Nat
         /\ Cardinality(SentLast(r, h, k)) = 0 <=> SentLast(r, h, k) = {}
         /\ \A e : SentLast(r, h, k) = {e} => Cardinality(SentLast(r, h, k)) = 1
<1>1. SentLast(r, h, k) \subseteq Slot
  BY DEF TypeOK, Tx, SentLast
<1>2. IsFiniteSet(Slot)
  BY RoutingAssumption, FS_Interval DEF Slot
<1>3. IsFiniteSet(SentLast(r, h, k))
  BY <1>1, <1>2, FS_Subset
<1>4. QED  BY <1>3, FS_CardinalityType, FS_EmptySet, FS_Singleton

\* A stored event keeps what it is when it is routed.
LEMMA EventKinds ==
  ASSUME TypeOK, NEW e \in Slot, Stored(e)
  PROVE  /\ event[e] \in StoredEvent /\ event[e].is \in Kind
         /\ [event[e] EXCEPT !.routed = TRUE] \in StoredEvent
         /\ [event[e] EXCEPT !.routed = TRUE] # NoEvent
         /\ [event[e] EXCEPT !.routed = TRUE].is = event[e].is
         /\ [event[e] EXCEPT !.routed = TRUE].routed
         /\ \A k \in Key, c \in {"alert", "recovery"} :
              Is(e, c, k) <=> event[e].is.class = c /\ event[e].is.key = k
         /\ event[e].is.class \in {"alert", "recovery"} => event[e].is.key \in Key
<1>1. event[e] \in StoredEvent
  BY DEF TypeOK, Stored
<1>2. event[e].is \in Kind
  BY <1>1, RoutingAssumption DEF StoredEvent
<1>3. /\ [event[e] EXCEPT !.routed = TRUE] \in StoredEvent
      /\ [event[e] EXCEPT !.routed = TRUE].is = event[e].is
      /\ [event[e] EXCEPT !.routed = TRUE].routed
  BY <1>1 DEF StoredEvent
<1>4. \A x \in StoredEvent : x # NoEvent
  BY DEF StoredEvent, NoEvent
<1>5. \A k \in Key, c \in {"alert", "recovery"} :
              Is(e, c, k) <=> event[e].is.class = c /\ event[e].is.key = k
  BY <1>2 DEF Is, Kind
<1>6. event[e].is.class \in {"alert", "recovery"} => event[e].is.key \in Key
  BY <1>2 DEF Kind
<1>7. QED  BY <1>1, <1>2, <1>3, <1>4, <1>5, <1>6

-----------------------------------------------------------------------------
(* Types. *)

LEMMA IdleType == Idle \in Tx /\ \A e \in Slot, h \in Hook : Idle.out[e][h] = "undecided"
  BY DEF Idle, Tx, Verdict

LEMMA DecideType ==
  ASSUME TypeOK, NEW r \in Replica, NEW e \in Slot, NEW h \in Hook,
         NEW v \in Verdict, Decide(r, e, h, v)
  PROVE  /\ tx' \in [Replica -> Tx]
         /\ \A s \in Replica \ {r} : tx'[s] = tx[s]
         /\ tx'[r].open = tx[r].open /\ tx'[r].batch = tx[r].batch /\ tx'[r].hooks = tx[r].hooks
         /\ tx'[r].out[e][h] = v
         /\ \A f \in Slot, g \in Hook : <<f, g>> # <<e, h>> => tx'[r].out[f][g] = tx[r].out[f][g]
<1>1. tx[r] \in Tx
  BY DEF TypeOK
<1>2. tx' = [tx EXCEPT ![r] = [tx[r] EXCEPT !.out = [tx[r].out EXCEPT ![e] =
                                  [tx[r].out[e] EXCEPT ![h] = v]]]]
  BY DEF Decide
<1> DEFINE new == [tx[r] EXCEPT !.out = [tx[r].out EXCEPT ![e] = [tx[r].out[e] EXCEPT ![h] = v]]]
<1>3. /\ new \in Tx
      /\ new.open = tx[r].open /\ new.batch = tx[r].batch /\ new.hooks = tx[r].hooks
      /\ new.out[e][h] = v
      /\ \A f \in Slot, g \in Hook : <<f, g>> # <<e, h>> => new.out[f][g] = tx[r].out[f][g]
  BY <1>1 DEF Tx
<1>4. /\ tx' \in [Replica -> Tx] /\ tx'[r] = new
      /\ \A s \in Replica \ {r} : tx'[s] = tx[s]
  BY <1>2, <1>3 DEF TypeOK
<1>5. QED  BY <1>3, <1>4

LEMMA PutType ==
  ASSUME TypeOK, NEW h \in Hook, NEW k \in Key, NEW c \in CooldownRow,
         cooldown' = [cooldown EXCEPT ![h][k] = c]
  PROVE  /\ cooldown' \in [Hook -> [Key -> CooldownRow]]
         /\ cooldown'[h][k] = c
         /\ \A g \in Hook, j \in Key : <<g, j>> # <<h, k>> => cooldown'[g][j] = cooldown[g][j]
<1>1. cooldown' = [cooldown EXCEPT ![h] = [cooldown[h] EXCEPT ![k] = c]]
  OBVIOUS
<1>2. QED  BY <1>1 DEF TypeOK

LEMMA WriteType ==
  ASSUME TypeOK, NEW r \in Replica, NEW h \in Hook, NEW k \in Key, NEW v \in Running,
         Write(r, h, k, v)
  PROVE  /\ cooldown' \in [Hook -> [Key -> CooldownRow]]
         /\ cooldown'[h][k] = [value |-> cooldown[h][k].value, by |-> r, next |-> v]
         /\ \A g \in Hook, j \in Key : <<g, j>> # <<h, k>> => cooldown'[g][j] = cooldown[g][j]
<1> DEFINE new == [value |-> cooldown[h][k].value, by |-> r, next |-> v]
<1>1. new \in CooldownRow
  BY DEF TypeOK, CooldownRow
<1>2. cooldown' = [cooldown EXCEPT ![h][k] = new]
  BY DEF Write
<1> HIDE DEF new
<1>3. /\ cooldown' \in [Hook -> [Key -> CooldownRow]]
      /\ cooldown'[h][k] = new
      /\ \A g \in Hook, j \in Key : <<g, j>> # <<h, k>> => cooldown'[g][j] = cooldown[g][j]
  BY <1>1, <1>2, PutType
<1>4. QED  BY <1>3 DEF new

\* The rows after a commit and after a rollback.
LEMMA RowsAfter ==
  ASSUME TypeOK, NEW r \in Replica
  PROVE  /\ Committed(r) \in [Hook -> [Key -> CooldownRow]]
         /\ Undone(r) \in [Hook -> [Key -> CooldownRow]]
         /\ \A h \in Hook, k \in Key : cooldown[h][k].by # r =>
              Committed(r)[h][k] = cooldown[h][k] /\ Undone(r)[h][k] = cooldown[h][k]
         /\ \A h \in Hook, k \in Key : cooldown[h][k].by = r =>
              /\ Committed(r)[h][k].value = cooldown[h][k].next
              /\ Committed(r)[h][k].by = NoReplica /\ Committed(r)[h][k].next = "none"
              /\ Undone(r)[h][k].value = cooldown[h][k].value
              /\ Undone(r)[h][k].by = NoReplica /\ Undone(r)[h][k].next = "none"
<1> DEFINE C(c) == [value |-> c.next, by |-> NoReplica, next |-> "none"]
           U(c) == [value |-> c.value, by |-> NoReplica, next |-> "none"]
<1>1. \A h \in Hook, k \in Key : cooldown[h][k] \in CooldownRow
  BY DEF TypeOK
<1>2. \A c \in CooldownRow :
        /\ C(c) \in CooldownRow /\ C(c).value = c.next /\ C(c).by = NoReplica /\ C(c).next = "none"
        /\ U(c) \in CooldownRow /\ U(c).value = c.value /\ U(c).by = NoReplica /\ U(c).next = "none"
  BY DEF CooldownRow, Running
<1>3. /\ Committed(r) = [h \in Hook |-> [k \in Key |->
           IF cooldown[h][k].by = r THEN C(cooldown[h][k]) ELSE cooldown[h][k]]]
      /\ Undone(r) = [h \in Hook |-> [k \in Key |->
           IF cooldown[h][k].by = r THEN U(cooldown[h][k]) ELSE cooldown[h][k]]]
  BY DEF Committed, Undone
<1> HIDE DEF C, U
<1>4. QED  BY <1>1, <1>2, <1>3

\* What a step makes of the row, the transaction and the events it is about.
LEMMA ExpireType ==
  ASSUME TypeOK, NEW h \in Hook, NEW k \in Key, Expire(h, k) \/ Sweep(h, k)
  PROVE  \E c \in CooldownRow :
           /\ cooldown' = [cooldown EXCEPT ![h][k] = c]
           /\ c.value # "running" /\ c.by = NoReplica
           /\ c.next = cooldown[h][k].next \/ c.next = "none"
<1>1. cooldown[h][k] \in CooldownRow
  BY DEF TypeOK
<1>2. CASE Sweep(h, k)
  <2>1. /\ NoCooldown \in CooldownRow /\ NoCooldown.value # "running"
        /\ NoCooldown.by = NoReplica /\ NoCooldown.next = "none"
    BY DEF NoCooldown, CooldownRow, Running
  <2>2. cooldown' = [cooldown EXCEPT ![h][k] = NoCooldown]
    BY <1>2 DEF Sweep
  <2>3. QED  BY <2>1, <2>2
<1>3. CASE Expire(h, k)
  <2> DEFINE c == [cooldown[h][k] EXCEPT !.value = "over"]
  <2>1. c \in CooldownRow /\ c.value = "over" /\ c.by = cooldown[h][k].by
        /\ c.next = cooldown[h][k].next
    BY <1>1 DEF CooldownRow, Running
  <2>2. cooldown' = [cooldown EXCEPT ![h] = [cooldown[h] EXCEPT ![k] = c]]
    BY <1>3 DEF Expire
  <2> HIDE DEF c
  <2>3. QED  BY <1>3, <2>1, <2>2 DEF Expire
<1>4. QED  BY <1>2, <1>3

LEMMA BeginType ==
  ASSUME TypeOK, NEW r \in Replica, Begin(r)
  PROVE  /\ tx' \in [Replica -> Tx]
         /\ \A s \in Replica \ {r} : tx'[s] = tx[s]
         /\ \A e \in tx'[r].batch : Unrouted(e) /\ e \notin Locked
         /\ \A e \in Slot, h \in Hook : tx'[r].out[e][h] \in {"passed", "undecided"}
<1> DEFINE free  == {e \in Slot : Unrouted(e) /\ e \notin Locked}
           batch == {e \in free : Cardinality({f \in free : f < e}) < BatchLimit}
           on    == {h \in Hook : hook[h] = "on"}
<1>1. PICK passed \in SUBSET (batch \X on) :
        tx' = [tx EXCEPT ![r] =
          [open |-> TRUE, batch |-> batch, hooks |-> on,
           out |-> [e \in Slot |-> [h \in Hook |->
                      IF <<e, h>> \in passed THEN "passed" ELSE "undecided"]]]]
  BY DEF Begin
<1> DEFINE out == [e \in Slot |-> [h \in Hook |->
                     IF <<e, h>> \in passed THEN "passed" ELSE "undecided"]]
<1>2. /\ out \in [Slot -> [Hook -> Verdict]]
      /\ \A e \in Slot, h \in Hook : out[e][h] \in {"passed", "undecided"}
  BY DEF Verdict
<1>3. batch \subseteq Slot /\ on \subseteq Hook /\ \A e \in batch : Unrouted(e) /\ e \notin Locked
  OBVIOUS
<1> HIDE DEF batch, on, out
<1> DEFINE new == [open |-> TRUE, batch |-> batch, hooks |-> on, out |-> out]
<1>4. new \in Tx
  BY <1>2, <1>3 DEF Tx
<1>5. tx' = [tx EXCEPT ![r] = new]
  BY <1>1 DEF out
<1>6. tx' \in [Replica -> Tx] /\ tx'[r] = new /\ \A s \in Replica \ {r} : tx'[s] = tx[s]
  BY <1>4, <1>5 DEF TypeOK
<1>7. QED  BY <1>2, <1>3, <1>6

LEMMA CommitType ==
  ASSUME TypeOK, BatchesFit, NEW r \in Replica, Commit(r)
  PROVE  /\ event' \in [Slot -> StoredEvent \cup {NoEvent}]
         /\ \A e \in Slot : /\ e \notin tx[r].batch => event'[e] = event[e]
                            /\ e \in tx[r].batch => Stored(e)' /\ event'[e].routed
                            /\ event'[e].is = event[e].is /\ (Stored(e)' <=> Stored(e))
<1>1. \A e \in Slot : event'[e] = IF e \in tx[r].batch THEN [event[e] EXCEPT !.routed = TRUE] ELSE event[e]
  BY DEF Commit
<1>2. \A e \in tx[r].batch : e \in Slot /\ Stored(e)
  BY DEF BatchesFit, Unrouted, TypeOK, Tx
<1>3. \A e \in tx[r].batch :
        /\ [event[e] EXCEPT !.routed = TRUE] \in StoredEvent
        /\ [event[e] EXCEPT !.routed = TRUE] # NoEvent
        /\ [event[e] EXCEPT !.routed = TRUE].is = event[e].is
        /\ [event[e] EXCEPT !.routed = TRUE].routed
  BY <1>2, EventKinds
<1>4. event' = [e \in Slot |-> event'[e]]
  BY DEF Commit
<1>5. QED  BY <1>1, <1>2, <1>3, <1>4, Zenon DEF Stored, TypeOK

\* Whose turn it is.
LEMMA TurnType ==
  ASSUME TypeOK, BatchesFit, NEW r \in Replica, NEW e \in Slot, NEW h \in Hook, Turn(r, e, h)
  PROVE  /\ tx[r].open /\ e \in tx[r].batch /\ h \in tx[r].hooks
         /\ tx[r].out[e][h] = "undecided" /\ Stored(e)
         /\ event[e].is.class \in {"alert", "recovery"} => event[e].is.key \in Key
<1>1. tx[r].open /\ e \in tx[r].batch /\ h \in tx[r].hooks /\ tx[r].out[e][h] = "undecided"
  BY DEF Turn, Undecided
<1>2. Stored(e)
  BY <1>1 DEF BatchesFit, Unrouted
<1>3. QED  BY <1>1, <1>2, EventKinds

LEMMA AlertEffect ==
  ASSUME TypeOK, BatchesFit, NEW r \in Replica, NEW e \in Slot, NEW h \in Hook,
         SendAlert(r, e, h)
  PROVE  \E k \in Key :
           /\ Is(e, "alert", k) /\ ~Held(r, h, k)
           /\ Decide(r, e, h, IF SeenBy(r, h, k) = "running" THEN "skipped" ELSE "sent")
           /\ Write(r, h, k, "running")
<1>1. Stored(e) /\ event[e].is.class = "alert" /\ event[e].is.key \in Key
  BY TurnType DEF SendAlert
<1>2. Is(e, "alert", event[e].is.key)
  BY <1>1, EventKinds
<1>3. QED  BY <1>1, <1>2 DEF SendAlert

LEMMA RecoveryEffect ==
  ASSUME TypeOK, BatchesFit, NEW r \in Replica, NEW e \in Slot, NEW h \in Hook,
         SendRecovery(r, e, h)
  PROVE  \E k \in Key :
           /\ Is(e, "recovery", k)
           /\ Decide(r, e, h, "sent")
           /\ \/ UNCHANGED cooldown
              \/ ~Held(r, h, k) /\ SeenBy(r, h, k) # "none" /\ Write(r, h, k, "none")
<1>1. Stored(e) /\ event[e].is.class = "recovery" /\ event[e].is.key \in Key
  BY TurnType DEF SendRecovery
<1>2. Is(e, "recovery", event[e].is.key)
  BY <1>1, EventKinds
<1>3. QED  BY <1>1, <1>2 DEF SendRecovery

LEMMA TypeInvariant == Init => TypeOK
  BY RoutingAssumption, IdleType
     DEF Init, TypeOK, NoCooldown, CooldownRow, Running

LEMMA TypeStep ==
  ASSUME TypeOK, BatchesFit, [Next]_vars
  PROVE  TypeOK'
<1> USE RoutingAssumption
<1>1. ASSUME NEW k \in Emitted, Store(k) PROVE TypeOK'
  BY <1>1 DEF TypeOK, Store, StoredEvent
<1>2. ASSUME NEW h \in Hook, SaveHook(h) PROVE TypeOK'
  BY <1>2 DEF TypeOK, SaveHook, Edit
<1>3. ASSUME NEW h \in Hook, RemoveHook(h) PROVE TypeOK'
  <2>1. NoCooldown \in CooldownRow
    BY DEF NoCooldown, CooldownRow, Running
  <2>2. delivery' \in [Slot -> [Hook -> {"none", "sent", "skipped"}]]
    BY <1>3 DEF TypeOK, RemoveHook
  <2>3. cooldown' \in [Hook -> [Key -> CooldownRow]]
    BY <1>3, <2>1 DEF TypeOK, RemoveHook
  <2>4. QED  BY <1>3, <2>2, <2>3 DEF TypeOK, RemoveHook, Edit
<1>4. ASSUME NEW h \in Hook, NEW k \in Key, Expire(h, k) \/ Sweep(h, k) PROVE TypeOK'
  <2>1. PICK c \in CooldownRow : cooldown' = [cooldown EXCEPT ![h][k] = c]
    BY <1>4, ExpireType
  <2>2. cooldown' \in [Hook -> [Key -> CooldownRow]]
    BY <2>1 DEF TypeOK
  <2>3. burst' = [burst EXCEPT ![h][k] = 0] \/ burst' = burst
    BY <1>4 DEF Expire, Sweep
  <2>4. burst' \in [Hook -> [Key -> 0 .. 2]]
    BY <2>3 DEF TypeOK
  <2>5. QED  BY <1>4, <2>2, <2>4 DEF TypeOK, Expire, Sweep
<1>5. ASSUME NEW r \in Replica, Begin(r) PROVE TypeOK'
  BY <1>5, BeginType DEF TypeOK, Begin
<1>6. ASSUME NEW r \in Replica, Commit(r) PROVE TypeOK'
  <2>1. event' \in [Slot -> StoredEvent \cup {NoEvent}]
    BY <1>6, CommitType
  <2>2. delivery' \in [Slot -> [Hook -> {"none", "sent", "skipped"}]]
    BY <1>6 DEF TypeOK, Commit, Inserts
  <2>3. burst' \in [Hook -> [Key -> 0 .. 2]]
    <3>1. \A h \in Hook, k \in Key :
            Cardinality(SentLast(r, h, k)) + (IF Ended(r, h, k) THEN 0 ELSE burst[h][k]) \in Nat
      BY SentLastCounts DEF TypeOK
    <3>2. QED  BY <1>6, <3>1, MinWithTwo DEF Commit
  <2>4. QED  BY <1>6, <2>1, <2>2, <2>3, RowsAfter, IdleType DEF TypeOK, Commit
<1>7. ASSUME NEW r \in Replica, Rollback(r), faults' \in 0 .. MaxFaults, UNCHANGED edits
      PROVE  TypeOK'
  BY <1>7, RowsAfter, IdleType DEF TypeOK, Rollback
<1>8. ASSUME NEW r \in Replica, Fail(r) \/ BreakDeadlock(r) PROVE TypeOK'
  BY <1>7, <1>8 DEF TypeOK, Fail, BreakDeadlock
<1>9. ASSUME NEW r \in Replica, NEW e \in Slot, NEW h \in Hook, Route(r, e, h) PROVE TypeOK'
  <2>1. CASE SendActivity(r, e, h)
    BY <2>1, DecideType DEF SendActivity, TypeOK, Verdict
  <2>2. CASE SendAlert(r, e, h)
    <3>1. PICK k \in Key : /\ \E v \in Verdict : Decide(r, e, h, v)
                           /\ Write(r, h, k, "running")
      BY <2>2, AlertEffect DEF Verdict
    <3>2. tx' \in [Replica -> Tx]
      BY <3>1, DecideType
    <3>3. cooldown' \in [Hook -> [Key -> CooldownRow]]
      BY <3>1, WriteType DEF Running
    <3>4. QED  BY <2>2, <3>2, <3>3 DEF SendAlert, TypeOK
  <2>3. CASE SendRecovery(r, e, h)
    <3>1. tx' \in [Replica -> Tx]
      BY <2>3, RecoveryEffect, DecideType DEF Verdict
    <3>2. cooldown' \in [Hook -> [Key -> CooldownRow]]
      BY <2>3, RecoveryEffect, WriteType DEF Running, TypeOK
    <3>3. QED  BY <2>3, <3>1, <3>2 DEF SendRecovery, TypeOK
  <2>4. CASE RefuseRow(r, e, h)
    BY <1>7, <2>4 DEF TypeOK, RefuseRow
  <2>5. QED  BY <1>9, <2>1, <2>2, <2>3, <2>4 DEF Route
<1>10. CASE UNCHANGED vars
  BY <1>10 DEF TypeOK, vars
<1>11. QED
  BY <1>1, <1>2, <1>3, <1>4, <1>5, <1>6, <1>8, <1>9, <1>10 DEF Next

-----------------------------------------------------------------------------
(* Steps of the sources, the pages, time and retention. *)

\* What r has sent about k to h is the same while its batch, the events in it and its
\* verdicts on h are.
LEMMA SameSends ==
  ASSUME NEW r \in Replica, NEW h \in Hook, NEW k \in Key,
         tx'[r].batch = tx[r].batch,
         \A e \in tx[r].batch : /\ Stored(e)' <=> Stored(e)
                                /\ event'[e].is = event[e].is
                                /\ tx'[r].out[e][h] = tx[r].out[e][h]
  PROVE  /\ SentLast(r, h, k)' = SentLast(r, h, k)
         /\ Ended(r, h, k)' <=> Ended(r, h, k)
         /\ AlertSent(r, h, k)' <=> AlertSent(r, h, k)
<1>1. \A e \in tx[r].batch, c \in {"alert", "recovery"} : Is(e, c, k)' <=> Is(e, c, k)
  BY DEF Is
<1>2. QED  BY <1>1 DEF SentLast, Ended, AlertSent

LEMMA QueuedStays ==
  ASSUME NEW h \in Hook, NEW k \in Key,
         \A e \in Slot : /\ Stored(e) => Stored(e)' /\ event'[e].is = event[e].is
                         /\ delivery[e][h] = "sent" => delivery'[e][h] = "sent"
  PROVE  AlertQueued(h, k) => AlertQueued(h, k)'
<1>1. \A a \in Slot : Is(a, "alert", k) => Is(a, "alert", k)'
  BY DEF Is
<1>2. QED  BY <1>1 DEF AlertQueued

\* A new event is in no batch and has no delivery.
LEMMA StoreKeeps ==
  ASSUME RoutingInv, NEW n \in Emitted, Store(n)
  PROVE  BatchInv' /\ RowInv' /\ SkipInv'
<1>1. PICK new \in Slot : ~Stored(new) /\ event' = [event EXCEPT ![new] = [is |-> n, routed |-> FALSE]]
  BY DEF Store
<1>2. \A e \in Slot : e # new => event'[e] = event[e]
  BY <1>1 DEF RoutingInv, TypeOK
<1>3. \A e \in Slot : Stored(e) => Stored(e)' /\ event'[e] = event[e]
  BY <1>1, <1>2 DEF Stored
<1>4. UNCHANGED <<hook, delivery, cooldown, tx, burst>>
  BY DEF Store
<1>5. \A r \in Replica : \A e \in tx[r].batch : e \in Slot /\ Stored(e)
  BY DEF RoutingInv, BatchInv, BatchesFit, Unrouted, TypeOK, Tx
<1>6. \A r \in Replica, h \in Hook, k \in Key :
        /\ SentLast(r, h, k)' = SentLast(r, h, k)
        /\ Ended(r, h, k)' <=> Ended(r, h, k)
        /\ AlertSent(r, h, k)' <=> AlertSent(r, h, k)
  BY <1>3, <1>4, <1>5, SameSends
<1>7. \A h \in Hook, k \in Key : AlertQueued(h, k) => AlertQueued(h, k)'
  BY <1>3, <1>4, QueuedStays
<1>8. \A e \in Slot, k \in Key : Is(e, "alert", k) => Is(e, "alert", k)'
  BY <1>3 DEF Is
<1>9. BatchInv'
  <2>1. EventsFit'
    BY <1>3, <1>4 DEF RoutingInv, BatchInv, EventsFit
  <2>2. BatchesFit'
    BY <1>3, <1>4, <1>5 DEF RoutingInv, BatchInv, BatchesFit, Unrouted
  <2>3. TurnsTaken'
    BY <1>4 DEF RoutingInv, BatchInv, TurnsTaken, Decided
  <2>4. QED  BY <2>1, <2>2, <2>3 DEF BatchInv
<1>10. RowInv'
  BY <1>4, <1>6
     DEF RoutingInv, RowInv, RowsFit, RecoveryEnds, AlertHolds, BurstRuns, CooldownSpacing
<1>11. SkipInv'
  BY <1>4, <1>6, <1>7, <1>8
     DEF RoutingInv, SkipInv, RunningExplained, SkipsExplained, QueuedSkips
<1>12. QED  BY <1>9, <1>10, <1>11

\* Switching webhooks on and off, or nothing at all.
LEMMA QuietKeeps ==
  ASSUME RoutingInv, UNCHANGED <<event, delivery, cooldown, tx, burst>>,
         \A g \in Hook : hook'[g] = "removed" <=> hook[g] = "removed"
  PROVE  BatchInv' /\ RowInv' /\ SkipInv'
<1>1. UNCHANGED <<event, delivery, cooldown, tx, burst>>
  OBVIOUS
<1>2. \A g \in Hook : hook'[g] = "removed" <=> hook[g] = "removed"
  OBVIOUS
<1>3. BatchInv'
  BY <1>1, <1>2 DEF RoutingInv, BatchInv, EventsFit, BatchesFit, TurnsTaken, Decided, Unrouted, Stored
<1>4. \A r \in Replica, g \in Hook, k \in Key :
        /\ SentLast(r, g, k)' = SentLast(r, g, k)
        /\ Ended(r, g, k)' <=> Ended(r, g, k)
        /\ AlertSent(r, g, k)' <=> AlertSent(r, g, k)
  BY <1>1, SameSends DEF Stored
<1>5. \A g \in Hook, k \in Key : AlertQueued(g, k) => AlertQueued(g, k)'
  BY <1>1, QueuedStays DEF Stored
<1>6. \A e \in Slot, k \in Key : Is(e, "alert", k) => Is(e, "alert", k)'
  BY <1>1 DEF Is, Stored
<1>7. RowInv'
  BY <1>1, <1>4
     DEF RoutingInv, RowInv, RowsFit, RecoveryEnds, AlertHolds, BurstRuns, CooldownSpacing
<1>8. SkipInv'
  BY <1>1, <1>4, <1>5, <1>6
     DEF RoutingInv, SkipInv, RunningExplained, SkipsExplained, QueuedSkips
<1>9. QED  BY <1>3, <1>7, <1>8

LEMMA RemoveHookKeeps ==
  ASSUME RoutingInv, NEW h \in Hook, RemoveHook(h)
  PROVE  BatchInv' /\ RowInv' /\ SkipInv'
<1>1. UNCHANGED <<event, tx>>
  BY DEF RemoveHook
<1>2. /\ \A g \in Hook \ {h} : /\ hook'[g] = hook[g] /\ cooldown'[g] = cooldown[g]
                               /\ burst'[g] = burst[g]
                               /\ \A e \in Slot : delivery'[e][g] = delivery[e][g]
      /\ \A k \in Key : /\ cooldown[h][k].by = NoReplica
                        /\ cooldown'[h][k] = NoCooldown /\ burst'[h][k] = 0
      /\ \A e \in Slot : delivery'[e][h] = "none"
      /\ \A r \in Replica, e \in Slot : ~Decided(r, e, h)
  BY DEF RemoveHook, RoutingInv, TypeOK, Decided
<1>3. \A r \in Replica, g \in Hook, k \in Key :
        /\ SentLast(r, g, k)' = SentLast(r, g, k)
        /\ Ended(r, g, k)' <=> Ended(r, g, k)
        /\ AlertSent(r, g, k)' <=> AlertSent(r, g, k)
  BY <1>1, SameSends DEF Stored
<1>4. \A g \in Hook \ {h}, k \in Key : AlertQueued(g, k) => AlertQueued(g, k)'
  BY <1>1, <1>2, QueuedStays DEF Stored
<1>5. NoCooldown.value = "none" /\ NoCooldown.by = NoReplica /\ NoCooldown.next = "none"
  BY DEF NoCooldown
<1>6. BatchInv'
  BY <1>1, <1>2 DEF RoutingInv, BatchInv, EventsFit, BatchesFit, TurnsTaken, Decided, Unrouted, Stored
<1>7. \A r \in Replica, k \in Key : SentLast(r, h, k) = {}
  <2>1. \A r \in Replica : tx[r].batch \subseteq Slot
    BY DEF RoutingInv, TypeOK, Tx
  <2>2. QED  BY <1>2, <2>1 DEF SentLast, Decided
<1>8. RowInv'
  <2>1. RowsFit'
    BY <1>1, <1>2, <1>5 DEF RoutingInv, RowInv, RowsFit
  <2>2. RecoveryEnds'
    BY <1>2, <1>3, <1>5, RoutingAssumption DEF RoutingInv, RowInv, RecoveryEnds
  <2>3. AlertHolds'
    BY <1>2, <1>3, <1>7 DEF RoutingInv, RowInv, AlertHolds
  <2>4. BurstRuns' /\ CooldownSpacing'
    BY <1>2 DEF RoutingInv, RowInv, BurstRuns, CooldownSpacing
  <2>5. QED  BY <2>1, <2>2, <2>3, <2>4 DEF RowInv
<1>9. SkipInv'
  <2>1. RunningExplained'
    BY <1>2, <1>3, <1>4, <1>5, RoutingAssumption DEF RoutingInv, SkipInv, RunningExplained
  <2>2. SkipsExplained'
    BY <1>1, <1>2, <1>3, <1>4 DEF RoutingInv, SkipInv, SkipsExplained, Decided, Is, Stored
  <2>3. QueuedSkips'
    BY <1>1, <1>2, <1>4 DEF RoutingInv, SkipInv, QueuedSkips, Is, Stored
  <2>4. QED  BY <2>1, <2>2, <2>3 DEF SkipInv
<1>10. QED  BY <1>6, <1>8, <1>9

LEMMA TimeKeeps ==
  ASSUME RoutingInv, NEW h \in Hook, NEW k \in Key, Expire(h, k) \/ Sweep(h, k)
  PROVE  BatchInv' /\ RowInv' /\ SkipInv'
<1>1. UNCHANGED <<event, hook, delivery, tx>>
  BY DEF Expire, Sweep
<1>2. cooldown[h][k].by = NoReplica
  BY DEF Expire, Sweep
<1>3. PICK c \in CooldownRow : /\ cooldown' = [cooldown EXCEPT ![h][k] = c]
                               /\ c.value # "running" /\ c.by = NoReplica
                               /\ c.next = cooldown[h][k].next \/ c.next = "none"
  BY ExpireType DEF RoutingInv
<1>4. /\ cooldown'[h][k] = c
      /\ \A g \in Hook, j \in Key : <<g, j>> # <<h, k>> => cooldown'[g][j] = cooldown[g][j]
  BY <1>3, PutType DEF RoutingInv
<1>5. /\ burst'[h][k] = 0
      /\ \A g \in Hook, j \in Key : <<g, j>> # <<h, k>> => burst'[g][j] = burst[g][j]
  <2>1. CASE Expire(h, k)
    BY <2>1 DEF Expire, RoutingInv, TypeOK
  <2>2. CASE Sweep(h, k)
    BY <2>2 DEF Sweep, RoutingInv, RowInv, BurstRuns
  <2>3. QED  BY <2>1, <2>2
<1>6. \A r \in Replica, g \in Hook, j \in Key :
        /\ SentLast(r, g, j)' = SentLast(r, g, j)
        /\ Ended(r, g, j)' <=> Ended(r, g, j)
        /\ AlertSent(r, g, j)' <=> AlertSent(r, g, j)
  BY <1>1, SameSends DEF Stored
<1>7. \A g \in Hook, j \in Key : AlertQueued(g, j) => AlertQueued(g, j)'
  BY <1>1, QueuedStays DEF Stored
<1>8. BatchInv'
  BY <1>1 DEF RoutingInv, BatchInv, EventsFit, BatchesFit, TurnsTaken, Decided, Unrouted, Stored
<1>9. RowInv'
  <2>1. RowsFit'
    <3>1. c.next = "none"
      BY <1>2, <1>3 DEF RoutingInv, RowInv, RowsFit
    <3>2. \A g \in Hook, j \in Key :
            \/ cooldown'[g][j] = cooldown[g][j]
            \/ cooldown'[g][j].by = NoReplica /\ cooldown'[g][j].next = "none"
      BY <1>3, <1>4, <3>1
    <3>3. QED  BY <1>1, <3>2 DEF RoutingInv, RowInv, RowsFit
  <2>2. RecoveryEnds'
    <3>1. \A g \in Hook, j \in Key :
            cooldown'[g][j] = cooldown[g][j] \/ cooldown'[g][j].by = NoReplica
      BY <1>3, <1>4
    <3>2. QED  BY <1>6, <3>1, RoutingAssumption DEF RoutingInv, RowInv, RecoveryEnds
  <2>3. \A r \in Replica : SentLast(r, h, k) = {}
    BY <1>2, RoutingAssumption DEF RoutingInv, RowInv, AlertHolds
  <2>4. AlertHolds'
    BY <1>4, <1>6, <2>3 DEF RoutingInv, RowInv, AlertHolds
  <2>5. BurstRuns' /\ CooldownSpacing'
    BY <1>4, <1>5 DEF RoutingInv, RowInv, BurstRuns, CooldownSpacing
  <2>6. QED  BY <2>1, <2>2, <2>4, <2>5 DEF RowInv
<1>10. SkipInv'
  <2>1. RunningExplained'
    <3>1. \A g \in Hook, j \in Key :
            \/ cooldown'[g][j] = cooldown[g][j]
            \/ cooldown'[g][j].by = NoReplica /\ cooldown'[g][j].value # "running"
      BY <1>3, <1>4
    <3>2. \A g \in Hook, j \in Key :
            /\ cooldown'[g][j].value = "running" => cooldown[g][j].value = "running"
            /\ \A r \in Replica : cooldown'[g][j].by = r => cooldown'[g][j] = cooldown[g][j]
      BY <3>1, RoutingAssumption
    <3>3. QED  BY <1>6, <1>7, <3>2 DEF RoutingInv, SkipInv, RunningExplained
  <2>2. \A e \in Slot, j \in Key : Is(e, "alert", j)' <=> Is(e, "alert", j)
    BY <1>1 DEF Is, Stored
  <2>3. SkipsExplained'
    BY <1>1, <1>6, <1>7, <2>2 DEF RoutingInv, SkipInv, SkipsExplained
  <2>4. QueuedSkips'
    BY <1>1, <1>6, <1>7, <2>2 DEF RoutingInv, SkipInv, QueuedSkips
  <2>5. QED  BY <2>1, <2>3, <2>4 DEF SkipInv
<1>11. QED  BY <1>8, <1>9, <1>10

-----------------------------------------------------------------------------
(* The routing transaction. *)

\* A batch takes events that no other batch has, and has decided nothing.
LEMMA BeginKeeps ==
  ASSUME RoutingInv, NEW r \in Replica, Begin(r)
  PROVE  BatchInv' /\ RowInv' /\ SkipInv'
<1>1. UNCHANGED <<event, hook, delivery, cooldown, burst>>
  BY DEF Begin
<1>2. /\ tx' \in [Replica -> Tx]
      /\ \A s \in Replica \ {r} : tx'[s] = tx[s]
      /\ \A e \in tx'[r].batch : Unrouted(e) /\ e \notin Locked
      /\ \A e \in Slot, h \in Hook : tx'[r].out[e][h] \in {"passed", "undecided"}
  BY BeginType DEF RoutingInv
<1>3. ~tx[r].open
  BY DEF Begin
<1>4. \A h \in Hook, k \in Key : cooldown[h][k].by # r
  BY <1>3, RoutingAssumption DEF RoutingInv, RowInv, RowsFit
<1>5. \A e \in Slot, h \in Hook : ~Decided(r, e, h) /\ ~Decided(r, e, h)'
  BY <1>2, <1>3 DEF RoutingInv, BatchInv, TurnsTaken, Decided
<1>6. tx'[r].batch \subseteq Slot
  BY <1>2 DEF Tx
<1>7. \A s \in Replica \ {r}, h \in Hook, k \in Key :
        /\ SentLast(s, h, k)' = SentLast(s, h, k)
        /\ Ended(s, h, k)' <=> Ended(s, h, k)
        /\ AlertSent(s, h, k)' <=> AlertSent(s, h, k)
  BY <1>1, <1>2, SameSends DEF Stored
<1>8. \A h \in Hook, k \in Key : AlertQueued(h, k) => AlertQueued(h, k)'
  BY <1>1, QueuedStays DEF Stored
<1>9. \A e \in Slot, k \in Key : Is(e, "alert", k)' <=> Is(e, "alert", k)
  BY <1>1 DEF Is, Stored
<1>10. BatchInv'
  <2>1. EventsFit'
    BY <1>1 DEF RoutingInv, BatchInv, EventsFit, Stored
  <2>2. BatchesFit'
    BY <1>1, <1>2 DEF RoutingInv, BatchInv, BatchesFit, Unrouted, Stored, Locked
  <2>3. TurnsTaken'
    BY <1>1, <1>2, <1>5 DEF RoutingInv, BatchInv, TurnsTaken, Decided
  <2>4. QED  BY <2>1, <2>2, <2>3 DEF BatchInv
<1>11. RowInv'
  <2>1. RowsFit'
    BY <1>1, <1>2, <1>4 DEF RoutingInv, RowInv, RowsFit, TypeOK, CooldownRow
  <2>2. RecoveryEnds'
    BY <1>1, <1>4, <1>7 DEF RoutingInv, RowInv, RecoveryEnds
  <2>3. \A h \in Hook, k \in Key : SentLast(r, h, k)' = {}
    BY <1>5, <1>6 DEF SentLast, Decided
  <2>4. AlertHolds'
    BY <1>1, <1>7, <2>3 DEF RoutingInv, RowInv, AlertHolds
  <2>5. BurstRuns' /\ CooldownSpacing'
    BY <1>1 DEF RoutingInv, RowInv, BurstRuns, CooldownSpacing
  <2>6. QED  BY <2>1, <2>2, <2>4, <2>5 DEF RowInv
<1>12. SkipInv'
  <2>1. RunningExplained'
    BY <1>1, <1>4, <1>7, <1>8 DEF RoutingInv, SkipInv, RunningExplained
  <2>2. SkipsExplained'
    BY <1>2, <1>5, <1>7, <1>8, <1>9 DEF RoutingInv, SkipInv, SkipsExplained, Decided
  <2>3. QueuedSkips'
    BY <1>1, <1>8, <1>9 DEF RoutingInv, SkipInv, QueuedSkips
  <2>4. QED  BY <2>1, <2>2, <2>3 DEF SkipInv
<1>13. QED  BY <1>10, <1>11, <1>12

\* A rollback only gives rows back: the committed values stand.
LEMMA RollbackKeeps ==
  ASSUME RoutingInv, NEW r \in Replica, Rollback(r)
  PROVE  BatchInv' /\ RowInv' /\ SkipInv'
<1>1. UNCHANGED <<event, hook, delivery, burst>>
  BY DEF Rollback
<1>2. /\ tx'[r] = Idle
      /\ \A s \in Replica \ {r} : tx'[s] = tx[s]
  BY DEF Rollback, RoutingInv, TypeOK
<1>3. cooldown' = Undone(r)
  BY DEF Rollback
<1>4. \A h \in Hook, k \in Key :
        /\ cooldown'[h][k].value = cooldown[h][k].value
        /\ cooldown'[h][k].by # r
        /\ \/ cooldown'[h][k] = cooldown[h][k]
           \/ cooldown[h][k].by = r /\ cooldown'[h][k].by = NoReplica /\ cooldown'[h][k].next = "none"
  BY <1>3, RowsAfter, RoutingAssumption DEF RoutingInv
<1>5. tx'[r].batch = {} /\ \A e \in Slot, h \in Hook : ~Decided(r, e, h)'
  BY <1>2, IdleType DEF Idle, Decided
<1>6. \A s \in Replica \ {r}, h \in Hook, k \in Key :
        /\ SentLast(s, h, k)' = SentLast(s, h, k)
        /\ Ended(s, h, k)' <=> Ended(s, h, k)
        /\ AlertSent(s, h, k)' <=> AlertSent(s, h, k)
  BY <1>1, <1>2, SameSends DEF Stored
<1>7. \A h \in Hook, k \in Key : AlertQueued(h, k) => AlertQueued(h, k)'
  BY <1>1, QueuedStays DEF Stored
<1>8. \A e \in Slot, k \in Key : Is(e, "alert", k)' <=> Is(e, "alert", k)
  BY <1>1 DEF Is, Stored
<1>9. BatchInv'
  <2>1. EventsFit'
    BY <1>1 DEF RoutingInv, BatchInv, EventsFit, Stored
  <2>2. BatchesFit'
    BY <1>1, <1>2, <1>5 DEF RoutingInv, BatchInv, BatchesFit, Unrouted, Stored
  <2>3. TurnsTaken'
    BY <1>1, <1>2, <1>5 DEF RoutingInv, BatchInv, TurnsTaken, Decided
  <2>4. QED  BY <2>1, <2>2, <2>3 DEF BatchInv
<1>10. RowInv'
  <2>1. RowsFit'
    BY <1>2, <1>4 DEF RoutingInv, RowInv, RowsFit, TypeOK, CooldownRow
  <2>2. RecoveryEnds'
    BY <1>4, <1>6, RoutingAssumption DEF RoutingInv, RowInv, RecoveryEnds
  <2>3. \A h \in Hook, k \in Key : SentLast(r, h, k)' = {}
    BY <1>5 DEF SentLast
  <2>4. AlertHolds'
    BY <1>4, <1>6, <2>3 DEF RoutingInv, RowInv, AlertHolds
  <2>5. BurstRuns' /\ CooldownSpacing'
    BY <1>1, <1>4 DEF RoutingInv, RowInv, BurstRuns, CooldownSpacing
  <2>6. QED  BY <2>1, <2>2, <2>4, <2>5 DEF RowInv
<1>11. SkipInv'
  <2>1. RunningExplained'
    BY <1>4, <1>6, <1>7, RoutingAssumption DEF RoutingInv, SkipInv, RunningExplained
  <2>2. SkipsExplained'
    BY <1>2, <1>5, <1>6, <1>7, <1>8 DEF RoutingInv, SkipInv, SkipsExplained, Decided
  <2>3. QueuedSkips'
    BY <1>1, <1>7, <1>8 DEF RoutingInv, SkipInv, QueuedSkips
  <2>4. QED  BY <2>1, <2>2, <2>3 DEF SkipInv
<1>12. QED  BY <1>9, <1>10, <1>11

\* What a commit leaves: the events of the batch are routed, what was sent or skipped
\* has a row, and the cooldown rows are as the transaction made them.
LEMMA CommitKeeps ==
  ASSUME RoutingInv, NEW r \in Replica, Commit(r)
  PROVE  BatchInv' /\ RowInv' /\ SkipInv'
<1>1. UNCHANGED hook
  BY DEF Commit
<1>2. /\ tx'[r] = Idle
      /\ \A s \in Replica \ {r} : tx'[s] = tx[s]
  BY DEF Commit, RoutingInv, TypeOK
<1>3. tx[r].batch \subseteq Slot
  BY DEF RoutingInv, TypeOK, Tx
<1>4. \A e \in Slot :
        /\ e \notin tx[r].batch => event'[e] = event[e]
        /\ e \in tx[r].batch => Stored(e)' /\ event'[e].routed
        /\ event'[e].is = event[e].is /\ (Stored(e)' <=> Stored(e))
  BY CommitType DEF RoutingInv, BatchInv
<1>5. \A e \in Slot, h \in Hook :
        delivery'[e][h] = IF Decided(r, e, h) /\ delivery[e][h] = "none"
                          THEN tx[r].out[e][h] ELSE delivery[e][h]
  BY DEF Commit, Inserts, Decided
<1>6. \A e \in Slot, h \in Hook : Decided(r, e, h) =>
        /\ e \in tx[r].batch /\ delivery[e][h] = "none"
        /\ delivery'[e][h] = tx[r].out[e][h]
  <2>1. \A e \in Slot, h \in Hook : Decided(r, e, h) => e \in tx[r].batch
    BY DEF RoutingInv, BatchInv, TurnsTaken
  <2>2. \A e \in tx[r].batch, h \in Hook : delivery[e][h] = "none"
    BY <1>3 DEF RoutingInv, BatchInv, BatchesFit, EventsFit, Unrouted
  <2>3. QED  BY <1>5, <2>1, <2>2
<1>7. \A e \in Slot, h \in Hook : ~Decided(r, e, h) => delivery'[e][h] = delivery[e][h]
  BY <1>5
<1>8. cooldown' = Committed(r)
  BY DEF Commit
<1>9. \A h \in Hook, k \in Key :
        /\ cooldown'[h][k].by # r
        /\ \/ cooldown'[h][k] = cooldown[h][k] /\ cooldown[h][k].by # r
           \/ /\ cooldown[h][k].by = r /\ cooldown'[h][k].value = cooldown[h][k].next
              /\ cooldown'[h][k].by = NoReplica /\ cooldown'[h][k].next = "none"
  BY <1>8, RowsAfter, RoutingAssumption DEF RoutingInv
<1>10. tx'[r].batch = {} /\ \A e \in Slot, h \in Hook : ~Decided(r, e, h)'
  BY <1>2, IdleType DEF Idle, Decided
<1>11. \A s \in Replica \ {r} : tx[s].batch \subseteq Slot /\ tx[s].batch \cap tx[r].batch = {}
  BY DEF RoutingInv, BatchInv, BatchesFit, TypeOK, Tx
<1>12. \A s \in Replica \ {r}, h \in Hook, k \in Key :
        /\ SentLast(s, h, k)' = SentLast(s, h, k)
        /\ Ended(s, h, k)' <=> Ended(s, h, k)
        /\ AlertSent(s, h, k)' <=> AlertSent(s, h, k)
  BY <1>2, <1>4, <1>11, SameSends
<1>13. \A h \in Hook, k \in Key : AlertQueued(h, k) => AlertQueued(h, k)'
  BY <1>4, <1>6, <1>7, QueuedStays
<1>14. \A e \in Slot, k \in Key : Is(e, "alert", k)' <=> Is(e, "alert", k)
  BY <1>4 DEF Is
<1>15. \A h \in Hook, k \in Key : AlertSent(r, h, k) => AlertQueued(h, k)'
  BY <1>3, <1>6, <1>14 DEF AlertSent, AlertQueued, Decided
<1>16. BatchInv'
  <2>1. EventsFit'
    BY <1>4, <1>6, <1>7 DEF RoutingInv, BatchInv, EventsFit
  <2>2. BatchesFit'
    BY <1>2, <1>4, <1>10, <1>11 DEF RoutingInv, BatchInv, BatchesFit, Unrouted
  <2>3. TurnsTaken'
    BY <1>1, <1>2, <1>10 DEF RoutingInv, BatchInv, TurnsTaken, Decided
  <2>4. QED  BY <2>1, <2>2, <2>3 DEF BatchInv
<1>17. RowInv'
  <2>1. RowsFit'
    BY <1>2, <1>9 DEF RoutingInv, RowInv, RowsFit, TypeOK, CooldownRow
  <2>2. RecoveryEnds'
    BY <1>9, <1>12, RoutingAssumption DEF RoutingInv, RowInv, RecoveryEnds
  <2>3. \A h \in Hook, k \in Key : SentLast(r, h, k)' = {}
    BY <1>10 DEF SentLast
  <2>4. AlertHolds'
    BY <1>9, <1>12, <2>3 DEF RoutingInv, RowInv, AlertHolds
  <2>5. \A h \in Hook, k \in Key : burst'[h][k] <= 1 /\ (burst'[h][k] # 0 => cooldown'[h][k].value = "running")
    <3> SUFFICES ASSUME NEW h \in Hook, NEW k \in Key
                 PROVE  burst'[h][k] <= 1 /\ (burst'[h][k] # 0 => cooldown'[h][k].value = "running")
      OBVIOUS
    <3> DEFINE n == Cardinality(SentLast(r, h, k)) + IF Ended(r, h, k) THEN 0 ELSE burst[h][k]
    <3>1. burst'[h][k] = Min({2, n})
      BY DEF Commit
    <3>2. burst[h][k] \in Nat /\ burst[h][k] <= 1 /\ (burst[h][k] # 0 => cooldown[h][k].value = "running")
      BY DEF RoutingInv, RowInv, BurstRuns, CooldownSpacing, TypeOK
    <3>3. CASE SentLast(r, h, k) = {}
      <4>1. Cardinality(SentLast(r, h, k)) = 0
        BY <3>3, SentLastCounts DEF RoutingInv
      <4>2. n \in Nat /\ n <= 1 /\ (n # 0 => ~Ended(r, h, k) /\ burst[h][k] # 0)
        BY <3>2, <4>1
      <4>3. cooldown[h][k].by = r /\ ~Ended(r, h, k) => cooldown[h][k].next = "running"
        BY DEF RoutingInv, RowInv, RecoveryEnds, RowsFit, TypeOK, CooldownRow, Running
      <4> HIDE DEF n
      <4>4. QED  BY <1>9, <3>1, <3>2, <4>2, <4>3, MinWithTwo
    <3>4. CASE SentLast(r, h, k) # {}
      <4>1. PICK a \in SentLast(r, h, k) :
              /\ cooldown[h][k].by = r /\ cooldown[h][k].next = "running"
              /\ SentLast(r, h, k) = {a}
              /\ ~Ended(r, h, k) => cooldown[h][k].value # "running"
        BY <3>4 DEF RoutingInv, RowInv, AlertHolds
      <4>2. Cardinality(SentLast(r, h, k)) = 1
        BY <4>1, SentLastCounts DEF RoutingInv
      <4>3. n = 1
        BY <3>2, <4>1, <4>2
      <4>4. cooldown'[h][k].value = "running"
        BY <1>9, <4>1
      <4> HIDE DEF n
      <4>5. QED  BY <3>1, <4>3, <4>4, MinWithTwo
    <3>5. QED  BY <3>3, <3>4
  <2>6. QED  BY <2>1, <2>2, <2>4, <2>5 DEF RowInv, BurstRuns, CooldownSpacing
<1>18. SkipInv'
  <2>1. RunningExplained'
    <3>1. \A h \in Hook, k \in Key : cooldown'[h][k].value = "running" => AlertQueued(h, k)'
      BY <1>9, <1>13, <1>15 DEF RoutingInv, SkipInv, RunningExplained
    <3>2. \A h \in Hook, k \in Key, s \in Replica :
            cooldown'[h][k].by = s /\ cooldown'[h][k].next = "running" =>
              AlertSent(s, h, k)' \/ AlertQueued(h, k)'
      BY <1>9, <1>12, <1>13, RoutingAssumption DEF RoutingInv, SkipInv, RunningExplained
    <3>3. QED  BY <3>1, <3>2 DEF RunningExplained
  <2>2. SkipsExplained'
    BY <1>2, <1>10, <1>12, <1>13, <1>14 DEF RoutingInv, SkipInv, SkipsExplained, Decided
  <2>3. QueuedSkips'
    <3>1. ASSUME NEW e \in Slot, NEW h \in Hook, Decided(r, e, h), delivery'[e][h] = "skipped"
          PROVE  \E k \in Key : Is(e, "alert", k)' /\ AlertQueued(h, k)'
      BY <1>6, <1>13, <1>14, <1>15, <3>1 DEF RoutingInv, SkipInv, SkipsExplained
    <3>2. ASSUME NEW e \in Slot, NEW h \in Hook, ~Decided(r, e, h), delivery'[e][h] = "skipped"
          PROVE  \E k \in Key : Is(e, "alert", k)' /\ AlertQueued(h, k)'
      BY <1>7, <1>13, <1>14, <3>2 DEF RoutingInv, SkipInv, QueuedSkips
    <3>3. QED  BY <3>1, <3>2 DEF QueuedSkips
  <2>4. QED  BY <2>1, <2>2, <2>3 DEF SkipInv
<1>19. QED  BY <1>16, <1>17, <1>18

-----------------------------------------------------------------------------
(* The turns of a batch. *)

\* A turn decides one pair, in order: what was decided stays, everything earlier is
\* decided, and nothing later is.
LEMMA TurnEffect ==
  ASSUME RoutingInv, NEW r \in Replica, NEW e \in Slot, NEW h \in Hook, Turn(r, e, h),
         NEW v \in {"sent", "skipped"}, Decide(r, e, h, v), UNCHANGED <<event, hook, delivery>>,
         hook[h] # "removed"
  PROVE  /\ BatchInv'
         /\ \A f \in tx[r].batch : Decided(r, f, h) => f < e
         /\ \A s \in Replica, g \in Hook, k \in Key : s # r \/ g # h =>
              /\ SentLast(s, g, k)' = SentLast(s, g, k)
              /\ Ended(s, g, k)' <=> Ended(s, g, k)
              /\ AlertSent(s, g, k)' <=> AlertSent(s, g, k)
         /\ \A k \in Key : /\ AlertSent(r, h, k) => AlertSent(r, h, k)'
                           /\ Ended(r, h, k) => Ended(r, h, k)'
         /\ \A g \in Hook, k \in Key : AlertQueued(g, k) => AlertQueued(g, k)'
         /\ \A f \in Slot, k \in Key, c \in {"alert", "recovery"} : Is(f, c, k)' <=> Is(f, c, k)
<1>1. tx[r].open /\ e \in tx[r].batch /\ h \in tx[r].hooks /\ tx[r].out[e][h] = "undecided"
  BY TurnType DEF RoutingInv, BatchInv
<1>2. \A f \in tx[r].batch : tx[r].out[f][h] = "undecided" => e <= f
  <2>1. \A f \in tx[r].batch : tx[r].out[f][h] = "undecided" => <<f, h>> \in Undecided(r)
    BY <1>1 DEF Undecided
  <2>2. e \in Nat /\ \A f \in tx[r].batch : f \in Nat
    BY <1>1, RoutingAssumption DEF RoutingInv, TypeOK, Tx, Slot
  <2>3. \A p \in Undecided(r) : e < p[1] \/ e = p[1]
    BY DEF Turn
  <2>4. \A f \in tx[r].batch : tx[r].out[f][h] = "undecided" =>
          e < <<f, h>>[1] \/ e = <<f, h>>[1]
    BY <2>1, <2>3
  <2>5. QED  BY <2>2, <2>4
<1>3. \A f \in tx[r].batch : Decided(r, f, h) => f < e
  <2>1. e \in Nat /\ \A f \in tx[r].batch : f \in Nat /\ f \in Slot
    BY <1>1, RoutingAssumption DEF RoutingInv, TypeOK, Tx, Slot
  <2>2. \A f \in tx[r].batch : Decided(r, f, h) => f # e /\ ~(e < f)
    BY <1>1, <2>1 DEF RoutingInv, BatchInv, TurnsTaken, Decided
  <2>3. QED  BY <2>1, <2>2
<1>4. /\ tx' \in [Replica -> Tx]
      /\ \A s \in Replica \ {r} : tx'[s] = tx[s]
      /\ tx'[r].open = tx[r].open /\ tx'[r].batch = tx[r].batch /\ tx'[r].hooks = tx[r].hooks
      /\ tx'[r].out[e][h] = v
      /\ \A f \in Slot, g \in Hook : <<f, g>> # <<e, h>> => tx'[r].out[f][g] = tx[r].out[f][g]
  BY DecideType DEF RoutingInv, Verdict
<1>5. \A s \in Replica : tx'[s].open = tx[s].open /\ tx'[s].batch = tx[s].batch
                        /\ tx'[s].hooks = tx[s].hooks /\ tx[s].batch \subseteq Slot
  BY <1>4 DEF RoutingInv, TypeOK, Tx
<1>6. \A f \in Slot, k \in Key, c \in {"alert", "recovery"} : Is(f, c, k)' <=> Is(f, c, k)
  BY DEF Is, Stored
<1>7. \A s \in Replica, g \in Hook, k \in Key : s # r \/ g # h =>
        /\ SentLast(s, g, k)' = SentLast(s, g, k)
        /\ Ended(s, g, k)' <=> Ended(s, g, k)
        /\ AlertSent(s, g, k)' <=> AlertSent(s, g, k)
  <2>1. \A s \in Replica, g \in Hook : s # r \/ g # h =>
          \A f \in tx[s].batch : tx'[s].out[f][g] = tx[s].out[f][g]
    BY <1>4, <1>5
  <2>2. QED  BY <1>5, <2>1, SameSends DEF Stored
<1>8. \A k \in Key : /\ AlertSent(r, h, k) => AlertSent(r, h, k)'
                     /\ Ended(r, h, k) => Ended(r, h, k)'
  <2>1. \A f \in tx[r].batch : tx[r].out[f][h] = "sent" => tx'[r].out[f][h] = "sent"
    BY <1>1, <1>4, <1>5
  <2>2. QED  BY <1>5, <1>6, <2>1 DEF AlertSent, Ended
<1>9. \A g \in Hook, k \in Key : AlertQueued(g, k) => AlertQueued(g, k)'
  BY QueuedStays DEF Stored
<1>10. BatchInv'
  <2>1. EventsFit'
    BY DEF RoutingInv, BatchInv, EventsFit, Stored
  <2>2. BatchesFit'
    BY <1>5 DEF RoutingInv, BatchInv, BatchesFit, Unrouted, Stored
  <2>3. ASSUME NEW s \in Replica, NEW f \in Slot, NEW g \in Hook, Decided(s, f, g)'
        PROVE  /\ tx'[s].open /\ f \in tx'[s].batch /\ g \in tx'[s].hooks /\ hook'[g] # "removed"
               /\ \A q \in tx'[s].batch : q < f => tx'[s].out[q][g] # "undecided"
    <3>1. CASE s = r /\ f = e /\ g = h
      <4>1. tx[r].batch \subseteq Slot /\ Slot \subseteq Nat
        BY RoutingAssumption DEF RoutingInv, TypeOK, Tx, Slot
      <4>2. \A q \in tx[r].batch : q < e => tx[r].out[q][h] # "undecided" /\ q # e
        BY <1>2, <4>1
      <4>3. \A q \in tx[r].batch : q < e => tx'[r].out[q][h] # "undecided"
        BY <1>4, <4>1, <4>2
      <4>4. QED  BY <1>1, <1>4, <3>1, <4>3
    <3>2. CASE ~(s = r /\ f = e /\ g = h)
      <4>1. Decided(s, f, g)
        BY <1>4, <2>3, <3>2 DEF Decided
      <4>2. /\ tx[s].open /\ f \in tx[s].batch /\ g \in tx[s].hooks /\ hook[g] # "removed"
            /\ \A q \in tx[s].batch : q < f => tx[s].out[q][g] # "undecided"
        BY <4>1 DEF RoutingInv, BatchInv, TurnsTaken
      <4>3. \A q \in tx[s].batch : tx[s].out[q][g] # "undecided" => tx'[s].out[q][g] # "undecided"
        BY <1>4, <1>5
      <4>4. QED  BY <1>5, <4>2, <4>3
    <3>3. QED  BY <3>1, <3>2
  <2>4. TurnsTaken'
    BY <2>3 DEF TurnsTaken
  <2>5. QED  BY <2>1, <2>2, <2>4 DEF BatchInv
<1>11. QED  BY <1>3, <1>6, <1>7, <1>8, <1>9, <1>10

\* An alert is sent only while no cooldown runs that the transaction can see; either
\* way it leaves the row running.
LEMMA AlertKeeps ==
  ASSUME RoutingInv, NEW r \in Replica, NEW e \in Slot, NEW h \in Hook, SendAlert(r, e, h)
  PROVE  BatchInv' /\ RowInv' /\ SkipInv'
<1>1. PICK k \in Key :
        /\ Is(e, "alert", k) /\ ~Held(r, h, k)
        /\ Decide(r, e, h, IF SeenBy(r, h, k) = "running" THEN "skipped" ELSE "sent")
        /\ Write(r, h, k, "running")
  BY AlertEffect DEF RoutingInv, BatchInv
<1>2. UNCHANGED <<event, hook, delivery, burst>> /\ Turn(r, e, h) /\ hook[h] # "removed"
  BY DEF SendAlert
<1> DEFINE v == IF SeenBy(r, h, k) = "running" THEN "skipped" ELSE "sent"
<1>3. v \in {"sent", "skipped"} /\ Decide(r, e, h, v)
  BY <1>1
<1> HIDE DEF v
<1>4. /\ BatchInv'
      /\ \A f \in tx[r].batch : Decided(r, f, h) => f < e
      /\ \A s \in Replica, g \in Hook, j \in Key : s # r \/ g # h =>
           /\ SentLast(s, g, j)' = SentLast(s, g, j)
           /\ Ended(s, g, j)' <=> Ended(s, g, j)
           /\ AlertSent(s, g, j)' <=> AlertSent(s, g, j)
      /\ \A j \in Key : /\ AlertSent(r, h, j) => AlertSent(r, h, j)'
                        /\ Ended(r, h, j) => Ended(r, h, j)'
      /\ \A g \in Hook, j \in Key : AlertQueued(g, j) => AlertQueued(g, j)'
      /\ \A f \in Slot, j \in Key, c \in {"alert", "recovery"} : Is(f, c, j)' <=> Is(f, c, j)
  BY <1>2, <1>3, TurnEffect
<1>5. /\ \A s \in Replica \ {r} : tx'[s] = tx[s]
      /\ tx'[r].open = tx[r].open /\ tx'[r].batch = tx[r].batch
      /\ tx'[r].out[e][h] = v
      /\ \A f \in Slot, g \in Hook : <<f, g>> # <<e, h>> => tx'[r].out[f][g] = tx[r].out[f][g]
  BY <1>3, DecideType DEF RoutingInv, Verdict
<1>6. /\ tx[r].open /\ e \in tx[r].batch /\ tx[r].out[e][h] = "undecided"
      /\ tx[r].batch \subseteq Slot
  BY <1>2, TurnType DEF RoutingInv, BatchInv, TypeOK, Tx
<1>7. /\ cooldown'[h][k] = [value |-> cooldown[h][k].value, by |-> r, next |-> "running"]
      /\ \A g \in Hook, j \in Key : <<g, j>> # <<h, k>> => cooldown'[g][j] = cooldown[g][j]
  BY <1>1, WriteType DEF RoutingInv, Running
<1>8. /\ cooldown'[h][k].value = cooldown[h][k].value
      /\ cooldown'[h][k].by = r /\ cooldown'[h][k].next = "running"
  BY <1>7
<1>9. cooldown[h][k].by \in {NoReplica, r}
  BY <1>1 DEF Held
<1>10. \A j \in Key : Ended(r, h, j)' <=> Ended(r, h, j)
  <2>1. \A j \in Key : ~Is(e, "recovery", j)
    BY <1>1 DEF Is
  <2>2. QED  BY <1>4, <1>5, <1>6, <2>1 DEF Ended
<1>11. \A j \in Key \ {k} : SentLast(r, h, j)' = SentLast(r, h, j)
  <2>1. \A j \in Key \ {k} : ~Is(e, "alert", j) /\ ~Is(e, "recovery", j)
    BY <1>1 DEF Is
  <2>2. QED  BY <1>4, <1>5, <1>6, <2>1 DEF SentLast
<1>12. v = "skipped" => SentLast(r, h, k)' = SentLast(r, h, k)
  <2>1. ~Is(e, "recovery", k)
    BY <1>1 DEF Is
  <2>2. QED  BY <1>4, <1>5, <1>6, <2>1 DEF SentLast
<1>13. v = "sent" => SentLast(r, h, k)' = {e} /\ (~Ended(r, h, k) => cooldown[h][k].value # "running")
  <2> SUFFICES ASSUME v = "sent"
               PROVE  SentLast(r, h, k)' = {e} /\ (~Ended(r, h, k) => cooldown[h][k].value # "running")
    OBVIOUS
  <2>1. SeenBy(r, h, k) # "running"
    BY DEF v
  <2>2. SentLast(r, h, k) = {}
    BY <2>1 DEF SeenBy, RoutingInv, RowInv, AlertHolds
  <2>3. ~Is(e, "recovery", k)
    BY <1>1 DEF Is
  <2>4. \A f \in tx[r].batch : Is(f, "recovery", k)' /\ tx'[r].out[f][h] = "sent" =>
          f < e /\ Is(f, "recovery", k) /\ tx[r].out[f][h] = "sent"
    BY <1>4, <1>5, <1>6, <2>3 DEF Decided
  <2>5. e \in SentLast(r, h, k)'
    BY <1>1, <1>4, <1>5, <1>6, <2>4 DEF SentLast
  <2>6. \A f \in SentLast(r, h, k)' : f # e => f \in SentLast(r, h, k)
    BY <1>4, <1>5, <1>6, <2>3 DEF SentLast
  <2>7. ~Ended(r, h, k) => cooldown[h][k].value # "running"
    <3>1. CASE cooldown[h][k].by = r
      BY <2>1, <3>1, RoutingAssumption
         DEF SeenBy, RoutingInv, RowInv, RowsFit, RecoveryEnds, TypeOK, CooldownRow, Running
    <3>2. CASE cooldown[h][k].by # r
      BY <2>1, <3>2 DEF SeenBy
    <3>3. QED  BY <3>1, <3>2
  <2>8. QED  BY <2>2, <2>5, <2>6, <2>7
<1>14. RowInv'
  <2>1. RowsFit'
    <3>1. \A s \in Replica : tx'[s].open = tx[s].open
      BY <1>5
    <3>2. \A g \in Hook, j \in Key :
            \/ cooldown'[g][j] = cooldown[g][j]
            \/ cooldown'[g][j].by = r /\ cooldown'[g][j].next = "running"
      BY <1>7, <1>8
    <3>3. \A g \in Hook, j \in Key : cooldown[g][j].by \in Replica \cup {NoReplica}
      BY DEF RoutingInv, TypeOK, CooldownRow
    <3>4. QED  BY <1>6, <3>1, <3>2, <3>3, RoutingAssumption DEF RoutingInv, RowInv, RowsFit
  <2>2. RecoveryEnds'
    BY <1>4, <1>7, <1>8, <1>10 DEF RoutingInv, RowInv, RecoveryEnds
  <2>3. ASSUME NEW s \in Replica, NEW g \in Hook, NEW j \in Key, NEW a \in SentLast(s, g, j)'
        PROVE  /\ cooldown'[g][j].by = s /\ cooldown'[g][j].next = "running"
               /\ SentLast(s, g, j)' = {a}
               /\ ~Ended(s, g, j)' => cooldown'[g][j].value # "running"
    <3>1. CASE s = r /\ g = h /\ j = k
      <4>1. CASE v = "sent"
        BY <1>8, <1>10, <1>13, <2>3, <3>1, <4>1
      <4>2. CASE v = "skipped"
        BY <1>8, <1>10, <1>12, <2>3, <3>1, <4>2 DEF RoutingInv, RowInv, AlertHolds
      <4>3. QED  BY <1>3, <4>1, <4>2
    <3>2. CASE s # r /\ g = h /\ j = k
      <4>1. a \in SentLast(s, g, j)
        BY <1>4, <2>3, <3>2
      <4>2. cooldown[h][k].by = s
        BY <3>2, <4>1 DEF RoutingInv, RowInv, AlertHolds
      <4>3. QED  BY <1>9, <3>2, <4>2, RoutingAssumption
    <3>3. CASE ~(g = h /\ j = k)
      <4>1. SentLast(s, g, j)' = SentLast(s, g, j) /\ (Ended(s, g, j)' <=> Ended(s, g, j))
        BY <1>4, <1>10, <1>11, <3>3
      <4>2. cooldown'[g][j] = cooldown[g][j]
        BY <1>7, <3>3
      <4>3. QED  BY <2>3, <4>1, <4>2 DEF RoutingInv, RowInv, AlertHolds
    <3>4. QED  BY <3>1, <3>2, <3>3
  <2>4. AlertHolds'
    BY <2>3 DEF AlertHolds
  <2>5. BurstRuns' /\ CooldownSpacing'
    BY <1>2, <1>7, <1>8 DEF RoutingInv, RowInv, BurstRuns, CooldownSpacing
  <2>6. QED  BY <2>1, <2>2, <2>4, <2>5 DEF RowInv
<1>15. AlertSent(r, h, k)' \/ AlertQueued(h, k)'
  <2>1. CASE v = "sent"
    BY <1>1, <1>4, <1>5, <1>6, <2>1 DEF AlertSent
  <2>2. CASE v = "skipped"
    <3>1. SeenBy(r, h, k) = "running"
      BY <2>2 DEF v
    <3>2. AlertSent(r, h, k) \/ AlertQueued(h, k)
      BY <3>1 DEF SeenBy, RoutingInv, SkipInv, RunningExplained
    <3>3. QED  BY <1>4, <3>2
  <2>3. QED  BY <1>3, <2>1, <2>2
<1>16. \A s \in Replica, g \in Hook, j \in Key : AlertSent(s, g, j) => AlertSent(s, g, j)'
  BY <1>4
<1>17. SkipInv'
  <2>1. RunningExplained'
    <3>1. \A g \in Hook, j \in Key : cooldown'[g][j].value = cooldown[g][j].value
      BY <1>7, <1>8
    <3>2. \A s \in Replica, g \in Hook, j \in Key :
            cooldown'[g][j].by = s /\ cooldown'[g][j].next = "running" =>
              AlertSent(s, g, j)' \/ AlertQueued(g, j)'
      BY <1>4, <1>7, <1>8, <1>15, <1>16 DEF RoutingInv, SkipInv, RunningExplained
    <3>3. QED  BY <1>4, <3>1, <3>2 DEF RoutingInv, SkipInv, RunningExplained
  <2>2. ASSUME NEW s \in Replica, NEW f \in Slot, NEW g \in Hook, tx'[s].out[f][g] = "skipped"
        PROVE  \E j \in Key : Is(f, "alert", j)' /\ (AlertSent(s, g, j)' \/ AlertQueued(g, j)')
    <3>1. CASE s = r /\ f = e /\ g = h
      BY <1>1, <1>4, <1>15, <3>1
    <3>2. CASE ~(s = r /\ f = e /\ g = h)
      <4>1. tx[s].out[f][g] = "skipped"
        BY <1>5, <2>2, <3>2
      <4>2. QED  BY <1>4, <1>16, <4>1 DEF RoutingInv, SkipInv, SkipsExplained
    <3>3. QED  BY <3>1, <3>2
  <2>3. SkipsExplained'
    BY <2>2 DEF SkipsExplained
  <2>4. QueuedSkips'
    BY <1>2, <1>4 DEF RoutingInv, SkipInv, QueuedSkips
  <2>5. QED  BY <2>1, <2>3, <2>4 DEF SkipInv
<1>18. QED  BY <1>4, <1>14, <1>17

\* After a recovery the transaction has sent no alert that could be the last one, and a
\* row it held or found is gone, or is another transaction's.
LEMMA RecoveryKeeps ==
  ASSUME RoutingInv, NEW r \in Replica, NEW e \in Slot, NEW h \in Hook, SendRecovery(r, e, h)
  PROVE  BatchInv' /\ RowInv' /\ SkipInv'
<1>1. PICK k \in Key :
        /\ Is(e, "recovery", k)
        /\ Decide(r, e, h, "sent")
        /\ \/ UNCHANGED cooldown
           \/ ~Held(r, h, k) /\ SeenBy(r, h, k) # "none" /\ Write(r, h, k, "none")
  BY RecoveryEffect DEF RoutingInv, BatchInv
<1>2. UNCHANGED <<event, hook, delivery, burst>> /\ Turn(r, e, h) /\ hook[h] # "removed"
  BY DEF SendRecovery
<1>3. /\ BatchInv'
      /\ \A f \in tx[r].batch : Decided(r, f, h) => f < e
      /\ \A s \in Replica, g \in Hook, j \in Key : s # r \/ g # h =>
           /\ SentLast(s, g, j)' = SentLast(s, g, j)
           /\ Ended(s, g, j)' <=> Ended(s, g, j)
           /\ AlertSent(s, g, j)' <=> AlertSent(s, g, j)
      /\ \A j \in Key : /\ AlertSent(r, h, j) => AlertSent(r, h, j)'
                        /\ Ended(r, h, j) => Ended(r, h, j)'
      /\ \A g \in Hook, j \in Key : AlertQueued(g, j) => AlertQueued(g, j)'
      /\ \A f \in Slot, j \in Key, c \in {"alert", "recovery"} : Is(f, c, j)' <=> Is(f, c, j)
  BY <1>1, <1>2, TurnEffect
<1>4. /\ \A s \in Replica \ {r} : tx'[s] = tx[s]
      /\ tx'[r].open = tx[r].open /\ tx'[r].batch = tx[r].batch
      /\ tx'[r].out[e][h] = "sent"
      /\ \A f \in Slot, g \in Hook : <<f, g>> # <<e, h>> => tx'[r].out[f][g] = tx[r].out[f][g]
  BY <1>1, DecideType DEF RoutingInv, Verdict
<1>5. /\ tx[r].open /\ e \in tx[r].batch /\ tx[r].out[e][h] = "undecided"
      /\ tx[r].batch \subseteq Slot
  BY <1>2, TurnType DEF RoutingInv, BatchInv, TypeOK, Tx
<1>6. \/ UNCHANGED cooldown
      \/ /\ cooldown[h][k].by \in {NoReplica, r}
         /\ cooldown'[h][k].value = cooldown[h][k].value
         /\ cooldown'[h][k].by = r /\ cooldown'[h][k].next = "none"
         /\ \A g \in Hook, j \in Key : <<g, j>> # <<h, k>> => cooldown'[g][j] = cooldown[g][j]
  <2>1. CASE ~Held(r, h, k) /\ Write(r, h, k, "none")
    <3>1. /\ cooldown'[h][k] = [value |-> cooldown[h][k].value, by |-> r, next |-> "none"]
          /\ \A g \in Hook, j \in Key : <<g, j>> # <<h, k>> => cooldown'[g][j] = cooldown[g][j]
      BY <2>1, WriteType DEF RoutingInv, Running
    <3>2. /\ cooldown'[h][k].value = cooldown[h][k].value
          /\ cooldown'[h][k].by = r /\ cooldown'[h][k].next = "none"
      BY <3>1
    <3>3. cooldown[h][k].by \in {NoReplica, r}
      BY <2>1 DEF Held
    <3>4. QED  BY <3>1, <3>2, <3>3
  <2>2. QED  BY <1>1, <2>1
<1>7. \A g \in Hook, j \in Key :
        /\ cooldown'[g][j].value = cooldown[g][j].value
        /\ \/ cooldown'[g][j] = cooldown[g][j]
           \/ cooldown'[g][j].by = r /\ cooldown'[g][j].next = "none"
  BY <1>6
<1>8. \A s \in Replica : tx'[s].open = tx[s].open
  BY <1>4
<1>9. Ended(r, h, k)'
  BY <1>1, <1>3, <1>4, <1>5 DEF Ended
<1>10. SentLast(r, h, k)' = {}
  <2>1. \A a \in tx[r].batch : Is(a, "alert", k) /\ tx'[r].out[a][h] = "sent" => a < e
    <3>1. ~Is(e, "alert", k)
      BY <1>1 DEF Is
    <3>2. QED  BY <1>3, <1>4, <1>5, <3>1 DEF Decided
  <2>2. e \in Nat /\ \A a \in tx[r].batch : a \in Nat
    BY <1>5, RoutingAssumption DEF Slot
  <2>3. ASSUME NEW a \in SentLast(r, h, k)' PROVE FALSE
    <3>1. a \in tx[r].batch /\ Is(a, "alert", k) /\ tx'[r].out[a][h] = "sent"
      BY <1>3, <1>4, <1>5, <2>3 DEF SentLast
    <3>2. e < a
      BY <1>1, <1>3, <1>4, <1>5, <2>3 DEF SentLast
    <3>3. QED  BY <2>1, <2>2, <3>1, <3>2
  <2>4. QED  BY <2>3
<1>11. \A j \in Key \ {k} : SentLast(r, h, j)' = SentLast(r, h, j) /\ (Ended(r, h, j)' <=> Ended(r, h, j))
  <2>1. \A j \in Key \ {k} : ~Is(e, "alert", j) /\ ~Is(e, "recovery", j)
    BY <1>1 DEF Is
  <2>2. \A j \in Key \ {k} : SentLast(r, h, j)' = SentLast(r, h, j)
    BY <1>3, <1>4, <1>5, <2>1 DEF SentLast
  <2>3. \A j \in Key \ {k} : Ended(r, h, j)' <=> Ended(r, h, j)
    BY <1>3, <1>4, <1>5, <2>1 DEF Ended
  <2>4. QED  BY <2>2, <2>3
<1>12. RowInv'
  <2>1. RowsFit'
    <3>1. \A g \in Hook, j \in Key : cooldown[g][j].by \in Replica \cup {NoReplica}
      BY DEF RoutingInv, TypeOK, CooldownRow
    <3>2. QED  BY <1>5, <1>7, <1>8, <3>1, RoutingAssumption DEF RoutingInv, RowInv, RowsFit
  <2>2. ASSUME NEW s \in Replica, NEW g \in Hook, NEW j \in Key,
               cooldown'[g][j].by = s, cooldown'[g][j].next = "none"
        PROVE  Ended(s, g, j)'
    <3>1. CASE s = r /\ g = h /\ j = k
      BY <1>9, <3>1
    <3>2. CASE ~(s = r /\ g = h /\ j = k)
      <4>1. cooldown'[g][j] = cooldown[g][j]
        BY <1>6, <2>2, <3>2
      <4>2. Ended(s, g, j)
        BY <2>2, <4>1 DEF RoutingInv, RowInv, RecoveryEnds
      <4>3. QED  BY <1>3, <1>11, <3>2, <4>2
    <3>3. QED  BY <3>1, <3>2
  <2>3. RecoveryEnds'
    BY <2>2 DEF RecoveryEnds
  <2>4. ASSUME NEW s \in Replica, NEW g \in Hook, NEW j \in Key, NEW a \in SentLast(s, g, j)'
        PROVE  /\ cooldown'[g][j].by = s /\ cooldown'[g][j].next = "running"
               /\ SentLast(s, g, j)' = {a}
               /\ ~Ended(s, g, j)' => cooldown'[g][j].value # "running"
    <3>1. ~(s = r /\ g = h /\ j = k)
      BY <1>10, <2>4
    <3>2. SentLast(s, g, j)' = SentLast(s, g, j) /\ (Ended(s, g, j)' <=> Ended(s, g, j))
      BY <1>3, <1>11, <3>1
    <3>3. /\ cooldown[g][j].by = s /\ cooldown[g][j].next = "running"
          /\ SentLast(s, g, j) = {a}
          /\ ~Ended(s, g, j) => cooldown[g][j].value # "running"
      BY <2>4, <3>2 DEF RoutingInv, RowInv, AlertHolds
    <3>4. cooldown'[g][j] = cooldown[g][j]
      BY <1>6, <3>1, <3>3, RoutingAssumption
    <3>5. QED  BY <3>2, <3>3, <3>4
  <2>5. AlertHolds'
    BY <2>4 DEF AlertHolds
  <2>6. BurstRuns' /\ CooldownSpacing'
    BY <1>2, <1>7 DEF RoutingInv, RowInv, BurstRuns, CooldownSpacing
  <2>7. QED  BY <2>1, <2>3, <2>5, <2>6 DEF RowInv
<1>13. \A s \in Replica, g \in Hook, j \in Key : AlertSent(s, g, j) => AlertSent(s, g, j)'
  BY <1>3
<1>14. SkipInv'
  <2>1. RunningExplained'
    BY <1>3, <1>7, <1>13 DEF RoutingInv, SkipInv, RunningExplained
  <2>2. \A s \in Replica, f \in Slot, g \in Hook :
          tx'[s].out[f][g] = "skipped" => tx[s].out[f][g] = "skipped"
    BY <1>4
  <2>3. SkipsExplained'
    BY <1>3, <1>13, <2>2 DEF RoutingInv, SkipInv, SkipsExplained
  <2>4. QueuedSkips'
    BY <1>2, <1>3 DEF RoutingInv, SkipInv, QueuedSkips
  <2>5. QED  BY <2>1, <2>3, <2>4 DEF SkipInv
<1>15. QED  BY <1>3, <1>12, <1>14

LEMMA ActivityKeeps ==
  ASSUME RoutingInv, NEW r \in Replica, NEW e \in Slot, NEW h \in Hook, SendActivity(r, e, h)
  PROVE  BatchInv' /\ RowInv' /\ SkipInv'
<1>1. /\ Turn(r, e, h) /\ hook[h] # "removed" /\ event[e].is.class = "activity"
      /\ Decide(r, e, h, "sent")
      /\ UNCHANGED <<event, hook, delivery, cooldown, burst>>
  BY DEF SendActivity
<1>2. /\ BatchInv'
      /\ \A s \in Replica, g \in Hook, j \in Key : s # r \/ g # h =>
           /\ SentLast(s, g, j)' = SentLast(s, g, j)
           /\ Ended(s, g, j)' <=> Ended(s, g, j)
           /\ AlertSent(s, g, j)' <=> AlertSent(s, g, j)
      /\ \A j \in Key : /\ AlertSent(r, h, j) => AlertSent(r, h, j)'
                        /\ Ended(r, h, j) => Ended(r, h, j)'
      /\ \A g \in Hook, j \in Key : AlertQueued(g, j) => AlertQueued(g, j)'
      /\ \A f \in Slot, j \in Key, c \in {"alert", "recovery"} : Is(f, c, j)' <=> Is(f, c, j)
  BY <1>1, TurnEffect
<1>3. /\ \A s \in Replica \ {r} : tx'[s] = tx[s]
      /\ tx'[r].open = tx[r].open /\ tx'[r].batch = tx[r].batch
      /\ tx'[r].out[e][h] = "sent"
      /\ \A f \in Slot, g \in Hook : <<f, g>> # <<e, h>> => tx'[r].out[f][g] = tx[r].out[f][g]
  BY <1>1, DecideType DEF RoutingInv, Verdict
<1>4. tx[r].batch \subseteq Slot
  BY DEF RoutingInv, TypeOK, Tx
<1>5. \A j \in Key, c \in {"alert", "recovery"} : ~Is(e, c, j)
  BY <1>1 DEF Is
<1>6. \A s \in Replica, g \in Hook, j \in Key :
        /\ SentLast(s, g, j)' = SentLast(s, g, j)
        /\ Ended(s, g, j)' <=> Ended(s, g, j)
        /\ AlertSent(s, g, j)' <=> AlertSent(s, g, j)
  <2>1. \A j \in Key : SentLast(r, h, j)' = SentLast(r, h, j)
    BY <1>2, <1>3, <1>4, <1>5 DEF SentLast
  <2>2. \A j \in Key : /\ Ended(r, h, j)' <=> Ended(r, h, j)
                       /\ AlertSent(r, h, j)' <=> AlertSent(r, h, j)
    BY <1>2, <1>3, <1>4, <1>5 DEF Ended, AlertSent
  <2>3. QED  BY <1>2, <2>1, <2>2
<1>7. RowInv'
  <2>1. RowsFit'
    <3>1. \A s \in Replica : tx'[s].open = tx[s].open
      BY <1>3
    <3>2. \A g \in Hook, j \in Key : cooldown[g][j].by \in Replica \cup {NoReplica}
      BY DEF RoutingInv, TypeOK, CooldownRow
    <3>3. QED  BY <1>1, <3>1, <3>2, RoutingAssumption DEF RoutingInv, RowInv, RowsFit
  <2>2. QED  BY <1>1, <1>6, <2>1
                DEF RoutingInv, RowInv, RecoveryEnds, AlertHolds, BurstRuns, CooldownSpacing
<1>8. SkipInv'
  <2>1. RunningExplained'
    BY <1>1, <1>2, <1>6 DEF RoutingInv, SkipInv, RunningExplained
  <2>2. \A s \in Replica, f \in Slot, g \in Hook :
          tx'[s].out[f][g] = "skipped" => tx[s].out[f][g] = "skipped"
    BY <1>3
  <2>3. SkipsExplained'
    BY <1>2, <1>6, <2>2 DEF RoutingInv, SkipInv, SkipsExplained
  <2>4. QueuedSkips'
    BY <1>1, <1>2 DEF RoutingInv, SkipInv, QueuedSkips
  <2>5. QED  BY <2>1, <2>3, <2>4 DEF SkipInv
<1>9. QED  BY <1>2, <1>7, <1>8

-----------------------------------------------------------------------------
(* The theorems. *)

LEMMA InvariantInit == Init => RoutingInv
<1> SUFFICES ASSUME Init PROVE RoutingInv
  OBVIOUS
<1> USE RoutingAssumption
<1>1. TypeOK
  BY TypeInvariant
<1>2. /\ \A r \in Replica : tx[r].batch = {}
      /\ \A r \in Replica, e \in Slot, h \in Hook : tx[r].out[e][h] = "undecided"
      /\ \A h \in Hook, k \in Key : burst[h][k] = 0
      /\ \A e \in Slot, h \in Hook : delivery[e][h] = "none"
  BY DEF Init, Idle
<1>3. \A h \in Hook, k \in Key :
        cooldown[h][k].value = "none" /\ cooldown[h][k].by = NoReplica /\ cooldown[h][k].next = "none"
  BY DEF Init, NoCooldown
<1>4. BatchInv
  BY <1>2 DEF BatchInv, EventsFit, BatchesFit, TurnsTaken, Decided
<1>5. RowInv
  BY <1>2, <1>3 DEF RowInv, RowsFit, RecoveryEnds, AlertHolds, BurstRuns, CooldownSpacing, SentLast
<1>6. SkipInv
  BY <1>2, <1>3 DEF SkipInv, RunningExplained, SkipsExplained, QueuedSkips
<1>7. QED  BY <1>1, <1>4, <1>5, <1>6 DEF RoutingInv

LEMMA InvariantStep == RoutingInv /\ [Next]_vars => RoutingInv'
<1> SUFFICES ASSUME RoutingInv, [Next]_vars PROVE BatchInv' /\ RowInv' /\ SkipInv'
  BY TypeStep DEF RoutingInv, BatchInv
<1>1. ASSUME NEW k \in Emitted, Store(k) PROVE BatchInv' /\ RowInv' /\ SkipInv'
  BY <1>1, StoreKeeps
<1>2. ASSUME NEW h \in Hook, SaveHook(h) PROVE BatchInv' /\ RowInv' /\ SkipInv'
  BY <1>2, QuietKeeps DEF SaveHook, RoutingInv, TypeOK
<1>3. ASSUME NEW h \in Hook, RemoveHook(h) PROVE BatchInv' /\ RowInv' /\ SkipInv'
  BY <1>3, RemoveHookKeeps
<1>4. ASSUME NEW h \in Hook, NEW k \in Key, Expire(h, k) \/ Sweep(h, k)
      PROVE  BatchInv' /\ RowInv' /\ SkipInv'
  BY <1>4, TimeKeeps
<1>5. ASSUME NEW r \in Replica, Begin(r) PROVE BatchInv' /\ RowInv' /\ SkipInv'
  BY <1>5, BeginKeeps
<1>6. ASSUME NEW r \in Replica, Commit(r) PROVE BatchInv' /\ RowInv' /\ SkipInv'
  BY <1>6, CommitKeeps
<1>7. ASSUME NEW r \in Replica, Fail(r) \/ BreakDeadlock(r)
      PROVE  BatchInv' /\ RowInv' /\ SkipInv'
  BY <1>7, RollbackKeeps DEF Fail, BreakDeadlock
<1>8. ASSUME NEW r \in Replica, NEW e \in Slot, NEW h \in Hook, Route(r, e, h)
      PROVE  BatchInv' /\ RowInv' /\ SkipInv'
  <2>1. CASE SendActivity(r, e, h)
    BY <2>1, ActivityKeeps
  <2>2. CASE SendAlert(r, e, h)
    BY <2>2, AlertKeeps
  <2>3. CASE SendRecovery(r, e, h)
    BY <2>3, RecoveryKeeps
  <2>4. CASE RefuseRow(r, e, h)
    BY <2>4, RollbackKeeps DEF RefuseRow
  <2>5. QED  BY <1>8, <2>1, <2>2, <2>3, <2>4 DEF Route
<1>9. CASE UNCHANGED vars
  BY <1>9, QuietKeeps DEF vars
<1>10. QED
  BY <1>1, <1>2, <1>3, <1>4, <1>5, <1>6, <1>7, <1>8, <1>9 DEF Next

LEMMA Invariant == Spec => []RoutingInv
  BY InvariantInit, InvariantStep, PTL DEF Spec

\* Every value the routing transactions work on keeps its type.
THEOREM TypeCorrect == Spec => []TypeOK
<1>1. RoutingInv => TypeOK
  BY DEF RoutingInv
<1>2. QED  BY <1>1, Invariant, PTL

\* A webhook gets one alert about a subject per cooldown, however many replicas route
\* alerts about it in transactions that overlap, fail, deadlock or roll back.
THEOREM OneAlertPerCooldown == Spec => []CooldownSpacing
<1>1. RoutingInv => CooldownSpacing
  BY DEF RoutingInv, RowInv
<1>2. QED  BY <1>1, Invariant, PTL

\* An alert is held back only because another alert about its subject was really
\* queued for the webhook: a rolled back transaction leaves no cooldown behind.
THEOREM NoAlertLost == Spec => []SkipExplained
<1>1. RoutingInv => SkipExplained
  <2>1. \A e \in Slot, k \in Key : Is(e, "alert", k) => event[e].is.key = k
    BY DEF Is
  <2>2. QED  BY <2>1 DEF RoutingInv, SkipInv, QueuedSkips, AlertQueued, SkipExplained
<1>2. QED  BY <1>1, Invariant, PTL

\* While a cooldown runs, a delivery of an alert about its subject is queued for the
\* webhook, and no event is in the batches of two replicas.
THEOREM CooldownsExplained ==
  Spec => [](/\ \A h \in Hook, k \in Key : cooldown[h][k].value = "running" => AlertQueued(h, k)
             /\ BatchesFit)
<1>1. RoutingInv => /\ \A h \in Hook, k \in Key : cooldown[h][k].value = "running" => AlertQueued(h, k)
                    /\ BatchesFit
  BY DEF RoutingInv, SkipInv, RunningExplained, BatchInv
<1>2. QED  BY <1>1, Invariant, PTL

=============================================================================
