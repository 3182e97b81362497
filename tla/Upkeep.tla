------------------------------ MODULE Upkeep ------------------------------
(***************************************************************************)
(* The request limits (rate-limit.ts): fixed windows counted in PostgreSQL *)
(* for all replicas, with a count of each process's own while the database *)
(* cannot be reached.                                                      *)
(***************************************************************************)
EXTENDS Naturals, FiniteSets, Sequences

CONSTANTS
  Client,          \* limited keys
  Replica,         \* server processes
  Hit,             \* statements under way
  Limit,           \* allowed per client and window
  MaxKeys,         \* keys a process counts itself
  Length,          \* ticks per window
  EndOfTicks,      \* bound: the clock
  MaxHits          \* bound: requests of a client

ASSUME RateAssumption ==
  /\ {Limit, MaxKeys, Length} \subseteq Nat \ {0} /\ {EndOfTicks, MaxHits} \subseteq Nat
  /\ IsFiniteSet(Replica)

VARIABLES
  tick,
  limitRow,        \* ship_live_rate_limits
  made,         \* requests made
  hit,          \* statements that wait for the row, with the window they computed
  counted,      \* the windows each process counts itself
  decided,      \* how many of each client's requests of a window were decided
  passed,       \* of these, how many were allowed
  restarts      \* how often a window's count began

rateVars == <<tick, limitRow, made, hit, counted, decided, passed, restarts>>

-----------------------------------------------------------------------------
NoHit == [is |-> "none"]

WindowAt(t) == t \div Length

Windows == 0 .. WindowAt(EndOfTicks)

RateTypeOK ==
  /\ tick \in 0 .. EndOfTicks /\ made \in 0 .. MaxHits
  /\ limitRow \in [Client -> [window : Windows, hits : Nat]]
  /\ hit \in [Hit -> [is : {"waiting"}, client : Client, window : Windows]
                               \cup {NoHit}]
  /\ counted \in [Replica -> [Client -> [window : Windows, hits : Nat, age : Nat]]]
  /\ \A p \in Replica : Cardinality({c \in Client : counted[p][c].hits > 0}) <= MaxKeys
  /\ \A f \in {decided, passed, restarts} : f \in [Client -> [Windows -> Nat]]

NoCounts == [c \in Client |-> [w \in Windows |-> 0]]

\* hits 0: no row, or no entry in the map.
RateInit ==
  /\ tick = 0 /\ made = 0
  /\ limitRow = [c \in Client |-> [window |-> 0, hits |-> 0]]
  /\ hit = [q \in Hit |-> NoHit]
  /\ counted = [p \in Replica |-> [c \in Client |-> [window |-> 0, hits |-> 0, age |-> 0]]]
  /\ decided = NoCounts /\ passed = NoCounts /\ restarts = NoCounts

RateTick ==
  /\ tick < EndOfTicks /\ tick' = tick + 1
  /\ UNCHANGED <<limitRow, made, hit, counted, decided, passed, restarts>>

\* What the caller is told, of a count that may have begun with this hit.
Decide(c, w, hits) ==
  /\ decided' = [decided EXCEPT ![c][w] = @ + 1]
  /\ passed' = [passed EXCEPT ![c][w] = @ + (IF hits <= Limit THEN 1 ELSE 0)]
  /\ restarts' = [restarts EXCEPT ![c][w] = @ + (IF hits = 1 THEN 1 ELSE 0)]

\* The statement computes its window and then waits for the row's lock.
ComputeWindow(q, c) ==
  /\ hit[q] = NoHit
  /\ made < MaxHits /\ made' = made + 1
  /\ hit' = [hit EXCEPT ![q] =
       [is |-> "waiting", client |-> c, window |-> WindowAt(tick)]]
  /\ UNCHANGED <<tick, limitRow, counted, decided, passed, restarts>>

KeepsCounting(window, w) == TRUE

SameWindow(window, w) == window = w

Upsert(old, w) ==
  [window |-> w,
   hits |-> IF old.hits > 0 /\ SameWindow(old.window, w) THEN old.hits + 1 ELSE 1]

WriteHit(q) ==
  /\ hit[q] # NoHit
  /\ LET c == hit[q].client
         w == hit[q].window
     IN /\ limitRow' = [limitRow EXCEPT ![c] = Upsert(@, w)]
        /\ Decide(c, w, Upsert(limitRow[c], w).hits)
  /\ hit' = [hit EXCEPT ![q] = NoHit]
  /\ UNCHANGED <<tick, made, counted>>

Aged(p) == [c \in Client |-> IF counted[p][c].hits > 0 THEN counted[p][c].age + 1 ELSE 0]

ForgetsNothing(m) == m

\* A process forgets the key it has counted the longest when it has too many.
Forgetting(m) ==
  LET keys == {c \in Client : m[c].hits > 0}
      old  == {c \in keys : \A d \in keys : m[d].age <= m[c].age}
  IN IF Cardinality(keys) <= MaxKeys THEN m
     ELSE [c \in Client |-> IF c \in old THEN [m[c] EXCEPT !.hits = 0] ELSE m[c]]

\* MemoryRateLimiter.hit: an entry that has ended is a new one, at the end of the map.
MemoryHit(p, c) ==
  LET w   == WindowAt(tick)
      old == counted[p][c]
  IN IF old.hits = 0 \/ old.window < w
     THEN Forgetting([d \in Client |->
            IF d = c THEN [window |-> w, hits |-> 1, age |-> 0]
            ELSE [counted[p][d] EXCEPT !.age = IF Aged(p)[d] > 3 THEN 3 ELSE Aged(p)[d]]])
     ELSE [counted[p] EXCEPT ![c].hits = @ + 1]

\* The database could not be reached: the statement failed, before or while it waited.
CountHere(p, q) ==
  /\ hit[q] # NoHit
  /\ LET c == hit[q].client
     IN /\ counted' = [counted EXCEPT ![p] = MemoryHit(p, c)]
        /\ Decide(c, WindowAt(tick), MemoryHit(p, c)[c].hits)
  /\ hit' = [hit EXCEPT ![q] = NoHit]
  /\ UNCHANGED <<tick, made, limitRow>>

RateNext ==
  \/ RateTick
  \/ \E q \in Hit, c \in Client : ComputeWindow(q, c)
  \/ \E q \in Hit : WriteHit(q) \/ \E p \in Replica : CountHere(p, q)

RateSpec == RateInit /\ [][RateNext]_rateVars

-----------------------------------------------------------------------------
(* Every count lets at most the limit through, whichever order writers of  *)
(* two windows get the row in: more is allowed in one window only when a   *)
(* late writer, a process of its own or a forgotten key began the count    *)
(* again; and nobody is refused who made no more than the limit in it.     *)
(* (rate-limit.ts hit)                                                     *)
RateSafe ==
  \A c \in Client, w \in Windows :
    /\ passed[c][w] <= Limit * restarts[c][w]
    /\ decided[c][w] <= Limit => passed[c][w] = decided[c][w]

-----------------------------------------------------------------------------
(***************************************************************************)
(* The retention job (maintenance.ts): one replica at a time deletes       *)
(* expired rows in batches, each one statement that selects its rows and   *)
(* then waits for their locks, while the tables are in use.  Modelled are  *)
(* the tables with something to protect: webhook deliveries, webhook       *)
(* events and pull requests on Review Radar; every other table loses its   *)
(* expired rows alone.                                                     *)
(***************************************************************************)
CONSTANTS
  Announced,     \* webhook events
  Dispatch,      \* webhook deliveries, each of one event
  RadarPull,     \* pull requests
  Keeper,        \* replicas
  RowBatch,         \* rows per statement (5000)
  MaxBatches,    \* statements per table and run (200)
  MaxUpdates     \* bound: redeliveries and pull requests opened again

ASSUME RetentionAssumption ==
  /\ {RowBatch, MaxBatches} \subseteq Nat \ {0} /\ MaxUpdates \in Nat
  /\ Announced \cap Dispatch = {} /\ Announced \cap RadarPull = {} /\ Dispatch \cap RadarPull = {}

VARIABLES
  keptEvents,    \* ship_live_webhook_events
  dispatch,     \* ship_live_webhook_deliveries
  radar,        \* ship_live_wall_signals
  keeper,       \* runs of the job
  advisory,     \* holders of the advisory lock
  updates,
  late,         \* deliveries queued again while their event was being deleted
  lost          \* rows deleted while somebody needed them

retentionVars == <<keptEvents, dispatch, radar, keeper, advisory, updates, late, lost>>

-----------------------------------------------------------------------------
GoneRow == [is |-> "none"]

IdleKeeper == [task |-> 0]

Tasks == <<"deliveries", "events", "signals">>

RetentionTypeOK ==
  /\ keptEvents \in [Announced -> {GoneRow} \cup [old : BOOLEAN, routed : BOOLEAN]]
  /\ dispatch \in [Dispatch -> {GoneRow} \cup
       [of : Announced, old : BOOLEAN, status : {"pending", "finished"}]]
  /\ radar \in [RadarPull -> {GoneRow} \cup [old : BOOLEAN, open : BOOLEAN]]
  /\ keeper \in [Keeper -> {IdleKeeper} \cup
       [task : 1 .. 3, batch : 0 .. MaxBatches, deleting : BOOLEAN,
        picked : SUBSET (Announced \cup Dispatch \cup RadarPull)]]
  /\ advisory \subseteq Keeper
  /\ updates \in 0 .. MaxUpdates
  /\ late \subseteq Dispatch
  /\ lost \subseteq Announced \cup Dispatch \cup RadarPull

RetentionInit ==
  /\ keptEvents = [e \in Announced |-> [old |-> FALSE, routed |-> FALSE]]
  /\ dispatch = [d \in Dispatch |-> GoneRow]
  /\ radar = [p \in RadarPull |-> [old |-> FALSE, open |-> TRUE]]
  /\ keeper = [k \in Keeper |-> IdleKeeper]
  /\ advisory = {}
  /\ updates = 0
  /\ late = {}
  /\ lost = {}

ghosts == <<late, lost>>

NewVersion == updates < MaxUpdates /\ updates' = updates + 1

\* An updated row is another version: a statement that picked the old one skips it.
Touched(row) ==
  [k \in Keeper |-> IF keeper[k] = IdleKeeper THEN keeper[k]
                    ELSE [keeper[k] EXCEPT !.picked = @ \ {row}]]

-----------------------------------------------------------------------------
(* The tables in use. *)

Ages ==
  \/ \E e \in Announced :
       /\ keptEvents[e] # GoneRow /\ keptEvents' = [keptEvents EXCEPT ![e].old = TRUE]
       /\ UNCHANGED <<dispatch, radar>>
  \/ \E d \in Dispatch :     \* a delivery is never older than its event
       /\ dispatch[d] # GoneRow /\ keptEvents[dispatch[d].of].old
       /\ dispatch' = [dispatch EXCEPT ![d].old = TRUE]
       /\ UNCHANGED <<keptEvents, radar>>
  \/ \E p \in RadarPull :
       /\ radar[p] # GoneRow /\ radar' = [radar EXCEPT ![p].old = TRUE]
       /\ UNCHANGED <<keptEvents, dispatch>>

Passes == Ages /\ UNCHANGED <<keeper, advisory, updates, ghosts>>

\* Routing marks the event and inserts its deliveries in one transaction.
Routes(e, D) ==
  /\ keptEvents[e] # GoneRow /\ ~keptEvents[e].routed
  /\ \A d \in D : dispatch[d] = GoneRow
  /\ keptEvents' = [keptEvents EXCEPT ![e].routed = TRUE]
  /\ dispatch' = [d \in Dispatch |->
       IF d \in D THEN [of |-> e, old |-> FALSE, status |-> "pending"] ELSE dispatch[d]]
  /\ keeper' = Touched(e)
  /\ UNCHANGED <<radar, advisory, updates, ghosts>>

Finishes(d) ==
  /\ dispatch[d] # GoneRow /\ dispatch[d].status = "pending"
  /\ dispatch' = [dispatch EXCEPT ![d].status = "finished"]
  /\ keeper' = Touched(d)
  /\ UNCHANGED <<keptEvents, radar, advisory, updates, ghosts>>

\* redeliver does not touch the event's row.
Redeliver(d) ==
  /\ NewVersion
  /\ dispatch[d] # GoneRow /\ dispatch[d].status = "finished"
  /\ dispatch' = [dispatch EXCEPT ![d].status = "pending"]
  /\ keeper' = Touched(d)
  /\ late' = IF \E k \in Keeper : keeper[k] # IdleKeeper /\ dispatch[d].of \in keeper[k].picked
             THEN late \cup {d} ELSE late
  /\ UNCHANGED <<keptEvents, radar, advisory, lost>>

\* A new observation of a pull request.
Toggles(p) ==
  /\ NewVersion
  /\ radar[p] # GoneRow
  /\ radar' = [radar EXCEPT ![p] = [old |-> FALSE, open |-> ~@.open]]
  /\ keeper' = Touched(p)
  /\ UNCHANGED <<keptEvents, dispatch, advisory, ghosts>>

-----------------------------------------------------------------------------
(* runRetention *)

\* startRetention: a process has one run at a time.
StartRun(k) ==
  /\ keeper[k] = IdleKeeper
  /\ advisory = {} /\ advisory' = {k}
  /\ keeper' = [keeper EXCEPT ![k] =
       [task |-> 1, batch |-> 0, deleting |-> FALSE, picked |-> {}]]
  /\ UNCHANGED <<keptEvents, dispatch, radar, updates, ghosts>>

ByAgeAlone(e) == keptEvents[e] # GoneRow /\ keptEvents[e].old

\* The condition of webhook events.
Unneeded(e) ==
  /\ keptEvents[e] # GoneRow /\ keptEvents[e].old /\ keptEvents[e].routed
  /\ \A d \in Dispatch : dispatch[d] # GoneRow /\ dispatch[d].of = e
                           => dispatch[d].status # "pending"

Expired(task) ==
  CASE task = "deliveries" ->
         {d \in Dispatch : dispatch[d] # GoneRow /\ dispatch[d].old /\ dispatch[d].status # "pending"}
    [] task = "events" -> {e \in Announced : Unneeded(e)}
    [] task = "signals" -> {p \in RadarPull : radar[p] # GoneRow /\ radar[p].old /\ ~radar[p].open}

\* The rows a statement's snapshot selects.
Pick(k) ==
  /\ keeper[k] # IdleKeeper /\ ~keeper[k].deleting
  /\ \E S \in SUBSET Expired(Tasks[keeper[k].task]) :
       /\ Cardinality(S) <= RowBatch
       /\ Cardinality(S) = RowBatch \/ S = Expired(Tasks[keeper[k].task])
       /\ keeper' = [keeper EXCEPT ![k].picked = S, ![k].deleting = TRUE]
  /\ UNCHANGED <<keptEvents, dispatch, radar, advisory, updates, ghosts>>

\* Deleting an event deletes its deliveries with it.
Gone(S) == S \cup {d \in Dispatch : dispatch[d] # GoneRow /\ dispatch[d].of \in S}

Needed(S) ==
  {e \in S \cap Announced : ~keptEvents[e].routed}
    \cup {d \in Gone(S) \cap Dispatch : dispatch[d].status = "pending"}
    \cup {p \in S \cap RadarPull : radar[p].open}

\* A short batch, or the last one, ends the table; the last table ends the run.
Delete(k) ==
  /\ keeper[k] # IdleKeeper /\ keeper[k].deleting
  /\ LET S    == {r \in keeper[k].picked :
                    r \in Announced \/ (r \in Dispatch /\ dispatch[r] # GoneRow) \/ r \in RadarPull}
         more == Cardinality(S) = RowBatch /\ keeper[k].batch + 1 < MaxBatches
         last == keeper[k].task = Len(Tasks)
     IN /\ lost' = lost \cup Needed(S)
        /\ keptEvents' = [e \in Announced |-> IF e \in S THEN GoneRow ELSE keptEvents[e]]
        /\ dispatch' = [d \in Dispatch |-> IF d \in Gone(S) THEN GoneRow ELSE dispatch[d]]
        /\ radar' = [p \in RadarPull |-> IF p \in S THEN GoneRow ELSE radar[p]]
        /\ \/ /\ more \/ ~last
              /\ keeper' = [keeper EXCEPT ![k] =
                   [task |-> IF more THEN @.task ELSE @.task + 1,
                    batch |-> IF more THEN @.batch + 1 ELSE 0,
                    deleting |-> FALSE, picked |-> {}]]
              /\ UNCHANGED advisory
           \/ /\ ~more /\ last
              /\ keeper' = [keeper EXCEPT ![k] = IdleKeeper]
              /\ advisory' = advisory \ {k}
  /\ UNCHANGED <<updates, late>>

\* A statement fails or the process dies: the connection goes, and the lock with it.
RunFails(k) ==
  /\ keeper[k] # IdleKeeper
  /\ keeper' = [keeper EXCEPT ![k] = IdleKeeper]
  /\ advisory' = advisory \ {k}
  /\ UNCHANGED <<keptEvents, dispatch, radar, updates, ghosts>>

RetentionNext ==
  \/ Passes
  \/ \E e \in Announced, D \in SUBSET Dispatch : Routes(e, D)
  \/ \E d \in Dispatch : Finishes(d) \/ Redeliver(d)
  \/ \E p \in RadarPull : Toggles(p)
  \/ \E k \in Keeper : StartRun(k) \/ Pick(k) \/ Delete(k) \/ RunFails(k)

RetentionSpec == RetentionInit /\ [][RetentionNext]_retentionVars

-----------------------------------------------------------------------------
(* The job deletes no event before it was routed, no delivery that is to   *)
(* be sent, unless it was queued again after the statement that deletes    *)
(* its event had looked, and no open pull request; and only one replica    *)
(* runs it.  (maintenance.ts tasks, runRetention)                          *)
RetentionSafe ==
  /\ lost \subseteq late
  /\ Cardinality({k \in Keeper : keeper[k] # IdleKeeper}) <= 1
=============================================================================
