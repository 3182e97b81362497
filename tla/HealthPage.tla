------------------------------ MODULE HealthPage ------------------------------
(***************************************************************************)
(* The Service Health page of one tab (ServiceHealth.tsx) with its rate-   *)
(* limited refresh (health-refresh.ts) and the order of the services in    *)
(* the database (health-store.ts): reordering by drag and drop, adding and *)
(* deleting, while others do the same and snapshots arrive.  A change is   *)
(* told by a notification that may be lost: the LISTEN connection of the   *)
(* stream's replica may be down (postgres-notifications.ts), and a delete  *)
(* sends its own in a second statement, which may never be reached.        *)
(***************************************************************************)
EXTENDS Naturals, FiniteSets

CONSTANTS
  Service,
  ServiceCap,       \* services a workspace may have (20)
  MaxListed         \* bound: changes of the services

ASSUME HealthPageAssumption == {ServiceCap, MaxListed} \subseteq Nat

VARIABLES
  services,      \* ship_live_health_services: the order, and the number of changes so far
  allowed,       \* the reader may see the workspace
  wire,          \* the page's event stream
  notice,        \* of each change: its notification; history: that it was lost
  shown,         \* the page's snapshot
  queued,        \* queuedSnapshot
  drag,          \* beforeDrag
  version,       \* snapshotVersion
  refresh,       \* createHealthRefresh: its pending flag, its load and whether the interval runs
  mutation,      \* the mutation under way
  outdated,      \* loadError
  revoked,       \* accessRevoked
  saved          \* the last order this page saw saved

healthPageVars == <<services, allowed, wire, notice, shown, queued, drag, version, refresh,
                    mutation, outdated, revoked, saved>>
serverVars == <<services, allowed, wire, notice>>

-----------------------------------------------------------------------------
(* An order of services: which of them come at or before which. *)

ServicesOf(order) == {s \in Service : <<s, s>> \in order}

IsOrder(order) ==
  /\ order \subseteq ServicesOf(order) \X ServicesOf(order)
  /\ \A s, t \in ServicesOf(order) :
       /\ <<s, t>> \in order \/ <<t, s>> \in order
       /\ <<s, t>> \in order /\ <<t, s>> \in order => s = t
       /\ \A u \in ServicesOf(order) : <<s, t>> \in order /\ <<t, u>> \in order => <<s, u>> \in order

Orders == {order \in SUBSET (Service \X Service) : IsOrder(order)}

\* The order of some of them.
Among(order, some) == order \cap (some \X some)

Listed == [order : Orders, at : 0 .. MaxListed]

Nothing == [is |-> "none"]

ChangeNo == 1 .. MaxListed
\* none: not made, or its notification is of no concern; due: its statement has not run;
\* lost: on its way to an open stream, since the page last asked for a load.
Notice == {"none", "due", "sent", "lost"}

MutationAt == {"sent", "done", "refused"}
OrderMutation == [kind : {"order"}, order : Orders, at : MutationAt, took : 0 .. MaxListed]
OtherMutation == [kind : {"create", "delete"}, id : Service, at : MutationAt, took : 0 .. MaxListed]
Mutation == OrderMutation \cup OtherMutation

Loading == [at : {"sent", "read"}, version : 0 .. MaxListed + 1, list : Listed]
NotRead == [order |-> {}, at |-> 0]   \* the list of a load that is still to be read

HealthPageTypeOK ==
  /\ services \in Listed /\ allowed \in BOOLEAN
  /\ wire \in {"open", "down"} /\ notice \in [ChangeNo -> Notice]
  /\ shown = Nothing \/ shown \in Listed
  /\ queued = Nothing \/ queued \in Listed
  /\ drag = Nothing \/ drag \in [before : Listed]
  /\ version \in 0 .. MaxListed + 1
  /\ refresh.pending \in BOOLEAN /\ refresh.cool \in BOOLEAN
  /\ refresh.load = Nothing \/ refresh.load \in Loading
  /\ mutation = Nothing \/ mutation \in Mutation
  /\ outdated \in BOOLEAN /\ revoked \in BOOLEAN /\ saved \in Listed

-----------------------------------------------------------------------------
(* createHealthRefresh: loads start at least the interval apart, and a     *)
(* request made meanwhile is kept, even during a load.                     *)

Scheduled(r, v) ==
  IF r.pending /\ r.load = Nothing /\ ~r.cool
  THEN [pending |-> FALSE, cool |-> TRUE,
        load |-> [at |-> "sent", version |-> v, list |-> NotRead]]
  ELSE r

Requested(r, v) == Scheduled([r EXCEPT !.pending = TRUE], v)

\* The page asks for a load: what was lost before does not matter.
Forgiven(told) == [n \in ChangeNo |-> IF told[n] = "lost" THEN "none" ELSE told[n]]
AsksForLoad(told) == refresh' = Requested(refresh, version) /\ notice' = Forgiven(told)

Stopped == [pending |-> FALSE, load |-> Nothing, cool |-> FALSE]

HealthPageInit ==
  /\ \E s \in Orders : services = [order |-> s, at |-> 0]
  /\ allowed = TRUE /\ wire = "down" /\ notice = [n \in ChangeNo |-> "none"]
  /\ shown = Nothing /\ queued = Nothing /\ drag = Nothing
  /\ version = 0
  /\ refresh = Requested(Stopped, 0)
  /\ mutation = Nothing
  /\ outdated = FALSE /\ revoked = FALSE /\ saved = services

IntervalOver ==
  /\ refresh.cool
  /\ refresh' = Scheduled([refresh EXCEPT !.cool = FALSE], version)
  /\ UNCHANGED <<serverVars, shown, queued, drag, version, mutation, outdated, revoked, saved>>

\* The poll, the button, an opened or broken stream.
RequestNow ==
  /\ ~revoked /\ AsksForLoad(notice)
  /\ UNCHANGED <<services, allowed, wire, shown, queued, drag, version, mutation, outdated, revoked, saved>>

-----------------------------------------------------------------------------
(* The services. *)

\* reorderServices and createService lock the workspace; deleteService is one statement.
Outcomes(m) ==
  LET now == services.order
  IN CASE m.kind = "order" ->
            IF ServicesOf(m.order) = ServicesOf(now) THEN {m.order} ELSE {}
       [] m.kind = "create" ->
            IF Cardinality(ServicesOf(now)) < ServiceCap /\ m.id \notin ServicesOf(now)
            THEN {now \cup ((ServicesOf(now) \cup {m.id}) \X {m.id})} ELSE {}
       [] m.kind = "delete" ->
            IF m.id \in ServicesOf(now) THEN {Among(now, ServicesOf(now) \ {m.id})} ELSE {}

\* A notification matters if the page listens.
Heeded(n, what) == notice' = [notice EXCEPT ![n] = IF wire = "open" THEN what ELSE "none"]

\* The notification is sent in the transaction; deleteService sends it afterwards.
Commit(kind, order) ==
  /\ services.at < MaxListed
  /\ services' = [order |-> order, at |-> services.at + 1]
  /\ IF kind = "delete" THEN notice' = [notice EXCEPT ![services.at + 1] = "due"]
     ELSE Heeded(services.at + 1, "sent")
  /\ UNCHANGED <<allowed, wire>>

\* Another member's, or one that this page has given up.
OthersChange ==
  /\ \E m \in [kind : {"order"}, order : Orders] \cup [kind : {"create", "delete"}, id : Service] :
       \E after \in Outcomes(m) : after # services.order /\ Commit(m.kind, after)
  /\ UNCHANGED <<shown, queued, drag, version, refresh, mutation, outdated, revoked, saved>>

Tell(n) ==
  /\ notice[n] = "due" /\ Heeded(n, "sent")
  /\ UNCHANGED <<services, allowed, wire, shown, queued, drag, version, refresh, mutation,
                 outdated, revoked, saved>>

\* The change this page's own request has made.
Takes(n) == mutation # Nothing /\ mutation.at = "done" /\ mutation.took = n

\* The process or its connection fails between the two statements; so does the request.
TellFails(n) ==
  /\ notice[n] = "due" /\ Heeded(n, "lost")
  /\ mutation' = IF Takes(n) THEN [mutation EXCEPT !.at = "refused"] ELSE mutation
  /\ UNCHANGED <<services, allowed, wire, shown, queued, drag, version, refresh, outdated,
                 revoked, saved>>

\* Nobody listens: the connection is down when it is sent, and the stream is not told.
LoseNotice(n) ==
  /\ notice[n] = "sent" /\ Heeded(n, "lost")
  /\ UNCHANGED <<services, allowed, wire, shown, queued, drag, version, refresh, mutation,
                 outdated, revoked, saved>>

LoseHealthAccess ==
  /\ allowed /\ allowed' = FALSE
  /\ UNCHANGED <<services, wire, notice, shown, queued, drag, version, refresh, mutation,
                 outdated, revoked, saved>>

\* health-app.ts: the routes look at the access before they change anything.
ServerTakes ==
  /\ mutation # Nothing /\ mutation.at = "sent"
  /\ \/ /\ allowed
        /\ \E after \in Outcomes(mutation) :
             /\ Commit(mutation.kind, after)
             /\ mutation' = [mutation EXCEPT !.at = "done", !.took = services.at + 1]
     \/ /\ ~allowed \/ Outcomes(mutation) = {}
        /\ mutation' = [mutation EXCEPT !.at = "refused"]
        /\ UNCHANGED serverVars
  /\ UNCHANGED <<shown, queued, drag, version, refresh, outdated, revoked, saved>>

-----------------------------------------------------------------------------
(* The page hears, loads and is refused. *)

\* What a page without a stream is still to hear of.
Outstanding == [n \in ChangeNo |-> IF notice[n] = "due" THEN "due" ELSE "none"]

Revoked ==
  /\ revoked' = TRUE
  /\ shown' = Nothing /\ queued' = Nothing /\ drag' = Nothing
  /\ refresh' = Stopped
  /\ mutation' = Nothing
  /\ outdated' = FALSE
  /\ wire' = "down" /\ notice' = Outstanding

Hear(n) ==
  /\ notice[n] = "sent" /\ AsksForLoad([notice EXCEPT ![n] = "none"])
  /\ UNCHANGED <<services, allowed, wire, shown, queued, drag, version, mutation, outdated,
                 revoked, saved>>

\* A notification may be lost with the connection; both ends ask for a load.
StreamBreaks ==
  /\ wire = "open" /\ wire' = "down" /\ AsksForLoad(Outstanding)
  /\ UNCHANGED <<services, allowed, shown, queued, drag, version, mutation, outdated,
                 revoked, saved>>

StreamOpens ==
  /\ ~revoked /\ wire = "down"
  /\ IF allowed
     THEN /\ wire' = "open" /\ AsksForLoad(notice)
          /\ UNCHANGED <<shown, queued, drag, mutation, outdated, revoked>>
     ELSE Revoked
  /\ UNCHANGED <<services, allowed, version, saved>>

ReadSnapshot ==
  /\ refresh.load # Nothing /\ refresh.load.at = "sent"
  /\ refresh' = [refresh EXCEPT !.load.at = "read", !.load.list = services]
  /\ UNCHANGED <<serverVars, shown, queued, drag, version, mutation, outdated, revoked, saved>>

Loaded(r) == Scheduled([r EXCEPT !.load = Nothing], version)

\* A load begun before an order of this page was saved does not count.
CurrentVersion(load) == load.version = version

SnapshotAnswered ==
  /\ refresh.load # Nothing /\ refresh.load.at = "read" /\ allowed
  /\ IF CurrentVersion(refresh.load)
     THEN /\ IF drag # Nothing
             THEN queued' = refresh.load.list /\ UNCHANGED shown
             ELSE shown' = refresh.load.list /\ UNCHANGED queued
          /\ outdated' = FALSE
          /\ refresh' = Loaded(refresh) /\ UNCHANGED notice
     ELSE /\ refresh' = Loaded([refresh EXCEPT !.pending = TRUE]) /\ notice' = Forgiven(notice)
          /\ UNCHANGED <<shown, queued, outdated>>
  /\ UNCHANGED <<services, allowed, wire, drag, version, mutation, revoked, saved>>

\* Refused, or failed on the way.
SnapshotRefused ==
  /\ refresh.load # Nothing /\ ~allowed /\ Revoked
  /\ UNCHANGED <<services, allowed, version, saved>>

SnapshotFails ==
  /\ refresh.load # Nothing
  /\ outdated' = TRUE
  /\ refresh' = Loaded(refresh)
  /\ UNCHANGED <<serverVars, shown, queued, drag, version, mutation, revoked, saved>>

-----------------------------------------------------------------------------
(* The page changes the services; one mutation at a time. *)

\* A service that is shown is deleted; the id of one that is created is new.
AddOrDelete(kind, id) ==
  /\ shown # Nothing /\ mutation = Nothing /\ drag = Nothing
  /\ id \in ServicesOf(shown.order) <=> kind = "delete"
  /\ mutation' = [kind |-> kind, id |-> id, at |-> "sent", took |-> 0]
  /\ UNCHANGED <<serverVars, shown, queued, drag, version, refresh, outdated, revoked, saved>>

StartDrag ==
  /\ shown # Nothing /\ mutation = Nothing /\ drag = Nothing
  /\ Cardinality(ServicesOf(shown.order)) > 1
  /\ drag' = [before |-> shown]
  /\ UNCHANGED <<serverVars, shown, queued, version, refresh, mutation, outdated, revoked, saved>>

\* moveService: s is put where t is, behind it if it came before it.
Moved(order, s, t) ==
  LET others == ServicesOf(order) \ {s}
      ahead  == {u \in others : <<u, t>> \in order /\ (<<s, t>> \in order \/ u # t)}
  IN Among(order, others) \cup ((ahead \cup {s}) \X {s}) \cup ({s} \X (others \ ahead))

Drop(s, t) ==
  /\ drag # Nothing /\ mutation = Nothing
  /\ {s, t} \subseteq ServicesOf(drag.before.order) /\ s # t
  /\ LET order == Moved(drag.before.order, s, t)
     IN /\ shown' = [shown EXCEPT !.order = order]
        /\ mutation' = [kind |-> "order", order |-> order, at |-> "sent", took |-> 0]
  /\ UNCHANGED <<serverVars, queued, drag, version, refresh, outdated, revoked, saved>>

\* finishDrag
FinishDrag(snapshot) ==
  /\ drag' = Nothing /\ queued' = Nothing /\ shown' = snapshot

CancelDrag ==
  /\ drag # Nothing /\ mutation = Nothing
  /\ FinishDrag(IF queued = Nothing THEN shown ELSE queued)
  /\ UNCHANGED <<serverVars, version, refresh, mutation, outdated, revoked, saved>>

\* The queued snapshot's services in the order saved, new ones last.
Merged(order, fresh) ==
  LET known == ServicesOf(fresh) \cap ServicesOf(order)
      new   == ServicesOf(fresh) \ ServicesOf(order)
  IN Among(order, known) \cup Among(fresh, new) \cup (known \X new)

\* A delete is answered when its notification was sent.
MutationSaved ==
  /\ mutation # Nothing /\ mutation.at = "done" /\ mutation' = Nothing
  /\ notice[mutation.took] # "due"
  /\ IF mutation.kind = "order"
     THEN /\ version' = version + 1 /\ saved' = [order |-> mutation.order, at |-> mutation.took]
          /\ FinishDrag([order |-> IF queued = Nothing THEN mutation.order
                                   ELSE Merged(mutation.order, queued.order),
                         at |-> mutation.took])
     ELSE UNCHANGED <<version, saved, shown, queued, drag>>
  /\ refresh' = Requested(Requested(refresh, version), version')
  /\ notice' = Forgiven(notice)
  /\ UNCHANGED <<services, allowed, wire, outdated, revoked>>

\* Refused with 400, failed, or given up after 20 s, when it may have been saved.
MutationFails ==
  /\ mutation # Nothing /\ mutation' = Nothing
  /\ IF mutation.kind = "order"
     THEN /\ FinishDrag(IF queued = Nothing THEN drag.before ELSE queued)
          /\ AsksForLoad(notice)
     ELSE UNCHANGED <<notice, shown, queued, drag, refresh>>
  /\ UNCHANGED <<services, allowed, wire, version, outdated, revoked, saved>>

MutationRefused ==
  /\ mutation # Nothing /\ mutation.at = "refused" /\ ~allowed /\ Revoked
  /\ UNCHANGED <<services, allowed, version, saved>>

HealthPageNext ==
  \/ IntervalOver \/ RequestNow
  \/ OthersChange \/ LoseHealthAccess \/ ServerTakes
  \/ \E n \in ChangeNo : Tell(n) \/ TellFails(n) \/ LoseNotice(n) \/ Hear(n)
  \/ StreamBreaks \/ StreamOpens
  \/ ReadSnapshot \/ SnapshotAnswered \/ SnapshotRefused \/ SnapshotFails
  \/ \E kind \in {"create", "delete"}, id \in Service : AddOrDelete(kind, id)
  \/ StartDrag \/ CancelDrag
  \/ \E s, t \in Service : Drop(s, t)
  \/ MutationSaved \/ MutationFails \/ MutationRefused

HealthPageSpec == HealthPageInit /\ [][HealthPageNext]_healthPageVars

-----------------------------------------------------------------------------
\* Nothing is under way that would make the page load or change; its stream is open.
AtRest ==
  /\ ~refresh.pending /\ refresh.load = Nothing
  /\ wire = "open" /\ \A n \in ChangeNo : notice[n] # "sent"
  /\ mutation = Nothing /\ drag = Nothing /\ ~outdated /\ ~revoked

(* Once the page knows its order saved it never shows an earlier one; at   *)
(* rest it lacks a change only while its notification is due, or because   *)
(* that was lost after the page last asked for a load, which its poll does *)
(* again; and a page whose access is gone shows none.                      *)
(* (ServiceHealth.tsx load, mutate, finishDrag; health-refresh.ts)         *)
HealthPageSafe ==
  /\ shown # Nothing /\ drag = Nothing =>
       /\ shown.at >= saved.at
       /\ shown.at = saved.at =>
            Among(shown.order, ServicesOf(saved.order)) = Among(saved.order, ServicesOf(shown.order))
  /\ AtRest =>
       /\ shown # Nothing /\ shown.at <= services.at
       /\ \A n \in shown.at + 1 .. services.at : notice[n] \in {"due", "lost"}
       /\ shown.at = services.at => shown.order = services.order
  /\ revoked => shown = Nothing /\ queued = Nothing
=============================================================================
