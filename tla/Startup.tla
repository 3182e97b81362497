------------------------------ MODULE Startup ------------------------------
(***************************************************************************)
(* Processes of several releases start and stop on one database: servers   *)
(* (index.ts), the migration command (migrate.ts) and the import of a      *)
(* legacy file (import-json.ts).  Each brings the schema up to the         *)
(* migrations its release knows (postgres-store.ts migrate, migrations.ts) *)
(* before it does anything else, and a server runs only with a complete    *)
(* configuration (runtime-config.ts, authConfigFromEnv).                   *)
(***************************************************************************)
EXTENDS Naturals, FiniteSets

CONSTANTS
  Process, NoProcess,
  Releases,      \* releases by the number of migrations each ships
  MaxStarts      \* bound: processes started

ASSUME StartupAssumption ==
  /\ NoProcess \notin Process
  /\ Releases \subseteq Nat \ {0} /\ MaxStarts \in Nat
  /\ \E n \in Releases : \A m \in Releases : m <= n

VARIABLES
  applied,       \* ship_live_schema_migrations, with how often each was run
  migrating,     \* the holder of the advisory lock
  process,
  port,          \* the server that listens
  starts

startupVars == <<applied, migrating, process, port, starts>>

-----------------------------------------------------------------------------
Migration == 1 .. CHOOSE n \in Releases : \A m \in Releases : m <= n

\* The environment, by what is set and valid; without a database or a port nothing starts.
Whole == [signIn |-> "all", github |-> "all", key |-> TRUE]

Environments ==
  {Whole, [Whole EXCEPT !.key = FALSE]}
  \cup {[Whole EXCEPT !.signIn = x] : x \in {"none", "part"}}
  \cup {[Whole EXCEPT !.github = x] : x \in {"none", "part"}}

Off == [at |-> "off"]

Kinds == {"server", "migrate", "import"}

\* saw: the migrations it found applied; done: those it has run in its transaction.
Started ==
  [at : {"connect", "lock", "migrate", "listen", "configure", "work", "serve", "stop"},
   kind : Kinds, release : Releases, env : Environments, saw : SUBSET Migration,
   done : SUBSET Migration, workers : BOOLEAN, pool : BOOLEAN]

StartupTypeOK ==
  /\ applied \in [Migration -> 0 .. 2]
  /\ migrating \in Process \cup {NoProcess}
  /\ process \in [Process -> Started \cup {Off}]
  /\ port \in Process \cup {NoProcess}
  /\ starts \in 0 .. MaxStarts

StartupInit ==
  /\ applied = [m \in Migration |-> 0]
  /\ migrating = NoProcess
  /\ process = [p \in Process |-> Off]
  /\ port = NoProcess
  /\ starts = 0

-----------------------------------------------------------------------------
SchemaVersions == {m \in Migration : applied[m] > 0}

At(p, step) == process[p].at = step

\* import-json reads and validates its whole file before it opens the database.
Launch(p, kind, release, env) ==
  /\ At(p, "off") /\ starts < MaxStarts /\ starts' = starts + 1
  /\ kind = "server" \/ env = Whole
  /\ process' = [process EXCEPT ![p] =
       [at |-> "connect", kind |-> kind, release |-> release, env |-> env, saw |-> {},
        done |-> {}, workers |-> FALSE, pool |-> FALSE]]
  /\ UNCHANGED <<applied, migrating, port>>

\* The end of a process, whatever it was doing: its transaction is rolled back.
Ended(p) ==
  /\ process' = [process EXCEPT ![p] = Off]
  /\ migrating' = IF migrating = p THEN NoProcess ELSE migrating
  /\ port' = IF port = p THEN NoProcess ELSE port
  /\ UNCHANGED <<applied, starts>>

Crash(p) == ~At(p, "off") /\ Ended(p)

OpenPool(p) ==
  /\ At(p, "connect")
  /\ process' = [process EXCEPT ![p].at = "lock", ![p].pool = TRUE]
  /\ UNCHANGED <<applied, migrating, port, starts>>

\* pg_advisory_xact_lock, and then the versions applied.
LockSchema(p) ==
  /\ At(p, "lock") /\ migrating = NoProcess
  /\ migrating' = p
  /\ process' = [process EXCEPT ![p].at = "migrate", ![p].saw = SchemaVersions]
  /\ UNCHANGED <<applied, port, starts>>

\* MAX_SUPPORTED_SCHEMA_VERSION: a release may run on the schema of the next one.
Supported(release, versions) == \A v \in versions : v <= release + 1

RefuseSchema(p) ==
  /\ At(p, "migrate") /\ ~Supported(process[p].release, process[p].saw)
  /\ Ended(p)

Missing(p) == (1 .. process[p].release) \ (process[p].saw \cup process[p].done)

Migrate(p) ==
  /\ At(p, "migrate") /\ Supported(process[p].release, process[p].saw)
  /\ \E m \in Missing(p) :
       /\ \A n \in Missing(p) : m <= n
       /\ process' = [process EXCEPT ![p].done = @ \cup {m}]
  /\ UNCHANGED <<applied, migrating, port, starts>>

CommitSchema(p) ==
  /\ At(p, "migrate") /\ Supported(process[p].release, process[p].saw) /\ Missing(p) = {}
  /\ applied' = [m \in Migration |-> IF m \in process[p].done THEN applied[m] + 1 ELSE applied[m]]
  /\ migrating' = NoProcess
  /\ process' = [process EXCEPT ![p].at = "listen"]
  /\ UNCHANGED <<port, starts>>

\* notifications.start; then a command does its work and closes the store.
OpenStore(p) ==
  /\ At(p, "listen")
  /\ IF process[p].kind = "server"
     THEN /\ process' = [process EXCEPT ![p].at = "configure"]
          /\ UNCHANGED <<applied, migrating, port, starts>>
     ELSE Ended(p)

SignInConfigured(env) == env.signIn # "part"

GitHubConfigured(env) ==
  env.github = "none" \/ (env.github = "all" /\ env.signIn = "all" /\ env.key)

\* The store is closed when the configuration is incomplete.
RefuseConfiguration(p) ==
  /\ At(p, "configure")
  /\ ~SignInConfigured(process[p].env) \/ ~GitHubConfigured(process[p].env)
  /\ Ended(p)

StartWorkers(p) ==
  /\ At(p, "configure")
  /\ SignInConfigured(process[p].env) /\ GitHubConfigured(process[p].env)
  /\ process' = [process EXCEPT ![p].at = "work", ![p].workers = TRUE]
  /\ UNCHANGED <<applied, migrating, port, starts>>

\* A port in use stops the server again.
Listen(p) ==
  /\ At(p, "work")
  /\ IF port = NoProcess
     THEN port' = p /\ process' = [process EXCEPT ![p].at = "serve"]
     ELSE process' = [process EXCEPT ![p].at = "stop"] /\ UNCHANGED port
  /\ UNCHANGED <<applied, migrating, starts>>

\* stop: the server is closed first, then the workers, then the store.
Stop(p) ==
  /\ At(p, "serve")
  /\ process' = [process EXCEPT ![p].at = "stop"]
  /\ port' = NoProcess
  /\ UNCHANGED <<applied, migrating, starts>>

StopWorkers(p) ==
  /\ At(p, "stop") /\ process[p].workers
  /\ process' = [process EXCEPT ![p].workers = FALSE]
  /\ UNCHANGED <<applied, migrating, port, starts>>

CloseStore(p) ==
  /\ At(p, "stop") /\ ~process[p].workers /\ process[p].pool
  /\ process' = [process EXCEPT ![p].pool = FALSE]
  /\ UNCHANGED <<applied, migrating, port, starts>>

Exit(p) == At(p, "stop") /\ ~process[p].pool /\ Ended(p)

StartupNext ==
  \E p \in Process :
    \/ \E kind \in Kinds, release \in Releases, env \in Environments :
         Launch(p, kind, release, env)
    \/ Crash(p) \/ OpenPool(p) \/ LockSchema(p) \/ RefuseSchema(p) \/ Migrate(p)
    \/ CommitSchema(p) \/ OpenStore(p) \/ RefuseConfiguration(p) \/ StartWorkers(p)
    \/ Listen(p) \/ Stop(p) \/ StopWorkers(p) \/ CloseStore(p) \/ Exit(p)

StartupSpec == StartupInit /\ [][StartupNext]_startupVars

-----------------------------------------------------------------------------
(* Every migration runs once, in order and without gaps, however many      *)
(* processes start and crash; one that has opened the database found a     *)
(* schema at most one release newer and brought it up to its own; a server *)
(* with GitHub connections has sign-in and the key for its tokens.         *)
(* (postgres-store.ts migrate; migrations.ts; index.ts main)               *)
StartupSafe ==
  /\ \A m \in Migration : applied[m] <= 1
  /\ \A m \in SchemaVersions : 1 .. m \subseteq SchemaVersions
  /\ \A p \in Process : process[p].at \in {"listen", "configure", "work", "serve", "stop"} =>
       /\ 1 .. process[p].release \subseteq SchemaVersions
       /\ \A v \in process[p].saw : v <= process[p].release + 1
  /\ \A p \in Process : ~At(p, "off") /\ process[p].workers =>
       /\ process[p].pool
       /\ process[p].env.github = "all" => process[p].env.signIn = "all" /\ process[p].env.key

-----------------------------------------------------------------------------
(***************************************************************************)
(* The import of a legacy file into the activity of several organizations  *)
(* in one transaction (legacy-import.ts, postgres-store.ts importLegacy),  *)
(* while webhooks merge events and other imports run: what each waits for, *)
(* what it adds and what it reports.  One event of each organization.      *)
(***************************************************************************)
CONSTANTS
  Organization,    \* in the order of their names
  OldDelivery,     \* delivery ids, in their order
  Copier, NoCopier, \* transactions
  MaxCopies        \* bound: transactions begun

ASSUME LegacyAssumption ==
  /\ Organization \cup OldDelivery \subseteq Nat
  /\ \E n \in Organization \cup OldDelivery : Organization \cup OldDelivery \subseteq 0 .. n
  /\ NoCopier \notin Copier /\ MaxCopies \in Nat

VARIABLES
  onRecord,        \* ship_live_events
  seen,            \* ship_live_deliveries
  guarded,         \* ship_live_organizations: protected
  copier,
  row,             \* who has inserted a delivery or locked an organization, uncommitted
  copies,
  claimed,         \* events and deliveries that committed transactions reported as new
  toldOf           \* organizations whose event a webhook has told of

legacyVars == <<onRecord, seen, guarded, copier, row, copies, claimed, toldOf>>

-----------------------------------------------------------------------------
Resting == [at |-> "free"]

NoEvent == [from |-> "none", restricted |-> FALSE]

Event == [from : {"file", "webhook"}, restricted : BOOLEAN]

\* records: the restricted events of each organization, and the others.
File == [open : SUBSET Organization, restricted : SUBSET Organization,
         deliveries : SUBSET OldDelivery, protect : SUBSET Organization]

CopyRows == ({"delivery"} \X OldDelivery) \cup ({"organization"} \X Organization)

Copying ==
  [at : {"deliveries", "organizations", "read", "write"}, kind : {"import", "merge"}, file : File,
   left : SUBSET CopyRows, new : SUBSET OldDelivery,
   found : [Organization -> Event \cup {NoEvent}]]

LegacyTypeOK ==
  /\ onRecord \in [Organization -> Event \cup {NoEvent}]
  /\ seen \subseteq OldDelivery /\ guarded \subseteq Organization
  /\ copier \in [Copier -> Copying \cup {Resting}]
  /\ row \in [CopyRows -> Copier \cup {NoCopier}]
  /\ copies \in 0 .. MaxCopies
  /\ claimed \in [events : [Organization -> Nat], deliveries : [OldDelivery -> Nat]]
  /\ toldOf \subseteq Organization

LegacyInit ==
  /\ onRecord = [o \in Organization |-> NoEvent]
  /\ seen = {} /\ guarded = {}
  /\ copier = [c \in Copier |-> Resting]
  /\ row = [r \in CopyRows |-> NoCopier]
  /\ copies = 0
  /\ claimed = [events |-> [o \in Organization |-> 0], deliveries |-> [d \in OldDelivery |-> 0]]
  /\ toldOf = {}

-----------------------------------------------------------------------------
TouchedBy(file) == file.open \cup file.restricted \cup file.protect

\* A record marked restricted protects its whole organization.
Protects(file) == file.protect \cup file.restricted

DeliveryRows(file) == {"delivery"} \X file.deliveries
OrganizationRows(file) == {"organization"} \X TouchedBy(file)

MayBegin(c) == copier[c] = Resting /\ copies < MaxCopies

BeginCopy(c, kind, file) ==
  /\ copies' = copies + 1
  /\ copier' = [copier EXCEPT ![c] = [at |-> "deliveries", kind |-> kind, file |-> file,
                                      left |-> DeliveryRows(file), new |-> {},
                                      found |-> [o \in Organization |-> NoEvent]]]
  /\ UNCHANGED <<onRecord, seen, guarded, row, claimed, toldOf>>

\* parseLegacyImport reads a file whole, or the import does not begin; to protect an
\* organization whose event is restricted says nothing new.
FilesRead ==
  {file \in File : /\ TouchedBy(file) # {}
                   /\ file.open \cap file.restricted = {} /\ file.protect \cap file.restricted = {}}

BeginImport(c) == MayBegin(c) /\ \E file \in FilesRead : BeginCopy(c, "import", file)

\* merge: one delivery, one organization.
BeginMerge(c, o, d, restricted) ==
  /\ MayBegin(c)
  /\ BeginCopy(c, "merge", [open |-> IF restricted THEN {} ELSE {o},
                            restricted |-> IF restricted THEN {o} ELSE {},
                            deliveries |-> {d}, protect |-> {}])

\* Both sets of rows are taken in order.
Turn(c) ==
  {r \in copier[c].left : \A q \in copier[c].left : r[2] <= q[2]}

Waits(c, r) == row[r] \notin {NoCopier, c}

\* INSERT ... ON CONFLICT DO NOTHING waits for one inserted but not committed.
InsertDelivery(c) ==
  /\ copier[c].at = "deliveries"
  /\ \E r \in Turn(c) :
       /\ ~Waits(c, r)
       /\ IF r[2] \in seen
          THEN /\ copier' = IF copier[c].kind = "merge"
                            THEN [copier EXCEPT ![c] = Resting]
                            ELSE [copier EXCEPT ![c].left = @ \ {r}]
               /\ UNCHANGED row
          ELSE /\ copier' = [copier EXCEPT ![c].left = @ \ {r}, ![c].new = @ \cup {r[2]}]
               /\ row' = [row EXCEPT ![r] = c]
  /\ UNCHANGED <<onRecord, seen, guarded, copies, claimed, toldOf>>

Deliveries(c) ==
  /\ copier[c].at = "deliveries" /\ copier[c].left = {}
  /\ copier' = [copier EXCEPT ![c].at = "organizations",
                              ![c].left = OrganizationRows(copier[c].file)]
  /\ UNCHANGED <<onRecord, seen, guarded, row, copies, claimed, toldOf>>

\* lockOrganization
LockNext(c) ==
  /\ copier[c].at = "organizations"
  /\ \E r \in Turn(c) :
       /\ ~Waits(c, r)
       /\ row' = [row EXCEPT ![r] = c]
       /\ copier' = [copier EXCEPT ![c].left = @ \ {r},
                                   ![c].at = IF copier[c].left = {r} THEN "read" ELSE @]
  /\ UNCHANGED <<onRecord, seen, guarded, copies, claimed, toldOf>>

Release(c) ==
  /\ copier' = [copier EXCEPT ![c] = Resting]
  /\ row' = [r \in CopyRows |-> IF row[r] = c THEN NoCopier ELSE row[r]]

\* selectEvent: an import keeps what is there; either keeps a restriction.
Chosen(c, o) ==
  LET file  == copier[c].file
      found == copier[c].found[o]
      restricted == o \in file.restricted \/ found.restricted
  IN IF copier[c].kind = "import" /\ found # NoEvent
     THEN [found EXCEPT !.restricted = restricted]
     ELSE [from |-> IF copier[c].kind = "import" THEN "file" ELSE "webhook",
           restricted |-> restricted]

\* writeEvents reads what is there first.
ReadKept(c) ==
  /\ copier[c].at = "read"
  /\ copier' = [copier EXCEPT ![c].at = "write",
                 ![c].found = [o \in Organization |->
                   IF o \in copier[c].file.open \cup copier[c].file.restricted
                   THEN onRecord[o] ELSE NoEvent]]
  /\ UNCHANGED <<onRecord, seen, guarded, row, copies, claimed, toldOf>>

\* The rest of writeEvents, with what the transaction has locked, and its commit.
WriteCopy(c) ==
  /\ copier[c].at = "write"
  /\ LET file   == copier[c].file
         events == file.open \cup file.restricted
     IN /\ onRecord' = [o \in Organization |-> IF o \in events THEN Chosen(c, o) ELSE onRecord[o]]
        /\ seen' = seen \cup copier[c].new
        /\ guarded' = guarded \cup Protects(file)
        /\ claimed' = [events |-> [o \in Organization |->
                         claimed.events[o] + IF o \in events /\ copier[c].found[o] = NoEvent THEN 1 ELSE 0],
                       deliveries |-> [d \in OldDelivery |->
                         claimed.deliveries[d] + IF d \in copier[c].new THEN 1 ELSE 0]]
        /\ toldOf' = IF copier[c].kind = "merge" THEN toldOf \cup events ELSE toldOf
  /\ Release(c)
  /\ UNCHANGED copies

\* An error anywhere rolls everything back.
CopyFails(c) ==
  /\ copier[c] # Resting /\ Release(c)
  /\ UNCHANGED <<onRecord, seen, guarded, copies, claimed, toldOf>>

LegacyNext ==
  \E c \in Copier :
    \/ BeginImport(c)
    \/ \E o \in Organization, d \in OldDelivery, restricted \in BOOLEAN :
         BeginMerge(c, o, d, restricted)
    \/ InsertDelivery(c) \/ Deliveries(c) \/ LockNext(c) \/ ReadKept(c)
    \/ WriteCopy(c) \/ CopyFails(c)

LegacySpec == LegacyInit /\ [][LegacyNext]_legacyVars

-----------------------------------------------------------------------------
Stuck(c) ==
  /\ copier[c] # Resting /\ copier[c].left # {}
  /\ \A r \in Turn(c) : Waits(c, r)

(***************************************************************************)
(* The transactions never all wait for each other; every event and         *)
(* delivery on record was reported as new by exactly one, so an import repeated *)
(* reports nothing; what a webhook told of is never what a file says; and  *)
(* a restricted event is on record only in a protected organization.            *)
(* (postgres-store.ts importLegacy, merge, writeEvents)                    *)
(***************************************************************************)
LegacySafe ==
  /\ (\E c \in Copier : copier[c] # Resting) => \E c \in Copier : copier[c] # Resting /\ ~Stuck(c)
  /\ \A o \in Organization : claimed.events[o] = IF onRecord[o] = NoEvent THEN 0 ELSE 1
  /\ \A d \in OldDelivery : claimed.deliveries[d] = IF d \in seen THEN 1 ELSE 0
  /\ \A o \in toldOf : onRecord[o].from = "webhook"
  /\ \A o \in Organization : onRecord[o].restricted => o \in guarded
=============================================================================
