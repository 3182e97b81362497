---------------------------- MODULE GitHubAccess ----------------------------
(***************************************************************************)
(* Who may read which repository of one installation.  A viewer's stored   *)
(* list is filled from GitHub by refreshes (workspace-app.ts, syncAccess)  *)
(* and cut by webhooks that report lost access (narrow in                  *)
(* workspace-store.ts).  A refresh reads GitHub outside any transaction,   *)
(* so its listing may be older than a cut: it is stored only under the     *)
(* grant's generation and access version it started from.                  *)
(*                                                                         *)
(* Transactions are READ COMMITTED and appear statement by statement where *)
(* they may wait for each other: a refresh locks the connection and then   *)
(* replaces the access row, a narrowing rewrites access rows and then      *)
(* updates connections.                                                    *)
(***************************************************************************)
EXTENDS Naturals, FiniteSets, SequencesExt

CONSTANTS
  User, NoUser,
  Repo,           \* the repositories of the installation
  Worker,         \* background refreshes at once (REFRESH_WORKERS)
  Handler,        \* requests being handled: refreshes people ask for, webhooks
  MaxAttempts,    \* listings a refresh reads before it gives up
  MaxChanges,     \* bound: changes on GitHub, each with its webhook
  MaxActs         \* bound: connects, disconnects, requested refreshes and crashes

ASSUME AccessAssumption ==
  /\ NoUser \notin User
  /\ IsFiniteSet(User)
  /\ Worker \cap Handler = {}
  /\ MaxAttempts \in Nat \ {0}
  /\ MaxChanges \in Nat /\ MaxActs \in Nat

VARIABLES
  allowed,      \* GitHub: what each user may read
  selection,    \* GitHub: the repositories the installation was given
  webhook,      \* webhooks GitHub has sent about it
  accepted,     \* ship_live_deliveries
  connection,   \* ship_live_github_connections
  access,       \* ship_live_github_access
  active,       \* ship_live_installations.active
  job,          \* the refresh or the webhook that each worker and handler runs
  backlog,      \* refreshBacklog; queuedRefreshes holds its members
  grants, acts,
  unread        \* history: users with an applied change and no listing begun since

github == <<allowed, selection, webhook>>
store  == <<accepted, connection, access, active>>
vars   == <<github, store, job, backlog, grants, acts, unread>>

-----------------------------------------------------------------------------
Job == Worker \cup Handler

\* What a webhook says: whose access changed (nobody's: a team's or everyone's), the
\* repositories it takes away, and whether access is dropped before GitHub confirms.
Change == [about : {"member", "team", "selection", "installation", "authorization"},
           user : User \cup {NoUser}, cut : SUBSET Repo, removal : BOOLEAN]
NotSent == [about |-> "nothing"]

NoConnection == [generation |-> 0]
Connection   == [generation : 1 .. MaxActs, version : Nat, synced : BOOLEAN]
Connected(u) == connection[u] # NoConnection

NoRow     == [generation |-> 0]
AccessRow == [generation : 1 .. MaxActs, repos : SUBSET Repo]
HasRow(u) == access[u] # NoRow

Idle == [is |-> "idle"]
\* syncAccess: what it read so far; fenced and since are history.
Refresh ==
  [is : {"refresh"}, step : {"connection", "token", "list", "check", "write", "commit"},
   user : User, attempt : 1 .. MaxAttempts, generation : 0 .. MaxActs, version : Nat,
   list : SUBSET Repo,
   fenced : SUBSET Repo,   \* cut since it was read, by narrowings that found a row
   since  : SUBSET Repo]   \* cut since it was read
\* narrow: what it takes from whom, the rows its statement still has to rewrite, those
\* it has rewritten, the connections it has updated, and whom to refresh afterwards.
Narrow ==
  [is : {"narrow"}, step : {"read", "start", "rows", "bump"}, change : Change,
   cut : SUBSET Repo, direct : User \cup {NoUser}, left : SUBSET User,
   returned : SUBSET User, bumped : SUBSET User, after : SUBSET User]

Refreshing(j) == job[j].is = "refresh"
Narrowing(j)  == job[j].is = "narrow"

TypeOK ==
  /\ allowed \in [User -> SUBSET Repo] /\ selection \in SUBSET Repo
  /\ webhook \in [1 .. MaxChanges -> Change \cup {NotSent}]
  /\ accepted \in SUBSET (1 .. MaxChanges)
  /\ connection \in [User -> Connection \cup {NoConnection}]
  /\ access \in [User -> AccessRow \cup {NoRow}]
  /\ active \in BOOLEAN
  /\ job \in [Job -> Refresh \cup Narrow \cup {Idle}]
  /\ backlog \in Seq(User)
  /\ grants \in 0 .. MaxActs /\ acts \in 0 .. MaxActs
  /\ unread \in SUBSET User

Init ==
  /\ allowed = [u \in User |-> Repo] /\ selection = Repo
  /\ webhook = [w \in 1 .. MaxChanges |-> NotSent]
  /\ accepted = {}
  /\ connection = [u \in User |-> NoConnection]
  /\ access = [u \in User |-> NoRow]
  /\ active = TRUE
  /\ job = [j \in Job |-> Idle]
  /\ backlog = <<>>
  /\ grants = 0 /\ acts = 0
  /\ unread = {}

-----------------------------------------------------------------------------
(* GitHub.  Each change is told by one webhook, which may arrive late or never. *)

Send(c) ==
  \E w \in 1 .. MaxChanges :
    /\ webhook[w] = NotSent /\ \A v \in 1 .. w - 1 : webhook[v] # NotSent
    /\ webhook' = [webhook EXCEPT ![w] = c]
    /\ UNCHANGED <<store, job, backlog, grants, acts, unread>>

\* organization, membership and member webhooks name a user; one that names no
\* repository stands for all.
MemberChanges(u, S, removal) ==
  /\ allowed' = [allowed EXCEPT ![u] = IF removal THEN @ \ S ELSE @ \cup S]
  /\ Send([about |-> "member", user |-> u, cut |-> IF removal THEN S ELSE {},
           removal |-> removal])
  /\ UNCHANGED selection

\* team webhooks name a repository and no user; a deleted team names neither, and is
\* not a removal.
TeamChanges(U, S, named) ==
  /\ allowed' = [u \in User |-> IF u \in U THEN allowed[u] \ S ELSE allowed[u]]
  /\ Send([about |-> "team", user |-> NoUser, cut |-> IF named THEN S ELSE {},
           removal |-> named])
  /\ UNCHANGED selection

\* installation_repositories; the list of removed repositories can be empty.
SelectionChanges(S, named) ==
  /\ selection' \in {selection \ S, selection \cup S}
  /\ Send([about |-> "selection", user |-> NoUser,
           cut |-> IF named THEN S \ selection' ELSE {}, removal |-> TRUE])
  /\ UNCHANGED allowed

\* installation deleted, suspend and unsuspend.
InstallationChanges(suspended) ==
  /\ Send([about |-> "installation", user |-> NoUser, cut |-> {}, removal |-> suspended])
  /\ UNCHANGED <<allowed, selection>>

\* github_app_authorization revoked.
AuthorizationRevoked(u) ==
  /\ Send([about |-> "authorization", user |-> u, cut |-> {}, removal |-> TRUE])
  /\ UNCHANGED <<allowed, selection>>

GitHub ==
  \/ \E u \in User, S \in SUBSET Repo \ {{}}, b \in BOOLEAN : MemberChanges(u, S, b)
  \/ \E U \in SUBSET User \ {{}}, S \in SUBSET Repo \ {{}}, b \in BOOLEAN :
       TeamChanges(U, S, b)
  \/ \E S \in SUBSET Repo \ {{}}, b \in BOOLEAN : SelectionChanges(S, b)
  \/ \E b \in BOOLEAN : InstallationChanges(b)
  \/ \E u \in User : AuthorizationRevoked(u)

\* What GitHub lists for a user token; an installation with nothing to read is left out.
Listing(u) == allowed[u] \cap selection

-----------------------------------------------------------------------------
(* Row locks, as the transactions of the jobs hold them. *)

HoldsConnection(j, u) ==
  \/ Refreshing(j) /\ job[j].user = u /\ job[j].step \in {"write", "commit"}
  \/ Narrowing(j) /\ u \in job[j].bumped
HoldsAccess(j, u) ==
  \/ Refreshing(j) /\ job[j].user = u /\ job[j].step = "commit"
  \/ Narrowing(j) /\ u \in job[j].returned

Unlocked(u) == \A j \in Job : ~HoldsConnection(j, u) /\ ~HoldsAccess(j, u)

\* The rows a job's next statement must have to go on, with the job that has each.
Bumps(j) == {u \in job[j].returned \cup {job[j].direct} : u \in User /\ Connected(u)}
WaitsFor(j, k) ==
  /\ j # k
  /\ \/ /\ Refreshing(j) /\ job[j].step = "check"
        /\ HoldsConnection(k, job[j].user)
     \/ /\ Refreshing(j) /\ job[j].step = "write"
        /\ HoldsAccess(k, job[j].user)
     \/ /\ Narrowing(j) /\ job[j].step = "rows"
        /\ \E u \in job[j].left : HoldsAccess(k, u)
     \/ /\ Narrowing(j) /\ job[j].step = "bump"
        /\ \E u \in Bumps(j) \ job[j].bumped : HoldsConnection(k, u)

-----------------------------------------------------------------------------
(* Grants. *)

Act == acts < MaxActs /\ acts' = acts + 1

\* The row and, by its foreign key, the access rows; a row that is gone is no longer
\* among those a running statement still has to rewrite.
Without(u, jobs) ==
  [j \in Job |-> IF jobs[j].is = "narrow" THEN [jobs[j] EXCEPT !.left = @ \ {u}]
                                          ELSE jobs[j]]

DisconnectWith(u, jobs) ==
  /\ Unlocked(u)
  /\ connection' = [connection EXCEPT ![u] = NoConnection]
  /\ access' = [access EXCEPT ![u] = NoRow]
  /\ job' = Without(u, jobs)

Disconnect(u) ==
  /\ Act /\ Connected(u)
  /\ DisconnectWith(u, job)
  /\ UNCHANGED <<github, accepted, active, backlog, grants, unread>>

\* writeGrant: a new generation, unsynced and without access rows; the access version
\* of a connection that is there already goes on.
Connect(u) ==
  /\ Act /\ grants' = grants + 1
  /\ Unlocked(u)
  /\ access' = [access EXCEPT ![u] = NoRow]
  /\ connection' = [connection EXCEPT ![u] =
       [generation |-> grants + 1, version |-> IF Connected(u) THEN @.version ELSE 0,
        synced |-> FALSE]]
  /\ job' = Without(u, job)
  /\ UNCHANGED <<github, accepted, active, backlog, unread>>

-----------------------------------------------------------------------------
(* Refreshes. *)

NewRefresh(u) ==
  [is |-> "refresh", step |-> "connection", user |-> u, attempt |-> 1, generation |-> 0,
   version |-> 0, list |-> {}, fenced |-> {}, since |-> {}]

InQueue == Range(backlog)

\* refreshAccess: connecting, the refresh button, a sync, the first snapshot.
RequestRefresh(j, u) ==
  /\ Act
  /\ j \in Handler /\ job[j] = Idle /\ Connected(u)
  /\ job' = [job EXCEPT ![j] = NewRefresh(u)]
  /\ UNCHANGED <<github, store, backlog, grants, unread>>

ScheduleOnce(U) ==
  backlog' = backlog \o SetToSeq({u \in U \ InQueue :
                        \A j \in Job : ~(Refreshing(j) /\ job[j].user = u)})

\* scheduleRefresh; a user leaves queuedRefreshes when the refresh starts.
Schedule(U) == backlog' = backlog \o SetToSeq(U \ InQueue)

Drain(j) ==
  /\ j \in Worker /\ job[j] = Idle /\ backlog # <<>>
  /\ job' = [job EXCEPT ![j] = NewRefresh(Head(backlog))]
  /\ backlog' = Tail(backlog)
  /\ UNCHANGED <<github, store, grants, acts, unread>>

Goes(j, step) == job' = [job EXCEPT ![j].step = step]

\* A background refresh only logs its failure; a request answers with it.
Ends(j) ==
  /\ job' = [job EXCEPT ![j] = Idle]
  /\ unread' = unread \ {job[j].user}

ReadConnection(j) ==
  /\ Refreshing(j) /\ job[j].step = "connection"
  /\ IF Connected(job[j].user)
     THEN /\ job' = [job EXCEPT ![j].step = "token",
                               ![j].generation = connection[job[j].user].generation,
                               ![j].version = connection[job[j].user].version]
          /\ UNCHANGED unread
     ELSE Ends(j)
  /\ UNCHANGED <<github, store, backlog, grants, acts>>

\* withGrant: the stored token, or a new pair; when it cannot tell whether the pair was
\* rotated, the user is disconnected.
Token(j) ==
  /\ Refreshing(j) /\ job[j].step = "token"
  /\ LET u == job[j].user IN
     /\ Unlocked(u)
     /\ \/ /\ Connected(u) /\ Goes(j, "list")
           /\ UNCHANGED <<connection, access, unread>>
        \/ /\ DisconnectWith(u, [job EXCEPT ![j] = Idle])
           /\ unread' = unread \ {u}
  /\ UNCHANGED <<github, accepted, active, backlog, grants, acts>>

ReadListing(j) ==
  /\ Refreshing(j) /\ job[j].step = "list"
  /\ job' = [job EXCEPT ![j].step = "check", ![j].list = Listing(job[j].user),
                       ![j].fenced = {}, ![j].since = {}]
  /\ unread' = unread \ {job[j].user}
  /\ UNCHANGED <<github, store, backlog, grants, acts>>

\* GitHub fails, or the session of the request was revoked meanwhile (beforeSave).
RefreshFails(j) ==
  /\ Refreshing(j)
  /\ job[j].step = "list" \/ (job[j].step = "check" /\ j \in Handler)
  /\ Ends(j)
  /\ UNCHANGED <<github, store, backlog, grants, acts>>

FitsGeneration(j) == connection[job[j].user].generation = job[j].generation
FitsVersion(j)    == connection[job[j].user].version = job[j].version

\* replaceAccess locks the connection and compares generation and version.
Fits(j) ==
  FitsGeneration(j) /\ FitsVersion(j)

OneRetryMore(j) == job[j].attempt <= MaxAttempts

MayRetry(j) == job[j].attempt < MaxAttempts

Check(j) ==
  /\ Refreshing(j) /\ job[j].step = "check"
  /\ \A k \in Job : ~WaitsFor(j, k)
  /\ IF Connected(job[j].user) /\ Fits(j) THEN Goes(j, "write") /\ UNCHANGED unread
     ELSE IF /\ Connected(job[j].user)
             /\ connection[job[j].user].generation = job[j].generation
             /\ MayRetry(j)
     THEN /\ job' = [job EXCEPT ![j].step = "connection", ![j].attempt = @ + 1]
          /\ UNCHANGED unread
     ELSE Ends(j)
  /\ UNCHANGED <<github, store, backlog, grants, acts>>

Write(j) ==
  /\ Refreshing(j) /\ job[j].step = "write"
  /\ \A k \in Job : ~WaitsFor(j, k)
  /\ Goes(j, "commit")
  /\ UNCHANGED <<github, store, backlog, grants, acts, unread>>

\* A narrowing that waited for the replaced row passes over it, and over the new one.
StoreListing(j) ==
  /\ Refreshing(j) /\ job[j].step = "commit"
  /\ LET u == job[j].user IN
     /\ access' = [access EXCEPT ![u] =
          IF job[j].list = {} THEN NoRow
          ELSE [generation |-> job[j].generation, repos |-> job[j].list]]
     /\ connection' = [connection EXCEPT ![u].synced = TRUE]
     /\ job' = Without(u, [job EXCEPT ![j] = Idle])
  /\ UNCHANGED <<github, accepted, active, backlog, grants, acts, unread>>

-----------------------------------------------------------------------------
(* Webhooks. *)

NewNarrow(c) ==
  [is |-> "narrow", step |-> "read", change |-> c, cut |-> {}, direct |-> NoUser,
   left |-> {}, returned |-> {}, bumped |-> {}, after |-> {}]

Delivered(w) == webhook[w] # NotSent /\ w \notin accepted

\* applyLifecycle commits the delivery's id; what access changes do comes after it.
Accept(j, w) ==
  /\ j \in Handler /\ job[j] = Idle
  /\ Delivered(w)
  /\ webhook[w].about = "selection" \/ (webhook[w].about \in {"member", "team"} /\ active)
  /\ accepted' = accepted \cup {w}
  /\ job' = [job EXCEPT ![j] = NewNarrow(webhook[w])]
  /\ UNCHANGED <<github, connection, access, active, backlog, grants, acts, unread>>

AcceptInstallation(w) ==
  /\ Delivered(w) /\ webhook[w].about = "installation"
  /\ accepted' = accepted \cup {w}
  /\ active' = ~webhook[w].removal
  /\ UNCHANGED <<github, connection, access, job, backlog, grants, acts, unread>>

AcceptAuthorization(w) ==
  /\ Delivered(w) /\ webhook[w].about = "authorization"
  /\ accepted' = accepted \cup {w}
  /\ IF Connected(webhook[w].user) THEN DisconnectWith(webhook[w].user, job)
                                   ELSE UNCHANGED <<connection, access, job>>
  /\ UNCHANGED <<github, active, backlog, grants, acts, unread>>

AccessUsers == {u \in User : Connected(u) /\ HasRow(u)}

\* What the handler narrows, and whom it refreshes once it has.
Plan(j, cut, direct, after) ==
  /\ job' = [job EXCEPT ![j].step = "start", ![j].cut = cut, ![j].direct = direct,
                       ![j].after = after]
  /\ UNCHANGED <<backlog, unread>>

\* applyAccessChange: dropAccess for a user, restrictAccess for a team's repository.
PlanAccessChange(j) ==
  LET c == job[j].change
      users == IF c.user = NoUser THEN AccessUsers ELSE {u \in {c.user} : Connected(u)}
  IN IF c.removal /\ (c.user # NoUser => users # {})
     THEN Plan(j, c.cut, c.user, users)
     ELSE /\ job' = [job EXCEPT ![j] = Idle]
          /\ Schedule(users)
          /\ unread' = unread \cup users

\* narrowAccess: the current selection, what the webhook names, or everything.
PlanSelection(j) ==
  LET cut == job[j].change.cut IN
  \/ Plan(j, Repo \ selection, NoUser, {})
  \/ cut # {} /\ Plan(j, cut, NoUser, {})
  \/ cut = {} /\ Plan(j, Repo, NoUser, AccessUsers)

ReadChange(j) ==
  /\ Narrowing(j) /\ job[j].step = "read"
  /\ IF job[j].change.about = "selection" THEN PlanSelection(j) ELSE PlanAccessChange(j)
  /\ UNCHANGED <<github, store, grants, acts>>

\* The rewriting statement begins: it will visit the rows that are there now.
InScope(j, u) == job[j].direct \in {NoUser, u}
StartNarrow(j) ==
  /\ Narrowing(j) /\ job[j].step = "start"
  /\ job' = [job EXCEPT ![j].step = "rows",
                       ![j].left = {u \in User : HasRow(u) /\ InScope(j, u)}]
  /\ UNCHANGED <<github, store, backlog, grants, acts, unread>>

RewriteRow(j, u) ==
  /\ Narrowing(j) /\ job[j].step = "rows" /\ u \in job[j].left
  /\ \A k \in Job \ {j} : ~HoldsAccess(k, u)
  /\ job' = [job EXCEPT ![j].left = @ \ {u}, ![j].returned = @ \cup {u}]
  /\ UNCHANGED <<github, store, backlog, grants, acts, unread>>

RowsDone(j) ==
  /\ Narrowing(j) /\ job[j].step = "rows" /\ job[j].left = {}
  /\ Goes(j, "bump")
  /\ UNCHANGED <<github, store, backlog, grants, acts, unread>>

Bump(j, u) ==
  /\ Narrowing(j) /\ job[j].step = "bump" /\ u \in Bumps(j) \ job[j].bumped
  /\ \A k \in Job \ {j} : ~HoldsConnection(k, u)
  /\ job' = [job EXCEPT ![j].bumped = @ \cup {u}]
  /\ UNCHANGED <<github, store, backlog, grants, acts, unread>>

\* What the narrowing cuts from the listings that refreshes have read.
Outdate(j) ==
  [k \in Job |->
     IF k = j THEN Idle
     ELSE IF Refreshing(k) /\ job[k].step \in {"check", "write", "commit"}
                           /\ InScope(j, job[k].user)
     THEN [job[k] EXCEPT !.since = @ \cup job[j].cut,
                         !.fenced = IF job[k].user \in job[j].returned
                                    THEN @ \cup job[j].cut ELSE @]
     ELSE job[k]]

\* The transaction commits, and the handler schedules its refreshes.
CommitNarrow(j) ==
  /\ Narrowing(j) /\ job[j].step = "bump" /\ Bumps(j) \subseteq job[j].bumped
  /\ access' = [u \in User |->
       IF u \in job[j].returned THEN [access[u] EXCEPT !.repos = @ \ job[j].cut]
                                ELSE access[u]]
  /\ connection' = [u \in User |->
       IF u \in job[j].bumped THEN [connection[u] EXCEPT !.version = @ + 1]
                              ELSE connection[u]]
  /\ job' = Outdate(j)
  /\ Schedule(job[j].after)
  /\ unread' = unread \cup job[j].after
  /\ UNCHANGED <<github, accepted, active, grants, acts>>

\* PostgreSQL ends one of two transactions that wait for each other.
BreakDeadlock(j) ==
  /\ \E k \in Job : WaitsFor(j, k) /\ WaitsFor(k, j)
  /\ job' = [job EXCEPT ![j] = Idle]
  /\ unread' = IF Refreshing(j) THEN unread \ {job[j].user} ELSE unread
  /\ UNCHANGED <<github, store, backlog, grants, acts>>

\* The process ends: transactions roll back, and the queue of refreshes is gone.
Crash ==
  /\ Act
  /\ job' = [j \in Job |-> Idle] /\ backlog' = <<>> /\ unread' = {}
  /\ UNCHANGED <<github, store, grants>>

-----------------------------------------------------------------------------
Step(j) ==
  \/ Drain(j) \/ ReadConnection(j) \/ Token(j) \/ ReadListing(j) \/ RefreshFails(j)
  \/ Check(j) \/ Write(j) \/ StoreListing(j)
  \/ ReadChange(j) \/ StartNarrow(j) \/ RowsDone(j) \/ CommitNarrow(j)
  \/ BreakDeadlock(j)
  \/ \E u \in User : RewriteRow(j, u) \/ Bump(j, u)

Next ==
  \/ GitHub
  \/ \E u \in User : Connect(u) \/ Disconnect(u)
  \/ \E j \in Job, u \in User : RequestRefresh(j, u)
  \/ \E w \in 1 .. MaxChanges :
       \/ AcceptInstallation(w) \/ AcceptAuthorization(w)
       \/ \E j \in Job : Accept(j, w)
  \/ \E j \in Job : Step(j)
  \/ Crash

AccessSpec == Init /\ [][Next]_vars

\* TLC: requests differ in nothing but their names.
Interchangeable == Permutations(Handler)

-----------------------------------------------------------------------------
(* Properties. *)

\* A listing about to be stored holds nothing that a narrowing which rewrote the user's
\* row has taken away since the listing was read: the version check and the order in
\* which the two transactions lock rows together see to it.
FencedListing ==
  \A j \in Job : (Refreshing(j) /\ job[j].step = "commit") =>
                   job[j].list \cap job[j].fenced = {}

\* Repositories are held only for a connected user, from a listing made under the
\* present authorization: neither a refresh that outlives a reconnect nor a narrowing
\* that waits brings back those of a former one.
CurrentGrantOnly ==
  \A u \in User : HasRow(u) =>
    Connected(u) /\ connection[u].synced /\ access[u].generation = connection[u].generation

\* A change that was applied is followed by a listing that is read after it: a refresh
\* under way when the change arrives does not stand for the one the change asked for.
ChangesReread ==
  unread \subseteq
    InQueue \cup {u \in User : \E j \in Job : /\ Refreshing(j) /\ job[j].user = u
                                              /\ job[j].step \in {"connection", "token", "list"}}

\* workspace-app.ts says that a narrowing which commits during the GitHub reads makes the
\* listing stale and that replaceAccess rejects it: what is about to be stored would
\* hold nothing that was both cut meanwhile and really taken away on GitHub.
NarrowingHolds ==
  \A j \in Job : (Refreshing(j) /\ job[j].step = "commit") =>
                   job[j].list \cap job[j].since \subseteq Listing(job[j].user)

=============================================================================
