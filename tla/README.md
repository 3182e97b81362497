# ship.live: specification and proofs

TLA+ models of ship.live: its server (`src/server`), the code both sides share
(`src/shared`), and the concurrent part of its web client (`src/src`). They are
checked with TLC on small instances; every safety property and action property but one
(`BodiesSafe`, of templates and filters) is also proved with TLAPS for every instance.
`PROJECT.json` maps the definitions that model
code to their lines (value sets and one-line helpers stand under the operation that uses
them) and lists the components, the runs, the mutants that show each property can fail,
and the hazards the properties answer.

## 1. The system

ship.live is a Node server (any number of replicas) over one PostgreSQL
database, and a React client. Replicas share nothing but the database: they
coordinate by row leases, row and advisory locks, unique indexes and
`LISTEN/NOTIFY`. Four loops run in each replica: the webhook worker, the health
scheduler, retention, and a queue of access refreshes.

| Component | Code | What is hard | What makes it correct | Module |
| --- | --- | --- | --- | --- |
| Webhook outbox and routing | `webhook-outbox.ts` | batches of two replicas meet on cooldown rows; rollback; deadlock | one alert per cooldown, no alert swallowed, the outbox drains | `WebhookRouting` |
| Webhook deliveries | `webhook-worker.ts`, `webhook-outbox.ts` | lost tasks, late results, access lost half-way, shutdown | exclusive leases, bounded retries, access held when sent | `WebhookDelivery`, `DeliveryPromise` |
| Service Health | `health-store.ts`, `health-worker.ts` | results of old rules, unreadable secrets, windows | thresholds are earned, incidents span down time, alerts agree with the pages | `HealthProbe` |
| GitHub access | `workspace-store.ts`, `workspace-app.ts` | a listing read before access was cut is stored after it | a stored listing is no older than a cut that saw its row; changes are read again | `GitHubAccess` |
| GitHub listings | `github-app.ts` | pages of a listing that changes | only complete listings are accepted | `GitHubListings` |
| Sign-in, connections | `auth.ts`, `workspace-store.ts` | two-step flows against logout and each other | a flow is used once, by its own browser; a grant belongs to a live flow | `Sessions` |
| Requests and sessions | `auth.ts` | rotating tokens and late cookies | an answer is for the person whose session and token the request brought | `Principals` |
| Workspaces and pages | `workspace-store.ts`, `workspace-app.ts` | membership and access change while a page is read | membership is earned under the present account; what is shown may be seen | `Workspaces` |
| History imports | `workspace-store.ts`, `workspace-app.ts`, `github-app.ts` | a late run after a takeover | a mark covers what is before it, and only moves forward | `SyncRuns` |
| Activity store | `postgres-store.ts`, `normalize.ts`, `xp.ts` | one change told in several ways at once | announced once under one id; credit and restriction survive later reports | `Activity` |
| Engineering wall | `wall-store.ts`, `wall-normalize.ts`, `engineering-wall.ts` | signals out of order, half-stored webhooks, one state judged in three places | latest observation shown, no stale news, success means stored; the judgements agree | `WallSignals`, `Radar` |
| Review follow-through | `review-followthrough*.ts`, `useReviewFollowthrough.ts` | a push between reading and claiming | a claim ends by its owner or a new state | `ReviewClaims` |
| Shares | `share-store.ts`, `share-app.ts` | revocation while an answer is read | an answer and a stream show what the link allows | `Shares` |
| Live streams and feed | `postgres-notifications.ts`, `workspace-app.ts`, `useFeed.ts` | lost notifications, slow clients, moving access | no change is missed while subscribed; the poll catches up | `LiveFeed` |
| Identity of a tab | `useFeed.ts` | sign-out in another tab, late answers | nothing of a former user is shown | `PageIdentity` |
| Saved views, addresses | `saved-views.ts`, `routes.ts`, `SavedViews.tsx` | two tabs and lost answers; rolling periods | a view opens what it was saved on; lists hold the changes they waited for | `SavedViews`, `Links` |
| Webhook settings and page | `webhook-store.ts`, `webhook-app.ts`, `WebhooksPage.tsx` | two editors, lost answers, secrets shown once | pins are the owner's; replaced secrets never come back | `WebhookSettings`, `WebhookConsole`, `HookForm` |
| Templates, filters | `shared/webhook-template.ts`, `shared/webhook-filters.ts` | limits, nesting, escaping | what is accepted is rendered within its limits; filters mean what they say | `Templates` |
| Outbound requests | `outbound.ts`, `health-probe.ts` | lookup, timer, socket and body race | sockets open only to checked addresses, one result, nothing left open | `Outbound` |
| Inbound webhooks | `webhook-app.ts`, `webhook-store.ts` | repeated posts, two creators | one alert per key, endpoints apart | `InboundHooks` |
| Digests, recap | `digest.ts`, `recap-app.ts`, `RecapPage.tsx` | offsets and schedules that change; saves that wait | one digest a week, over when it is due; no save under access lost before it wrote | `Weekly` |
| Pulse | `pulse-store.ts`, `shared/pulse.ts`, `usePulse*.ts` | pages under changing access; two computations of one total | each event once, one scope; both agree | `PulsePages` |
| Service Health page | `ServiceHealth.tsx`, `health-refresh.ts` | snapshots around a drag and a save | a saved order is not undone on the page | `HealthPage` |
| Single-organization server | `app.ts`, `github.ts` | protection begins while a feed is read | restricted events only with the key | `PublicFeed` |
| Rate limits, retention | `rate-limit.ts`, `maintenance.ts` | edges of windows; rows in use | no more than the limit; only what nobody needs goes | `Upkeep` |
| Start, migrations, import | `index.ts`, `migrate.ts`, `postgres-store.ts`, `legacy-import.ts` | processes of several releases at once | each migration once; imports add once and never wait for ever | `Startup` |

Not modelled: logging and metrics, experience points, deployment, rendering
(section 7).

How they interact: GitHub webhooks reach the activity store and the wall; those,
Service Health, inbound webhooks and the digest scheduler store an event **in
their own transaction** through `recordWorkspaceEvent`; the webhook worker routes
events to deliveries and delivers them; deliveries ask GitHub access for the
owner's membership and repositories before and after preparing the body;
retention deletes from all of them; each commit notifies the open streams, whose
pages read the feed again under the access of that moment.

## 2. Plan

Each part was modelled and checked with TLC first, then proved, in the order of what the
rest depends on:

1. deliveries with their promise, routing, Service Health and access;
2. the stores: sign-in, workspaces, shares, imports, claims, activity, the wall;
3. the browser: stream, identity, answers, addresses, saved views, the Radar;
4. settings, pages, periods and upkeep, first those of the server alone, then those with a
   page and its requests.

All four are done. The modules are written for proof: one action per operation, invariants
as named conjuncts, parameters with named assumptions, and no `RECURSIVE` operator but in
`Templates`, which stays with TLC (section 5). What is left out of the models is in
section 7.

## 3. What is modelled

In every module an action is one statement or one await of the code, with all it
changes: between two of them anything else may happen. History variables are
marked as such and read by properties only. What a person types, GitHub answers or a
network loses is a choice. Requests that crash or lose their answer leave what was
committed, and no more.

### `WebhookDelivery` (and `DeliveryPromise`, `WebhookDeliveryProofs`)

State: `row` is `ship_live_webhook_deliveries` (status, attempts, whether
`next_attempt_at` has come, lease, whether it ran out); `hook` the webhook's
switch and `paused_reason`; `mayView` what `ownerMaySee` answers for the
delivery; `task` the `performDelivery` under each lease token with the statement
it has reached; `worker` the flags of `startWebhookWorker`. History variables
(`accepted`, `overran`, `abandoned`, `gone`, and `held` in a task) are read by
properties only.

| Action | Code |
| --- | --- |
| `Route`, `SaveHook`, `RemoveHook`, `Redeliver`, `Retire` | what routing, the webhook pages and retention do to rows |
| `BeginTick`, `Claim`, `EndTick` | `tick` and `claimDeliveries`; one step per leased row |
| `Authorize`, `Enrich`, `Reauthorize`, `Send` | the awaits of `performDelivery`, in order, with each outcome of `outcomeOf` |
| `Record`, `Pause`, `RecordFails` | the two statements of `completeDelivery`, and either failing |
| `FallDue`, `Lapse`, `Overrun` | a retry wait ends, an idle lease runs out, a lease runs out under its task |
| `Stop`, `Exit`, `Start`, `Crash` | shutdown as `index.ts` does it, restart, and process loss |

Between two statements anything may happen. `DeliveryPromise` is what the
delivery log tells its reader: queued once, ended once, "succeeded" only if the
receiver took a request in since it was queued, reopened only by starting over.
`PromiseKept` is the refinement, with `row[d].status` for the log's state.

### `WebhookRouting`

Events in order of `created_at`; per replica one open transaction of
`routeEvents` with its batch (`FOR UPDATE SKIP LOCKED`), the webhooks it read and
what it decided; per webhook and key a cooldown row with its committed and its
uncommitted value and the transaction that holds it. `SendAlert` is the upsert
of `coolingDown`, which waits for the row; `SendRecovery` the `DELETE`, which
waits for a committed row but passes over one another transaction has inserted
and not committed, as READ COMMITTED does. `Commit`, `Fail`, `RefuseRow` (the
foreign key of a webhook deleted meanwhile) and `BreakDeadlock` end it. Row
locks, visibility and deadlock detection are PostgreSQL's and marked external.
Filters and access are one free choice per event and webhook.

### `HealthProbe`

`probe` is `ship_live_health_probes`; `open` the unresolved incidents; `told` the
last health and incident event stored for webhooks; `maintained` the services in
a window; `answers` whether a check would pass; `task` the running checks.
`SaveProbe` covers every combination of kept, removed and replaced headers, rule
change and pause, and takes the lease as `saveProbe` does; `Claim` has the branch
for a secret that does not open; `Record` is `complete` with `Held`, `Status`,
`Opens`, `Resolves` and the two events named after its parts. `FailAfter` and
`RecoverAfter` are the thresholds of each rule set. Counters stop at `MaxCount`:
they are only compared with thresholds, which `HealthAssumption` keeps below it.

Not in it: service names and order, caps, the daily figures, the read side.

### Access, identity and connections

- `GitHubAccess`: grants with their generation, each user's stored listing with its
  access version, the refresh queue, and the webhooks that narrow. Transactions are
  READ COMMITTED and appear statement by statement: a refresh locks the connection and
  then replaces the access row, a narrowing rewrites access rows and then bumps
  connections.
- `GitHubListings`: `listPages` page by page over a listing that GitHub changes.
- `Sessions`: sign-in flows (`auth.ts`) and connection flows (`workspace-store.ts`), each
  a one-time row, a browser that comes back, an exchange and a store. `Principals`:
  one request with its cookies, the provider's token and its rotation, and the second
  check before the answer.
- `Workspaces`: installations, memberships, a journal's sources, and `viewer` before and
  after each page. A viewer is three steps for a team (the workspace, whether the
  installation is active, the stored access) and two for a journal, as it awaits them. A
  page's answer is compared with what was stored, and with whether the installation was
  active, since its last check began.
- `Shares`: one link, its creator's standing and the requests and streams that use it.

### Activity and what follows from it

- `Activity`: `PostgresEventStore.merge` with the installation's lock, for reports of one
  change by webhook, repetition and import.
- `WallSignals`: the webhook route's two transactions, the wall's lock per repository and
  the comparison of observations. `SyncRuns`: the run's row and the background import.
- `ReviewClaims`: the store's claims under the wall's lock, and the page's requests.
- `WallSignals`, second part (`WallReports…`): the life of one check run, workflow run,
  status, deployment, pull request or review as GitHub tells it, one delivery per step and in any order, through
  `normalizeWallWebhook` and the rule that keeps the newer observation. GitHub's steps are
  external; a step may lack its times.
- `Radar`: the rows of one pull request, and the three programs that judge it: the page's
  Review Radar, the SQL of the digest and the reasons of a follow-through. Rows of one time
  are ordered by each as its code does.
- `Activity`, second part (`EventIds…`): one change as webhooks, public events (whole or
  trimmed) and imports tell it, and the id `normalize` gives each report.
- `LiveFeed`: commit, `NOTIFY`, the listener, a stream's queue and checks, and the feed's
  requests in the page. Its liveness is checked in the module itself.

### The browser

- `PageIdentity`: the refs of `useFeed` that decide which answers still count, with a second
  tab, sign-out, linked and explicit workspace choices, and connecting.
- `SavedViews` and `Links`: the dialog and its routes; addresses, what a saved view keeps,
  and how its period reads on later days. `Links` compares each address with itself after
  parsing, writing and saving.
- `HealthPage`, `PulsePages`, `WebhookConsole` and the recap of `Weekly`: one tab of each page
  with its server routes, while others change the same rows. An order of services is a
  relation, and a page of events any sequence that lists them newest first. Each change of the
  services has its notification (`notice`), which is sent with the commit or, by
  `deleteService`, afterwards if at all (`Tell`, `TellFails`), and is lost while the LISTEN
  connection is down (`LoseNotice`); the page's poll is one of the causes of `RequestNow`.

### Webhooks beside deliveries

- `WebhookSettings`: saves of several members; `WebhookConsole`: the page, its dialogs, and
  the address and secret of a webhook, which leave the server only in its requests and
  once in the answer that made them. Of the other tabs `WebhookConsole` has the committed
  change only, since nothing else of theirs can be told by this tab or by the rows.
- `HookForm`: the contents of the webhook form, what `validateWebhook` accepts of them and
  what the two statements write.
- `Templates`: tags and blocks read token by token against a grammar that says which
  sequences are templates, and a rendering with its limits; its second part saved
  filter patterns against what was typed. `Outbound`: one request with its lookup, timer, socket and body.
- `InboundHooks`: endpoints, posts, the receipt and the alert's key.
- `Weekly`, first part (`Digest…`): schedules in a zone whose offset changes. Second part
  (`DigestSend…`): one digest from its claim to its sending; the webhook's row, the owner's
  membership, the repositories and the sources are read one after the other, before the
  summary and again after it. Third part (`Recap…`): the recap's page, its notes and its
  export. The viewer function is `Queries` queries, one step each, of which a page or a save
  keeps the answers; `recheck` compares them, again one by one, and a save writes, is
  rechecked and commits in separate steps. `recheck` reads all before it compares; in the
  model the first that differs ends it, which refuses in no other case.

### The server's upkeep

- `Upkeep`: the windows of `rate-limit.ts` in a replica's memory and in the shared table
  (`Rate…`), and the batches of `maintenance.ts` under their advisory lock (`Retention…`).
- `Startup`: processes of several releases that check, migrate and start (`Startup…`), and
  transactions that import old files or merge events and lock rows as they go (`Legacy…`).
- `PublicFeed`: the single-organization server, its protection and its streams.
- The second part of `PulsePages` (`Sum…`) compares the two computations of a period's
  totals on lists of stored events, each the only one of its organization and id. Of an event
  stored twice the database takes the row of the lower organization on a tie, the browser
  the one its fields put last.

## 4. What the runs show

| Run | Instance | Shows |
| --- | --- | --- |
| `delivery_safety` | 2 deliveries of one webhook (one a digest), 2 replicas, 3 leases, 2 attempts, 1 fault, 1 edit | leases exclusive and not leaked, retry budget, access, finished rows stay, refinement; in parts of their own, templates (up to 5 tokens, expressions of 5 parts, blocks 2 deep, 2 items, 4 steps, 10 of output) are rendered within their limits and filters (2 patterns) mean what was typed |
| `delivery_liveness` | the same with 1 replica | every pending delivery of a webhook that stays on is finished |
| `routing_safety` | 1 webhook, 1 key, 2 replicas, 4 events in batches of 2, 1 fault, 1 edit | one alert per cooldown; a skipped alert has its cause |
| `routing_liveness` | 1 webhook, 2 keys, 2 replicas, 4 alerts in batches of 2 | the outbox drains through deadlocks |
| `health_safety` | 1 probe, 2 rule sets, 2 replicas, 3 leases, 1 fault, 2 edits | fencing by edits, exclusive leases, incidents and alerts follow the state and the thresholds |
| `health_liveness` | the same with 1 replica, 2 leases | checks of an enabled probe go on, and the incident follows an endpoint that stays down or up |
| `access_safety` | see `GitHubAccess.cfg` | a listing older than a cut is not stored, none outlives its grant, each change is read again |
| `access_undone` | the same | ends in a counterexample, see section 6 |
| `feed_liveness` | 1 event, 1 repository, 1 workspace | the page catches up after any losses |
| `browser` | parts `stream`, `identity`, `answers`, `links`, `saved`, `radar` (2 reviews, 2 runs of one check, 2 commits, 2 times) | what reaches a tab, and whom it believes to be; page, digest and follow-through agree on a pull request |
| `stores` | parts for `Sessions`, `Workspaces`, `SyncRuns`, `Shares`, `ReviewClaims`, `Activity`, `WallSignals` with one life (4 steps), ids (3 reports) | what requests and background work leave in the database, and what answers show; GitHub's last word stands in any order of arrival; each change has one id |
| `pages` | 17 parts, those not in another run | settings, pages, periods and upkeep; a form gives back what it was given |

**Parts.** `MCBodies`, `MCBrowser`, `MCStores` and `MCPages` check several components in one run: the
variable `part`, chosen in the initial state, says which module's `Next` is taken; the
others stay in one initial state. A part is thus checked exactly as it would be alone.
Each group property (`AccountsSafe`, `WebhooksSafe`, …) is the conjunction of its
modules' properties, named in the module it is about. The mutant of a group breaks one
of them. Sets of several parts that stand for interchangeable things have the same
members, so that one symmetry set serves them; symmetry is used only in runs without
liveness.

**Bounds.** A conflict over a row needs two owners and a third token for the
claim that follows, hence two replicas and three leases. Two attempts reach both
a retry and the last attempt. One delivery interferes with another only through
the slots of a worker and the webhook they share, hence two. Two batches of two
events are the least that can cross two keys in opposite orders, and four events
give an alert, its recovery and another alert on both sides of a batch's edge.
Probes share no row, so one is enough; two rule sets tell a changed rule from an
unchanged one, and a threshold of one and of two both sides of "degraded"; two
edits allow a lost key and its repair, or a change and a deletion.

In the composite runs two requests (flows, callbacks, calls, runs, saves) are under way at
once: each race in this code is between one request and one other writer, and a third
would meet the same row after one of them. A third value is taken where a first and a
second must be told from a later one: three changes of a feed, three days of a
calendar, three values issued by the webhooks page (an address, its secret, and
another). Caps are 1, so that the second of two reaches them. In `Radar` two rows of each
kind give a newer and an older one, or two reviewers who disagree. Four steps of
one life in `WallSignals` are a run that is queued, started, completed and, for a workflow, asked for
again; three reports of changes in `Activity` pair two sources with another change; two edits in
`HookForm` cross a preset with one change to it. In `HealthPage` two changes are one that a
load shows and one it misses. Two repositories, two sources and two moves of them
(`MaxScopeMoves`) let what a digest was built from change after its turn in the second look,
and back; two queries with two answers and none, and two changes (`MaxScopes`), do the same
for a recap. Two rows of two organizations (`SumOrgs`) make a tie. Each cfg names its bounds
(`Max…`, `End…`) under the module they belong to; `bound:` in a module marks a guard
that is a bound and not code. Bounds on faults and on what people do leave liveness a
statement about what the system does after them.

`CHECK_DEADLOCK FALSE` where the system may rest: a drained outbox, or a part whose
people have nothing more to do. `MCBodies` checks deadlock: only its deliveries are to go on.

**Fairness.** Weak fairness for timers (`setInterval`, retry waits, leases, the page's
poll), for awaits, which have time-outs, and for a process manager's restart. Strong
fairness for claiming a row: the claim takes due rows oldest first, so a row that
stays due is not passed over for ever while others take the slots. Strong
fairness for a routing statement: PostgreSQL gives a released row to a statement
that waits for it. Nothing is assumed of people, endpoints or faults.

## 5. What is proved

`WebhookDeliveryProofs` proves, from `DeliveryAssumption` alone (finitely many
leases, `NoLease` none of them, positive limits), for any number of deliveries,
webhooks, replicas and attempts:

- `TypeCorrect`, `LeaseExclusion`, `NoLeaseLeaks`, `BudgetKept`, `AccessKept`:
  the invariants of deliveries in `delivery_safety`;
- `FinishedStays`, the action property;
- `Refinement`: every step of `Spec` is a step of `DeliveryPromise` or changes
  nothing it speaks of.

The argument. `LeaseProtects` is not inductive: nothing in it stops a second row
from carrying the same token, or a finished row from keeping one. `LeaseInv`
adds: a task whose token is on its row found it pending at the count it read
(`HolderFits`); only a lease that ran out or a deleted webhook takes the row away
(`StillHolds`); one row per token (`OneRowPerLease`); only pending rows are leased
(`OnlyPendingLeased`). A claim keeps these because its token is fresh, a record
because it matches the token, a redelivery because finished rows carry none.
`BudgetInv` adds that a task about to schedule a retry has an attempt left,
`AcceptedInv` that a success to be recorded was really taken in (this carries the
refinement), `AccessInv` that a body still to be re-checked remembers whether
access was held. Their conjunction `IInv` is established by `Init`, kept by each
action (one proof step per action) and implies each property; the temporal step
is `PTL`.

`HealthProbeProofs` proves, from `HealthAssumption` alone (finitely many leases,
thresholds from 1 to `MaxCount`, positive concurrency), for any number of probes,
services, rule sets, replicas and leases, all safety properties of
`health_safety`: `TypeCorrect`, `EditsFence`, `LeaseExclusion`, `IncidentsSpan`,
`AlertsTrue`, and the action properties `OpenedAtThreshold` and
`ResolvedAtThreshold`.

The argument has two layers. `FenceInv` adds to `FencedByEdits` and
`LeaseProtects` that a check whose lease ran out under it is among the fenced ones
(`LapsedFenced`): without it a claim of a lapsed row could take the lease of a
check the invariant still protects. Every step that takes a lease from a row
fences the check that held it (`LeaseDropped`), and a claim's token is fresh.
`IncidentInv` adds to `IncidentSpansDown` and `AlertsAgree` that a probe that is
not there is unknown and has no incident (`AbsentBlank`), without which creating
one would inherit an incident. Its step uses `FenceInv`: a result is recorded only
for a live probe. `CheckOutcome` says what `complete` makes of a probe. The action
properties follow because only `Record` and deletions change which incidents are
open (`OpenChanges`).

`WebhookRoutingProofs` proves `TypeOK`, `CooldownSpacing` and `SkipExplained` for any
webhooks, subjects, replicas, events and batch size. Neither property is inductive: both
speak of what is committed, and what matters is in open transactions. `BatchInv` says that
a batch is decided in the order of its events and shared with nobody, `RowInv` that
whoever sent an alert after its last recovery holds the cooldown row as running
(`AlertHolds`), whoever deleted it sent a recovery, and `SkipInv` that a cooldown that runs,
committed or not, has an alert that is queued or sent in the same transaction.

`GitHubAccessProofs` proves `FencedListing`, `CurrentGrantOnly` and `ChangesReread` for any
users, installations, jobs and attempts. `AccessInv` adds that no two transactions hold a
row (`LocksFit`, from the guards that stand for PostgreSQL's locks), that generations never
come back, and that a refresh whose listing was cut by a narrowing that rewrote the user's
row has a version too old to be stored (`RefreshFits`). The row that a narrowing passes over is not in
it, as `access_undone` shows.

`BrowserProofs` proves every property of the run `browser` (`BrowserTyped`,
`BrowserMissesNothing`, `BrowserAnswersSafely`, `BrowserShowsItsUser`) for any values of the
constants: a run of `BrowserSpec` is a run of each part's own specification
(`EachPartRuns`), and each part has its invariant.

- `LiveFeed` (`FeedInv`): what was read last, shown or on its way back differs from what
  may be seen only by events whose notices are queued or by a load that is coming
  (`LoadComing`), and access the stream has not seen comes with a refresh
  (`ViewFollows`); a request, a stream and a page belong to one workspace (`Belongs`).
- `PageIdentity` (`PageInv`): a request that still counts was begun after the last change of
  what it is about, of the identity for a session, and for a feed of the user and the
  workspace (`CallFits`); a tab that leaves, is blocked or has no user shows nothing
  (`TabFits`). The counters of `useFeed`'s refs are what makes this inductive: whatever
  changes the tab silences the requests of the kinds it is about (`Quieter`).
- `Principals` (`PrincipalInv`): a request past its look-up has the person of the session row
  it found, past its verification a token of that person, and one that found its session
  alive last of all is answered (`AskedFits`).
- `Links` (`LinkInv`): what a page reads from any address is a form it writes (`Own`), so it
  reads back what it writes; and a view is kept in exactly six ways (`Ways`), each of which
  says which days it shows now and later.
- `SavedViews` (`SavedInv`): the count made under the lock on the person's row still holds
  when the view is inserted, so the limit does; a dialog is busy only while its change or
  its list is under way.
- `Radar`: the rows about one thing are totally ordered by time and id, hence one row is
  ahead of all others whatever the order they are read in, by finiteness; page, digest and
  follow-through take that one, and draw the same conclusions (`RadarIsSafe`).

The assumptions are those of the modules: finite sets, positive limits, and no frame, request,
workspace, user or token with the name of its absence.

`StoresProofs` proves every property of the run `stores`
(`StoresTyped`, `AccountsAreSafe`, `StoresImportSafely`, `StoresShareSafely`,
`StoresReviewSafely`, `EventsAreSafe`): a run of `StoresSpec` is a run of each part's own
specification (`EachPartRuns`), and of each part a theorem holds for any values of its constants.

- `Sessions`: a session comes from one sign-in that has ended, a cookie names a session
  of a sign-in its own browser began, and a callback that was cancelled has lost its
  session or its flow for good, so that its storing transaction finds neither.
- `Workspaces`: a membership is earned under the account that is connected, and what a
  check lets through is within what could be seen since it began (`ShownIsVisible`): whoever
  is past the workspace was a member since then, and past the installation found it active
  after that (`LastCheckFits`); Pulse, whose aggregate cannot be filtered, needs its first
  scope besides (`AggregateFits`).
- `Shares`: what an authorization has found is within what the link let be read since it
  began (`Fits`), tokens and grants never come back (`CountsFit`), and a quiet stream has
  heard of every change since its last check.
- `SyncRuns`: `Enough`: what a run has read and stored covers the time up to the mark it is
  going to set, given that GitHub lists within the overlap (`TimesPass`).
- `ReviewClaims`: who is about to write holds the lock and has checked under it
  (`LockFits`); what a page shows is not ahead of the answers it will still take (`PageFits`).
- `Activity`: one transaction is past the lock and what it read is still stored
  (`HolderFits`). Ids: the id is the change's own but for an opening told without its time
  (`OwnId`).
- `WallSignals`: the request past the lock has a delivery not applied yet, and what it
  read last is still a newest signal (`LockKept`). One life: the row is a maximal of the
  observations that came, or a dismissal (`RowFits`), and a review is approved and then
  dismissed under one time (`ReviewLife`).

`ServerProofs` and `PagesProofs` prove every property of the run `pages` (`PagesTyped`,
`WebhooksAreSafe`, `ServerIsSafe`, `PeriodsAreSafe`) in the same way: a run of `PagesSpec` is a
run of each part's own specification (`EachPartRuns`), and each part has an inductive
invariant, for any values of its constants.

Webhooks:

- `WebhookSettings` (`SettingsInv`): what a save under way brings was readable by its maker,
  hence so is what is pinned; the webhooks that are there and the saves that have counted
  them are at most `MaxHooks` - 1 + the saves under way together, which is the bound that a
  count followed by an insert leaves.
- `InboundHooks`: endpoints differ (`EndpointsInv`), an alert that is being stored has been
  raised (`AlertsInv`), and a log has no more than `KeptReceipts` - 1 + the posts under way
  (`LogsInv`). A post prunes what its statement saw, so the last needs the order in which
  the statements began: some ranking of them bounds the log by rank (`LoggedBy`).
- `WebhookConsole` (`ConsoleInv`): addresses and secrets are issued once and only move forward
  (`TableOK`); what an answer, a test or a reveal holds was stored as that (`OrderOK`,
  `TrialOK`, `RevealOK`).
- `Outbound` (`OutboundInv`): a request past its lookup has one address, of a lookup that gave
  only outside ones; a finished one has no timer running and no socket.
- `HookForm` (`FormInv`): what is saved renders whatever it may be sent (`SavedOK`), and an
  untouched form is the row's (`OpenOK`), since each shown value is read back as it was
  (`ShownIsParsed`).

The server:

- `PublicFeed` (`PublicInv`): once something restricted is known, protection is on, in the
  step that learns of it; there are never more than `MaxConnections` streams.
- `Upkeep`, rates (`RateInv`): for each window, the room its row leaves, the slots taken and
  not yet decided, and the requests let pass are at most the limit for each time the count
  started again. Retention (`RetentionInv`): who holds the advisory lock is the one that
  runs, and what it picked may still go, so only what became needed later is lost.
- `GitHubListings` (`ListingInv`): what was collected is of listings there were, and either one
  of them had all of it at that total, or items came and went meanwhile (`Incomparable`).
- `Startup` (`StartupInv`): migrations are applied from the first on without a gap, and a
  process past the check relies on nothing newer than the next release (`Sound`). Legacy
  (`LegacyInv`): a transaction takes its deliveries, then its organizations, each in order,
  and has none it has not come to yet (`CopyOK`); hence no circle of waiting, and what it
  writes is based on what is on record.
- `HealthPage` (`HealthInv`): what the page shows is not from before what it saved, and when it
  is of that moment agrees with it (`Agrees`); what it has, or is about to get, lacks only
  changes whose notification is due, on its way or lost after the page last asked
  (`FreshOK`), hence at rest only due and lost ones. That the poll then asks again within 30 s
  is in the model as a step that may be taken at any time; that it is taken is not claimed.

Periods:

- `Weekly`, digests (`DigestInv`): a week is queued when it is over and once (`RunsOK`); while
  the offset and the schedule stay, the newest week queued is that of the last due time,
  and none before it is missing (`SteadyOK`). One that is sent (`DigestSendInv`): the history
  since the summary was read has all that is so now (`SinceOK`) and whatever was looked at
  again (`LookedAgain`), hence what is sent; each of it at a moment of its own.
  Recap (`RecapInv`): the page waits for one save
  at most, of its own week, and knows the others it left (`NoteSavesOK`); what it takes for
  saved is, unless the week is one of these. The queries that answered as at first at some
  moment since the note was read or written are all that do so now, and all that the recheck
  has asked (`StillHeldOK`), so all of them when it commits.
- `PulsePages`, history (`PulseInv`): the rows shown are in order, of one scope, and reach each
  event of that scope as far as they go (`HistoryOK`); a page on its way fits at their end
  (`LoadOK`), so an event is shown once and none is passed over. Sums (`SumInv`): of the rows
  read, a newest of each id is kept (`CanonicalOK`); the database picks one of the same id
  and time, though perhaps another row, so whatever depends on the time alone has as many
  rows in both (`SameCount`), and the repository too where ties agree in it (`NoTies`);
  each total is the number of rows counted for it (`TalliedOK`). Both computations thus agree on lists of any length: the fold is a step of the model for each row, and no
  induction over data is needed.

The assumptions are those of the modules, `…Assumption` in each: finitely many requests,
posts or replicas under way (`Saving`, `Making`, `Posting`, `Replica`), finitely many stored events and
listed items (`Past`, `Listable`), positive limits, tables that are apart (`Announced`,
`Dispatch`, `RadarPull`), a newest release, deliveries and organizations numbered in the
order in which they are locked, a calendar that begins after two weeks, and no name of an
absence among the names. All of them hold of the code by what these things are.

Proving and reading the models again changed them where they were wrong or said too little:

- `SharedIsCurrent` asked for one moment at which a link let a repository be read *and* its
  creator was a member of an active installation. The code reads these one after the other, so they may
  have come and gone between; two changes of the standing (`MaxTurns`) were too few for
  TLC to see it. The property now speaks of the link and its grant (`Granting`).
- `AccountsSafe` had `WorkspacesSafe` outside of any `[]`, so TLC evaluated it in initial
  states only; it is now checked in every state and has mutants of its own.
- CASE alternatives that overlapped (`Shares`, `Templates`) are disjoint now: TLC takes the
  first, the semantics any.
- The orders of services were sequences and are relations now; a query's rows in `PulsePages`
  were one sequence taken by `CHOOSE` and are any that lists them newest first.
- What the models used without saying so is assumed by name: finitely many requests
  and rows, a newest release, a last tick that is not before the first.
- `viewer` asks whether a team's installation is active and then for the stored access, two
  awaits which `Workspaces` had merged into one. `ShownIsVisible` speaks of the access that is
  stored, at one moment, and of the installation at another, both since the last check began.
- The rechecks of a recap and of a digest were one step with the COMMIT or the sending that
  they guard, so that what the guard said held by its shape. They are now as many steps as
  the code has queries, and the properties are about a history: nothing is committed, shown
  or sent if part of what it rests on was gone all the time since it was written or read.
- Notifications of the Service Health page always arrived. They are lost now as the code
  loses them, and the page at rest may lack exactly these changes, until its poll.
- The database's way to tell rows of one event apart was the browser's. It is the SQL's now,
  which differs on ties, and so does what `SumsSafe` says of repositories.
- Names of pushed heads must differ from the words of GitHub's actions
  (`EventIdsAssumption`), and names in `LiveFeed` from those of their absence.

**Only model-checked.** Liveness (`delivery_liveness`, `routing_liveness`,
`health_liveness`, `feed_liveness`): fairness and `ENABLED` are outside the proof system.
`BodiesSafe`, templates and filters: the grammar of a template and its rendering are
recursive over data of any length. Their operators are `RECURSIVE`, and induction over data
is outside the installed provers; TLC checks them on every input within the bounds.
`NarrowingHolds` (`access_undone`) is not proved, since it does not hold.

## 6. Where code and documents differ, and what to know

A run ends in a counterexample for the first; the others follow from the models.

- `access_undone`: `workspace-app.ts` says that a cut during the GitHub reads makes a listing
  stale and that `replaceAccess` rejects it. A narrowing whose first statement passes over
  a row that a refresh is inserting bumps no version, and the listing is stored.
- A success that cannot be recorded is sent again after its lease
  (`docs/architecture.md:129`: "without sending twice").
- A crash between recording a 410 and pausing leaves the webhook on
  (`docs/webhooks.md:109`).
- The access check passed in by `index.ts` turns a failed lookup into "no access", so the
  branch that would retry (`webhook-worker.ts:232`) is never taken.
- A recovery routed while another replica's alert is not yet committed leaves that
  alert's cooldown running (`docs/webhooks.md:96`).
- After a key that does not open, a down probe is unknown, and the first pass after the
  repair resolves its incident (`docs/service-health.md:60`); new rules on a degraded
  probe make its next pass no recovery (`docs/webhooks.md:18`).
- "Saving the webhook turns it back on" (`WebhooksPage.tsx:275`): the form of a paused
  webhook opens with deliveries off, so saving it unchanged leaves it paused.

Webhooks and digests. Caps on webhooks and endpoints are a count and then an insert. A
template's output limit counts text inside blocks once per enclosing block
(`webhook-template.ts:607`). The 10 s timer of a delivery starts after its DNS lookup
(`outbound.ts:145`), a probe's covers it; a delivery whose body is slow is "no answer"
and retried. Inbound alerts are told apart for 30 days. When clocks go back in a zone
ahead of UTC with an early-Monday schedule a week gets no digest; `DigestsSafe` excepts
it. Retention deletes a delivery queued again after the events statement looked. On the
webhooks page the end of a save closes whatever editor is open by then, a second reveal
replaces the first, a rotation that fails shows nothing, and a secret whose answer is
lost was stored and is never shown; an older form writes back every field but the
address, headers and secret, a switch the worker turned off included.

Access and identity. `connectInstallation` sets `active` from an earlier look at GitHub
and can undo a suspension. `setPersonalSources` checks a choice in an earlier read than
its write. After logout the provider's tokens may stay valid. The stream's route reads
its viewer before it subscribes, and again only with a queued operation or a heartbeat
(25 s). A tab that heard "session-clearing" and never "session-changed" stays signed out
until it is loaded again; choosing the demo on a page linked to a workspace is undone.

Pages. A saved view drops a journal tag of 41 to 80 characters and texts with control
characters (`saved-views.ts:110`), so it opens a wider feed. Two tabs that rename a view
and change its address can undo each other (`saved-views.ts:107`). A dialog opened by a
link and then turned into another's is closed by leaving the page
(`App.tsx:1190`). A change of a saved view whose answer was lost may be stored after the
dialog has read its list again. After a save whose answer was lost the recap's export may
hold another text than the page. A reflection is rechecked and then committed
(`recap-app.ts:87-89`), and the recheck reads the access in several queries: access lost after
a query's turn does not stop the save. A digest is likewise sent though access was lost after
its turn in the second look (`webhook-worker.ts:328-355`). A revision that arrives while a Pulse page loads is checked with the
next one. The refresh inside a Service Health mutation is always discarded and asked
again; `deleteService` and `renameService` notify in a statement of their own, which may
fail when the change is made; after that, or when the LISTEN connection was down, an open
page shows the old services until its poll (30 s). Of an event stored for two organizations
with one time the browser and the database may count different rows
(`shared/pulse.ts:159-169`), hence different repositories. The
review list reads pulls and states in two queries; they are modelled as one. Of two reviews
or checks with the same time the digest takes the one of the lower key, the follow-through
that of the higher and the page either, so they may differ on a tie; `RadarsAgree` says so.

GitHub's reports. The steps of a check run before its end share `started_at`, so a late
"queued" replaces "in progress" until the run completes; a report without its time counts
as observed when it arrives (`wall-normalize.ts:27`). A pull request's opening told by a
public event without `created_at` gets an id of its own (`normalize.ts:109`), and is then
listed twice.

Upkeep. A late writer of an earlier rate window restarts the count. A listing accepted
while GitHub both added and removed items may be one GitHub never had. A running release
is not stopped when a newer one migrates the schema further. A workflow that flaps is
announced once per status, and a live event that an import stored first is never
announced.

## 7. What is not modelled

`PROJECT.json` gives each component's status and what is left out of it. Not modelled as a
whole: **experience points** (`xp.ts` beyond the evidence of credit, read-only SQL),
**logging and metrics** (no state others read), **deployment scripts**, and the
**rendering** of the client: layout, charts, animations, the other forms and wording, including the
wall's scenes and the journal's composer. Of the client's state, the history of dialogs
and overlays (`useRoute.ts`) and the demo are left out.

Within the modelled parts: cryptography and signatures are outcomes a step may have;
dates, helpers and wording of templates, service names, caps and daily figures of
Service Health, profiles, cookie attributes and CSRF tokens, and the layout of answers
are data no property needs. Skew between the replicas' clocks does not arise, since
leases, waits, cooldowns and windows are compared with the database's `now()`.
