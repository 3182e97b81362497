----------------------------- MODULE Workspaces -----------------------------
(***************************************************************************)
(* What a person reads: their journal and the teams of the GitHub App      *)
(* installations they connected (workspace-store.ts, workspace-app.ts).    *)
(* Membership and a journal's installation are earned by a listing of      *)
(* GitHub under one authorization, while the person may connect another    *)
(* GitHub account, disconnect, or leave.  A page is read under what the    *)
(* viewer may see when the request begins, and shown under what they may   *)
(* see when it ends; each time the workspace, a team's installation and    *)
(* the stored access are read one after the other.                         *)
(*                                                                         *)
(* A personal installation is named by the account it belongs to.  How a   *)
(* listing is fetched and cut is GitHubAccess's; sessions are Sessions's.  *)
(***************************************************************************)
EXTENDS Naturals, FiniteSets

CONSTANTS
  Person,
  GitHubAccount, NoGitHubAccount,
  TeamApp,          \* installations on organizations
  JournalApp,       \* accounts with a personal installation
  NoApp,
  Joining,          \* requests to connect, to leave or to choose sources
  Reading,          \* requests that read a workspace
  MaxGrants,        \* bound: authorizations
  MaxInstalled      \* bound: installations there are

ASSUME WorkspaceAssumption ==
  /\ JournalApp \subseteq GitHubAccount /\ NoGitHubAccount \notin GitHubAccount
  /\ TeamApp \cap JournalApp = {} /\ NoApp \notin TeamApp \cup JournalApp
  /\ MaxGrants \in Nat /\ MaxInstalled \in Nat

VARIABLES
  installed,       \* GitHub: where the App is installed
  authorization,   \* ship_live_github_connections
  authorizations,
  listed,          \* the installations in ship_live_github_access under that generation
  appRow,          \* ship_live_installations
  member,          \* ship_live_workspace_members; the account each was earned under
  journal,         \* the person's own workspace
  joining, reading,
  could,           \* history: what each read might have seen since its last check began
  was              \* history: what its viewer and its team have been since then

workspaceVars == <<installed, authorization, authorizations, listed, appRow, member, journal, joining, reading,
                   could, was>>

-----------------------------------------------------------------------------
App == TeamApp \cup JournalApp
Page  == {"feed", "wall", "pulse"}
\* Activity, and pull requests on the wall, are somebody's.
Event == [app : App, login : GitHubAccount]
NoAuthorization == [account |-> NoGitHubAccount, generation |-> 0]
\* all: every connected installation is a source, later ones included.
NewJournal == [app |-> NoApp, under |-> NoGitHubAccount, all |-> TRUE, chosen |-> {}, mineOnly |-> FALSE]
NoJoin == [step |-> "none"]
NoRead == [step |-> "none"]
\* A read's sources, and the author whose events alone are read.
Scope  == [apps : SUBSET App, author : GitHubAccount \cup {NoGitHubAccount}]
NoScope == [apps |-> {}, author |-> NoGitHubAccount]
NotSeen == [all |-> FALSE, chosen |-> {}, mineOnly |-> FALSE]
Journal == [app : JournalApp \cup {NoApp}, under : GitHubAccount \cup {NoGitHubAccount},
            all : BOOLEAN, chosen : SUBSET App, mineOnly : BOOLEAN]
Settings == [all : BOOLEAN, chosen : SUBSET App, mineOnly : BOOLEAN]

WorkspaceTypeOK ==
  /\ installed \in SUBSET App
  /\ authorization \in [Person -> [account : GitHubAccount, generation : 1 .. MaxGrants] \cup {NoAuthorization}]
  /\ authorizations \in 0 .. MaxGrants
  /\ listed \in [Person -> SUBSET App]
  /\ appRow \in [App -> {"none", "active", "suspended"}]
  /\ member \in [Person -> [TeamApp -> GitHubAccount \cup {NoGitHubAccount}]]
  /\ journal \in [Person -> Journal]
  /\ joining \in [Joining -> [step : {"list", "look", "assert", "connect", "leave"}, person : Person,
                              account : GitHubAccount, generation : 1 .. MaxGrants,
                              add : App \cup {NoApp}, leave : App \cup {NoApp}]
                             \cup [step : {"sources"}, person : Person, all : BOOLEAN,
                                   chosen : SUBSET App, mineOnly : BOOLEAN] \cup {NoJoin}]
  /\ reading \in [Reading -> [step : {"settings", "active", "sources", "data", "answered"}, again : BOOLEAN,
                              person : Person, space : TeamApp \cup {NoApp}, page : Page,
                              initial : Scope, seen : Settings, shown : SUBSET Event]
                             \cup {NoRead}]
  /\ could \in [Reading -> SUBSET Event]
  /\ was \in [Reading -> SUBSET {"member", "active"}]

WorkspaceInit ==
  /\ \E S \in SUBSET App : Cardinality(S) <= MaxInstalled /\ installed = S
  /\ authorization = [p \in Person |-> NoAuthorization] /\ authorizations = 0
  /\ listed = [p \in Person |-> {}]
  /\ appRow = [a \in App |-> "none"]
  /\ member = [p \in Person |-> [t \in TeamApp |-> NoGitHubAccount]]
  /\ journal = [p \in Person |-> NewJournal]
  /\ joining = [q \in Joining |-> NoJoin]
  /\ reading = [r \in Reading |-> NoRead]
  /\ could = [r \in Reading |-> {}] /\ was = [r \in Reading |-> {}]

-----------------------------------------------------------------------------
(* The authorization. *)

\* connectedInstallations.
ConnectedApps(p) == {t \in TeamApp : member[p][t] # NoGitHubAccount} \cup ({journal[p].app} \ {NoApp})

LeaveAll(p) ==
  /\ member' = [member EXCEPT ![p] = [t \in TeamApp |-> NoGitHubAccount]]
  /\ journal' = [journal EXCEPT ![p].app = NoApp, ![p].under = NoGitHubAccount]

StaysMember(p, g) == UNCHANGED <<member, journal>>
\* Another GitHub account has to earn its memberships itself.
AccountChanges(p, g) ==
  IF authorization[p].account \in {NoGitHubAccount, g} THEN UNCHANGED <<member, journal>> ELSE LeaveAll(p)

\* writeGrant; an account is connected to one person.
WriteGrant(p, g) ==
  /\ authorizations < MaxGrants
  /\ \A q \in Person \ {p} : authorization[q].account # g
  /\ AccountChanges(p, g)
  /\ authorizations' = authorizations + 1
  /\ authorization' = [authorization EXCEPT ![p] = [account |-> g, generation |-> authorizations + 1]]
  /\ listed' = [listed EXCEPT ![p] = {}]
  /\ UNCHANGED <<appRow, joining, reading>>

\* disconnectWith: asked for, revoked at GitHub, or after a refresh of an uncertain outcome.
DisconnectGitHub(p) ==
  /\ authorization[p] # NoAuthorization
  /\ authorization' = [authorization EXCEPT ![p] = NoAuthorization]
  /\ listed' = [listed EXCEPT ![p] = {}]
  /\ LeaveAll(p)
  /\ UNCHANGED <<authorizations, appRow, joining, reading>>

\* A refresh or a narrowing of access.
Relist(p) ==
  /\ authorization[p] # NoAuthorization
  /\ \E S \in SUBSET installed : S # listed[p] /\ listed' = [listed EXCEPT ![p] = S]
  /\ UNCHANGED <<authorization, authorizations, appRow, member, journal, joining, reading>>

\* applyLifecycle of an installation, setInstallationActive.
AppTurns(a) ==
  /\ appRow[a] # "none"
  /\ appRow' = [appRow EXCEPT ![a] = IF @ = "active" THEN "suspended" ELSE "active"]
  /\ UNCHANGED <<authorization, authorizations, listed, member, journal, joining, reading>>

-----------------------------------------------------------------------------
(* Connecting and leaving. *)

Joins(q, s) == joining[q] # NoJoin /\ joining[q].step = s
JoinGoes(q, s) == joining' = [joining EXCEPT ![q].step = s]
After(q) == IF joining[q].leave = NoApp THEN [joining EXCEPT ![q] = NoJoin]
            ELSE [joining EXCEPT ![q].step = "leave"]

\* POST connect reads the connection and then access; PUT installations reads first which
\* are connected, connects one that is not and leaves one that is.
StartJoin(q, p, add, leave) ==
  LET added == IF leave # NoApp /\ add \in ConnectedApps(p) THEN NoApp ELSE add
      left  == {leave} \cap ConnectedApps(p)
  IN
  /\ joining[q] = NoJoin /\ authorization[p] # NoAuthorization
  /\ add # leave
  /\ added # NoApp \/ left # {}
  /\ joining' = [joining EXCEPT ![q] =
       [step |-> IF added = NoApp THEN "leave" ELSE "list", person |-> p,
        account |-> authorization[p].account, generation |-> authorization[p].generation,
        add |-> added, leave |-> IF left = {} THEN NoApp ELSE leave]]
  /\ UNCHANGED <<authorization, authorizations, listed, appRow, member, journal, reading>>

\* refreshAccess, under the connection there is now.
ListForJoin(q) ==
  LET p == joining[q].person IN
  /\ Joins(q, "list") /\ authorization[p] # NoAuthorization
  /\ \E S \in SUBSET installed :
       /\ joining[q].add \in S
       /\ listed' = [listed EXCEPT ![p] = S]
  /\ JoinGoes(q, "look")
  /\ UNCHANGED <<authorization, authorizations, appRow, member, journal, reading>>

\* The App's own view: not suspended, and of the account and kind that was listed.
LookAtApp(q) ==
  /\ Joins(q, "look")
  /\ JoinGoes(q, "assert")
  /\ UNCHANGED <<authorization, authorizations, listed, appRow, member, journal, reading>>

SameAuthorization(q) ==
  LET a == authorization[joining[q].person] IN
  a.account = joining[q].account /\ a.generation = joining[q].generation

AssertConnection(q) ==
  /\ Joins(q, "assert") /\ SameAuthorization(q)
  /\ JoinGoes(q, "connect")
  /\ UNCHANGED <<authorization, authorizations, listed, appRow, member, journal, reading>>

AnyAuthorization(q) == authorization[joining[q].person] # NoAuthorization
\* The connection is locked: it is the one whose listing showed the installation.
StillAuthorized(q) == SameAuthorization(q)

ConnectInstallation(q) ==
  LET p == joining[q].person
      a == joining[q].add
  IN
  /\ Joins(q, "connect") /\ StillAuthorized(q)
  /\ a \in JournalApp => a = joining[q].account /\ \A o \in Person \ {p} : journal[o].app # a
  /\ appRow' = [appRow EXCEPT ![a] = "active"]
  /\ IF a \in JournalApp
     THEN journal' = [journal EXCEPT ![p].app = a, ![p].under = joining[q].account] /\ UNCHANGED member
     ELSE /\ member' = [member EXCEPT ![p][a] = IF @ = NoGitHubAccount THEN joining[q].account ELSE @]
          /\ UNCHANGED journal
  /\ joining' = After(q)
  /\ UNCHANGED <<authorization, authorizations, listed, reading>>

DisconnectInstallation(q) ==
  LET p == joining[q].person
      a == joining[q].leave
  IN
  /\ Joins(q, "leave")
  /\ IF a \in ConnectedApps(p)
     THEN /\ member' = [member EXCEPT ![p] = [t \in TeamApp |-> IF t = a THEN NoGitHubAccount ELSE @[t]]]
          /\ journal' = [journal EXCEPT
               ![p].app = IF @ = a THEN NoApp ELSE @,
               ![p].under = IF journal[p].app = a THEN NoGitHubAccount ELSE @,
               ![p].chosen = @ \ {a}]
     ELSE UNCHANGED <<member, journal>>
  /\ joining' = [joining EXCEPT ![q] = NoJoin]
  /\ UNCHANGED <<authorization, authorizations, listed, appRow, reading>>

\* setPersonalSources checks the choice, and writes it in a later transaction.
ChooseSources(q, p, S, mine) ==
  /\ joining[q] = NoJoin
  /\ S \subseteq ConnectedApps(p)
  /\ \E b \in {S = {}, FALSE} :
       joining' = [joining EXCEPT ![q] = [step |-> "sources", person |-> p, all |-> b,
                                          chosen |-> S, mineOnly |-> mine]]
  /\ UNCHANGED <<authorization, authorizations, listed, appRow, member, journal, reading>>

WriteSources(q) ==
  LET c == joining[q] IN
  /\ Joins(q, "sources")
  /\ journal' = [journal EXCEPT ![c.person].all = c.all, ![c.person].chosen = c.chosen,
                                ![c.person].mineOnly = c.mineOnly]
  /\ joining' = [joining EXCEPT ![q] = NoJoin]
  /\ UNCHANGED <<authorization, authorizations, listed, appRow, member, reading>>

\* GitHub does not answer, access is denied, the session has ended.
JoinFails(q) ==
  /\ joining[q] # NoJoin
  /\ joining' = [joining EXCEPT ![q] = NoJoin]
  /\ UNCHANGED <<authorization, authorizations, listed, appRow, member, journal, reading>>

-----------------------------------------------------------------------------
(* Reading a workspace: GET feed, wall and pulse. *)

\* Only its members find a team.
Finds(p, space) == space # NoApp => member[p][space] # NoGitHubAccount

SettingsOf(p, space) ==
  IF space # NoApp THEN NotSeen
  ELSE [all |-> journal[p].all, chosen |-> journal[p].chosen, mineOnly |-> journal[p].mineOnly]

\* personalSources is one query; a team's repositoryAccess asks nothing of the installation.
Readables(p, space, seen) ==
  IF space # NoApp THEN listed[p] \cap {space}
  ELSE {a \in listed[p] \cap ConnectedApps(p) : appRow[a] = "active" /\ (seen.all \/ a \in seen.chosen)}

\* viewer and personalViewer.  Without a login nothing is the owner's own.
ScopeOf(p, space, seen) ==
  LET apps == Readables(p, space, seen) IN
  IF space # NoApp \/ ~seen.mineOnly THEN [apps |-> apps, author |-> NoGitHubAccount]
  ELSE IF apps = {} THEN NoScope
  ELSE [apps |-> apps, author |-> authorization[p].account]

\* A team whose access cannot be shown is denied; a journal keeps its notes.
Denies(p, space, seen) == space # NoApp /\ Readables(p, space, seen) = {}

Within(scope) == {e \in Event : e.app \in scope.apps /\ scope.author \in {NoGitHubAccount, e.login}}

\* The wall's signals are read whoever they are of.
Read(page, scope) == IF page = "wall" THEN Within([scope EXCEPT !.author = NoGitHubAccount]) ELSE Within(scope)

Reads(r, s) == reading[r] # NoRead /\ reading[r].step = s
AfterSettings(space) == IF space = NoApp THEN "sources" ELSE "active"

\* A viewer reads the workspace, then whether a team's installation is active, then the
\* sources.  A request asks for one before its page, and again after it.
StartRead(r, p, space, page) ==
  /\ reading[r] = NoRead /\ Finds(p, space)
  /\ reading' = [reading EXCEPT ![r] =
       [step |-> AfterSettings(space), again |-> FALSE, person |-> p, space |-> space, page |-> page,
        initial |-> NoScope, seen |-> SettingsOf(p, space), shown |-> {}]]
  /\ UNCHANGED <<authorization, authorizations, listed, appRow, member, journal, joining>>

SeeActive(r) ==
  /\ Reads(r, "active") /\ appRow[reading[r].space] = "active"
  /\ reading' = [reading EXCEPT ![r].step = "sources"]
  /\ UNCHANGED <<authorization, authorizations, listed, appRow, member, journal, joining>>

ReadSources(r) ==
  LET x == reading[r] IN
  /\ Reads(r, "sources") /\ ~x.again /\ ~Denies(x.person, x.space, x.seen)
  /\ reading' = [reading EXCEPT ![r].step = "data", ![r].seen = NotSeen,
                                ![r].initial = ScopeOf(x.person, x.space, x.seen)]
  /\ UNCHANGED <<authorization, authorizations, listed, appRow, member, journal, joining>>

\* The feed is refused when an installation was turned off meanwhile.
ReadEvents(r) ==
  /\ Reads(r, "data")
  /\ reading[r].page = "feed" => \A a \in reading[r].initial.apps : appRow[a] = "active"
  /\ reading' = [reading EXCEPT ![r].step = "settings", ![r].again = TRUE,
       ![r].shown = Read(reading[r].page, reading[r].initial),
       ![r].initial = IF reading[r].page = "pulse" THEN @ ELSE NoScope]
  /\ UNCHANGED <<authorization, authorizations, listed, appRow, member, journal, joining>>

ReadSettings(r) ==
  LET x == reading[r] IN
  /\ Reads(r, "settings") /\ Finds(x.person, x.space)
  /\ reading' = [reading EXCEPT ![r].step = AfterSettings(x.space), ![r].seen = SettingsOf(x.person, x.space)]
  /\ UNCHANGED <<authorization, authorizations, listed, appRow, member, journal, joining>>

\* visible: the feed keeps what the viewer may see now.
FeedKeeps(r, scope) == reading[r].shown \cap Within(scope)
\* So does the wall; reviews and checks go with their pull request.
WallKeeps(r, scope) == {e \in reading[r].shown : e.app \in scope.apps
                                             /\ (scope.author = NoGitHubAccount \/ e.login = scope.author)}
Unfiltered(r, scope) == reading[r].shown
\* Pulse shows an aggregate of an unchanged scope, or nothing.
Visible(r, scope) ==
  CASE reading[r].page = "feed"  -> FeedKeeps(r, scope)
    [] reading[r].page = "wall"  -> WallKeeps(r, scope)
    [] reading[r].page = "pulse" -> reading[r].shown

AnswerRead(r) ==
  LET x     == reading[r]
      scope == ScopeOf(x.person, x.space, x.seen)
  IN
  /\ Reads(r, "sources") /\ x.again
  /\ ~Denies(x.person, x.space, x.seen)
  /\ x.page = "pulse" => scope = x.initial
  /\ reading' = [reading EXCEPT ![r].step = "answered", ![r].shown = Visible(r, scope),
                                ![r].seen = NotSeen, ![r].initial = NoScope]
  /\ UNCHANGED <<authorization, authorizations, listed, appRow, member, journal, joining>>

EndRead(r) ==
  /\ reading[r] # NoRead
  /\ reading' = [reading EXCEPT ![r] = NoRead]
  /\ UNCHANGED <<authorization, authorizations, listed, appRow, member, journal, joining>>

-----------------------------------------------------------------------------
WorkspaceStep ==
  \/ \E p \in Person :
       \/ \E g \in GitHubAccount : WriteGrant(p, g)
       \/ DisconnectGitHub(p) \/ Relist(p)
       \/ \E q \in Joining :
            \/ \E a, b \in installed \cup {NoApp} : StartJoin(q, p, a, b)
            \/ \E S \in SUBSET installed, mine \in BOOLEAN : ChooseSources(q, p, S, mine)
       \/ \E r \in Reading, space \in TeamApp \cup {NoApp}, page \in Page :
            StartRead(r, p, space, page)
  \/ \E a \in App : AppTurns(a)
  \/ \E q \in Joining :
       \/ ListForJoin(q) \/ LookAtApp(q) \/ AssertConnection(q) \/ ConnectInstallation(q)
       \/ DisconnectInstallation(q) \/ WriteSources(q) \/ JoinFails(q)
  \/ \E r \in Reading : SeeActive(r) \/ ReadSources(r) \/ ReadEvents(r) \/ ReadSettings(r) \/ AnswerRead(r) \/ EndRead(r)

Checks(r) == reading[r] # NoRead /\ reading[r].again /\ reading[r].step # "answered"

\* A member once the check had begun, and the installation active once they had been one.
Was(r) ==
  LET x == reading[r]
      m == was[r] \cup {w \in {"member"} : Finds(x.person, x.space)}
  IN m \cup {w \in {"active"} : x.space # NoApp /\ "member" \in m /\ appRow[x.space] = "active"}

\* What the last check would let the viewer see of the access that is stored now.
Seen(r) ==
  LET x == reading[r] IN
  IF ~Checks(r) \/ (x.space # NoApp /\ "active" \notin Was(r)) THEN {}
  ELSE Within(ScopeOf(x.person, x.space, IF x.step = "settings" THEN SettingsOf(x.person, x.space) ELSE x.seen))

\* The history is taken of the state that each step leaves.
Remember ==
  /\ was' = [r \in Reading |-> IF Checks(r) THEN Was(r) ELSE {}]
  /\ could' = [r \in Reading |-> IF reading[r] = NoRead THEN {} ELSE could[r] \cup Seen(r)]

WorkspaceNext == WorkspaceStep /\ Remember /\ UNCHANGED installed

WorkspaceSpec == WorkspaceInit /\ [][WorkspaceNext]_workspaceVars

-----------------------------------------------------------------------------
(* Properties. *)

\* Nobody is a member, and no journal has an installation, except by a listing of the
\* GitHub account that is connected now.
MembershipEarned ==
  \A p \in Person :
    /\ \A t \in TeamApp : member[p][t] \in {NoGitHubAccount, authorization[p].account}
    /\ journal[p].under \in {NoGitHubAccount, authorization[p].account}
    /\ journal[p].app = NoApp <=> journal[p].under = NoGitHubAccount

\* An answer shows only what was chosen, and in the stored access, at some moment after
\* the request's last check began; of a team, once the viewer had been a member since then
\* and its installation active after that.  What was lost before is not shown, whenever it
\* was read.
ShownIsVisible ==
  \A r \in Reading : Reads(r, "answered") =>
    reading[r].shown \subseteq could[r]

\* Memberships, and the pages that rest on them.
WorkspacesSafe == MembershipEarned /\ ShownIsVisible
=============================================================================
