------------------------------- MODULE Shares -------------------------------
(***************************************************************************)
(* Dashboard and health links (share-store.ts, share-app.ts).  A link pins *)
(* the repositories its creator could read, under the creator's GitHub     *)
(* grant of that moment; every read through it checks the creator's access *)
(* again, before and after the data is read.  A live stream checks again   *)
(* whenever a change of the creator's standing is notified.                *)
(*                                                                         *)
(* One link of one creator in one team workspace; losses of notifications  *)
(* are the matter of LiveFeed.                                             *)
(***************************************************************************)
EXTENDS Naturals, FiniteSets

CONSTANTS
  Pin,              \* repositories of the workspace's installation
  Visitor,          \* requests that present a link
  MaxStreams,       \* live streams per process (100)
  MaxTokens,        \* bound: links made
  MaxTurns          \* bound: changes of the creator's standing

ASSUME ShareAssumption ==
  /\ IsFiniteSet(Pin) /\ IsFiniteSet(Visitor)
  /\ MaxStreams \in Nat /\ MaxTokens \in Nat /\ MaxTurns \in Nat

VARIABLES
  standing,   \* the creator: membership, connection, installation and synced repositories
  link,       \* the creator's row of ship_live_dashboard_shares
  minted,     \* tokens made so far
  lapsed,     \* tokens whose expiry has passed
  turns,
  maker,      \* a request of the creator that makes or rotates the link
  visitor,    \* what each request that presents a token is doing
  seen        \* history: what its token let it read since its last check began

shareVars == <<standing, link, minted, lapsed, turns, maker, visitor, seen>>

-----------------------------------------------------------------------------
NoLink    == [token |-> 0]
NoMaker   == [step |-> "none"]
NoVisit   == [is |-> "none"]
Unsynced  == [synced |-> FALSE, repos |-> {}]
Synced(S) == [synced |-> TRUE, repos |-> S]

\* generation 0 stands for no connection.
Standing == [member : BOOLEAN, active : BOOLEAN, generation : 0 .. MaxTurns + 1,
             access : {Unsynced} \cup {Synced(S) : S \in SUBSET Pin}]
Link     == [token : 1 .. MaxTokens, generation : 1 .. MaxTurns + 1, pinned : SUBSET Pin]

\* check is the step of the authorization under way; first what the first one allowed,
\* dirty a refresh asked for while one runs, unheard a notification on its way, owed
\* (history) a change since the last authorization began.
Visit ==
  [is : {"feed", "pulse", "health", "stream"}, token : 1 .. MaxTokens,
   check : {"none", "resolve", "access", "again"}, found : SUBSET Pin,
   stage : {"asking", "read", "confirming", "answered", "opening", "open"},
   first : SUBSET Pin, shown : SUBSET Pin,
   dirty : BOOLEAN, unheard : BOOLEAN, owed : BOOLEAN]

ShareTypeOK ==
  /\ standing \in Standing
  /\ link \in Link \cup {NoLink}
  /\ minted \in 0 .. MaxTokens /\ lapsed \in SUBSET (1 .. MaxTokens)
  /\ turns \in 0 .. MaxTurns
  /\ maker \in [step : {"connection", "viewer"}, rotate : BOOLEAN,
                generation : 0 .. MaxTurns + 1, repos : SUBSET Pin] \cup {NoMaker}
  /\ visitor \in [Visitor -> Visit \cup {NoVisit}]
  /\ seen \in [Visitor -> SUBSET Pin]

ShareInit ==
  /\ standing = [member |-> TRUE, active |-> TRUE, generation |-> 1, access |-> Synced(Pin)]
  /\ link = NoLink /\ minted = 0 /\ lapsed = {} /\ turns = 0
  /\ maker = NoMaker
  /\ visitor = [v \in Visitor |-> NoVisit]
  /\ seen = [v \in Visitor |-> {}]

-----------------------------------------------------------------------------
(* The link's row. *)

\* The link is there under the grant it was made with; what its token then lets read.
Granting(t) ==
  link # NoLink /\ link.token = t /\ t \notin lapsed /\ standing.generation = link.generation
Through == [t \in 1 .. MaxTokens |->
              IF Granting(t) THEN link.pinned \cap standing.access.repos ELSE {}]

\* resolve: the join of the link with the standing it was made under.
Resolves(t) == Granting(t) /\ standing.member /\ standing.active

Streaming(v) == visitor[v] # NoVisit /\ visitor[v].stage = "open"

\* The trail of what each visitor could have read since its check began, or since its
\* data were read.
Follow ==
  seen' = [v \in Visitor |->
    IF visitor'[v] = NoVisit THEN {}
    ELSE IF visitor'[v].check = "resolve" \/ visitor'[v].stage = "read" THEN Through'[visitor'[v].token]
    ELSE seen[v] \cup Through'[visitor'[v].token]]

\* A commit that notifies one of the scopes the streams listen to.
Announce ==
  visitor' = [v \in Visitor |->
    IF visitor[v] = NoVisit THEN NoVisit
    ELSE [visitor[v] EXCEPT !.unheard = @ \/ Streaming(v), !.owed = TRUE]]

\* workspace-store.ts: leaving the team, another grant, disconnecting, a suspended
\* installation, a refresh or a narrowing of access.  Each notifies.
Changed ==
  \/ \E b \in BOOLEAN : standing' = [standing EXCEPT !.member = b]
  \/ \E b \in BOOLEAN : standing' = [standing EXCEPT !.active = b]
  \/ standing' = [standing EXCEPT !.generation = turns + 2, !.access = Unsynced]
  \/ standing' = [standing EXCEPT !.generation = 0, !.access = Unsynced]
  \/ \E S \in SUBSET Pin :
       /\ standing.generation # 0
       /\ standing' = [standing EXCEPT !.access = Synced(S)]

Turn ==
  /\ turns < MaxTurns /\ turns' = turns + 1
  /\ Changed /\ Announce
  /\ UNCHANGED <<link, minted, lapsed, maker>> /\ Follow

Lapse ==
  /\ link # NoLink /\ link.token \notin lapsed
  /\ lapsed' = lapsed \cup {link.token}
  /\ UNCHANGED <<standing, link, minted, turns, maker, visitor>> /\ Follow

-----------------------------------------------------------------------------
(* Making a link: POST /share and /share/rotate. *)

\* The viewer of a team workspace.
Readable == standing.member /\ standing.active /\ standing.access.synced

StartMaking(rotate) ==
  /\ maker = NoMaker
  /\ standing.member
  /\ maker' = [step |-> "connection", rotate |-> rotate, repos |-> {},
               generation |-> standing.generation]
  /\ UNCHANGED <<standing, link, minted, lapsed, turns, visitor>> /\ Follow

ReadViewer ==
  /\ maker # NoMaker /\ maker.step = "connection"
  /\ maker' = IF maker.generation # 0 /\ Readable /\ standing.access.repos # {}
              THEN [maker EXCEPT !.step = "viewer", !.repos = standing.access.repos]
              ELSE NoMaker
  /\ UNCHANGED <<standing, link, minted, lapsed, turns, visitor>> /\ Follow

AnyGrant   == maker.rotate \/ link = NoLink \/ link.token \in lapsed
\* The statement rechecks membership, the grant and the installation; an unexpired link
\* is replaced by a rotation only.
Creatable ==
  /\ standing.member /\ standing.active /\ standing.generation = maker.generation
  /\ AnyGrant

Create ==
  /\ maker # NoMaker /\ maker.step = "viewer" /\ minted < MaxTokens
  /\ maker' = NoMaker
  /\ IF Creatable
     THEN /\ minted' = minted + 1
          /\ link' = [token |-> minted + 1, generation |-> maker.generation,
                      pinned |-> maker.repos]
          /\ Announce
     ELSE UNCHANGED <<minted, link, visitor>>
  /\ UNCHANGED <<standing, lapsed, turns>> /\ Follow

Revoke ==
  /\ standing.member /\ link # NoLink
  /\ link' = NoLink
  /\ Announce
  /\ UNCHANGED <<standing, minted, lapsed, turns, maker>> /\ Follow

-----------------------------------------------------------------------------
(* A visitor. *)

Become(v, x) ==
  /\ visitor' = [visitor EXCEPT ![v] = x]
  /\ UNCHANGED <<standing, link, minted, lapsed, turns, maker>> /\ Follow

Checking(x, stage) == [x EXCEPT !.stage = stage, !.check = "resolve", !.found = {}, !.owed = FALSE]

Visits(v, is, t) ==
  /\ visitor[v] = NoVisit
  /\ Become(v, [is |-> is, token |-> t, check |-> "resolve", found |-> {}, stage |-> "asking",
                first |-> {}, shown |-> {}, dirty |-> FALSE, unheard |-> FALSE, owed |-> FALSE])

At(v, check) == visitor[v] # NoVisit /\ visitor[v].check = check

\* authorize: resolve, the creator's access, resolve again.
Resolve(v) ==
  /\ At(v, "resolve")
  /\ Become(v, IF Resolves(visitor[v].token) THEN [visitor[v] EXCEPT !.check = "access"]
               ELSE NoVisit)

ReadAccess(v) ==
  /\ At(v, "access")
  /\ Become(v, IF standing.access.synced
               THEN [visitor[v] EXCEPT !.check = "again", !.found = standing.access.repos]
               ELSE NoVisit)

\* What a request goes on with once it is authorized for S.
Granted(x, S) ==
  LET y == [x EXCEPT !.check = "none", !.found = {}] IN
  CASE x.stage = "asking" /\ x.is = "stream" -> [y EXCEPT !.stage = "opening"]
    [] x.stage = "asking" /\ x.is # "stream" -> [y EXCEPT !.stage = "read", !.first = S]
    [] x.stage = "confirming" ->
         IF x.is # "pulse" THEN [y EXCEPT !.stage = "answered", !.shown = x.first \cap S]
         ELSE IF S = x.first THEN [y EXCEPT !.stage = "answered", !.shown = S] ELSE NoVisit
    [] x.stage = "open" ->
         IF x.dirty THEN Checking([x EXCEPT !.dirty = FALSE], "open") ELSE y

Authorized(v) ==
  LET x == visitor[v]
      S == x.found \cap link.pinned IN
  /\ At(v, "again")
  /\ Become(v, IF Resolves(x.token) /\ (x.is # "health" \/ S # {}) THEN Granted(x, S) ELSE NoVisit)

Unconfirmed(x) == [x EXCEPT !.stage = "answered", !.shown = x.first]
\* The data is read; what it may show is decided by a second authorization.
Confirm(x)     == Checking(x, "confirming")

ReadData(v) ==
  /\ visitor[v] # NoVisit /\ visitor[v].stage = "read"
  /\ Become(v, Confirm(visitor[v]))

Leaves(v) ==
  /\ visitor[v] # NoVisit
  /\ Become(v, NoVisit)

OpenAsIs(x)    == [x EXCEPT !.stage = "open"]
\* The stream subscribes and at once authorizes again: what changed in between was
\* notified to nobody.
Opened(x)      == Checking(x, "open")

OpenStream(v) ==
  /\ visitor[v] # NoVisit /\ visitor[v].stage = "opening"
  /\ Become(v, IF Cardinality({u \in Visitor : Streaming(u)}) < MaxStreams
                  /\ visitor[v].token \notin lapsed
               THEN Opened(visitor[v]) ELSE NoVisit)

\* refresh: one authorization at a time, and one more if any was asked for meanwhile.
Refreshed(x) == IF x.check = "none" THEN Checking(x, "open") ELSE [x EXCEPT !.dirty = TRUE]

Hear(v) ==
  /\ Streaming(v) /\ visitor[v].unheard
  /\ Become(v, Refreshed([visitor[v] EXCEPT !.unheard = FALSE]))

\* Every 25 seconds.
Heartbeat(v) ==
  /\ Streaming(v) /\ ~visitor[v].unheard
  /\ Become(v, Refreshed(visitor[v]))

\* The stream's own timer.
EndsAtExpiry(v) ==
  /\ Streaming(v) /\ visitor[v].token \in lapsed
  /\ Become(v, NoVisit)

ShareNext ==
  \/ Turn \/ Lapse \/ ReadViewer \/ Create \/ Revoke
  \/ \E rotate \in BOOLEAN : StartMaking(rotate)
  \/ \E v \in Visitor :
       \/ \E t \in 1 .. minted, is \in {"feed", "pulse", "health", "stream"} : Visits(v, is, t)
       \/ Resolve(v) \/ ReadAccess(v) \/ Authorized(v) \/ ReadData(v) \/ Leaves(v)
       \/ OpenStream(v) \/ Hear(v) \/ Heartbeat(v) \/ EndsAtExpiry(v)

ShareSpec == ShareInit /\ [][ShareNext]_shareVars

-----------------------------------------------------------------------------
(* Properties. *)

\* An answer shows a repository only if the link and the grant it pins let it be read at
\* some moment since the data were read or the authorization that followed began: what
\* was unpinned, revoked or lost before is not shown, although it was allowed, and read,
\* when the request came in.  (Membership and the installation are looked at on both sides
\* of that moment, and may have gone and come back between.)
SharedIsCurrent ==
  \A v \in Visitor : visitor[v] # NoVisit /\ visitor[v].stage = "answered" =>
                       visitor[v].shown \subseteq seen[v]

\* A stream with nothing on its way to it and no check under way was checked after the
\* last change of its link and of the creator's standing, and its link still resolves
\* or has expired and its timer is about to end it.
StreamsFollow ==
  \A v \in Visitor :
    Streaming(v) /\ visitor[v].check = "none" /\ ~visitor[v].unheard =>
      /\ ~visitor[v].owed
      /\ Resolves(visitor[v].token) \/ visitor[v].token \in lapsed

\* Links show, and streams follow, what may be read.
SharesSafe == SharedIsCurrent /\ StreamsFollow
=============================================================================
