----------------------------- MODULE PageIdentity -----------------------------
(***************************************************************************)
(* Who a browser tab believes it is and which workspace it shows           *)
(* (useFeed.ts): session and workspace reads, explicit and linked          *)
(* selections, sign-out across tabs, connecting an installation and the    *)
(* operations that hide the page until they are confirmed.                 *)
(***************************************************************************)
EXTENDS Naturals, FiniteSets, Sequences

CONSTANTS
  User, NoUser,
  Space,           \* workspaces
  NoSpace,
  Call,            \* requests of the tab in flight
  MaxPageTurns         \* bound: changes of the server's side and acts of the person

ASSUME PageIdentityAssumption ==
  /\ NoUser \notin User /\ NoSpace \notin Space /\ MaxPageTurns \in Nat

VARIABLES
  cookie,       \* the user of the session both tabs share, on the server
  mine,         \* workspaces of each user, on the server
  pageTurns,
  heard,        \* messages of the other tab that this tab has not handled
  other,        \* the other tab is between its two messages
  tab,          \* the refs and state of the hook
  call,         \* requests in flight
  connecting    \* connectInstallation

pageVars == <<cookie, mine, pageTurns, heard, other, tab, call, connecting>>

-----------------------------------------------------------------------------
None == [kind |-> "none"]

\* fresh: the serial, generation or sequence it was sent with is still the tab's;
\* latest: latestWorkspaceLoad; old (history): who or what the tab shows changed since.
Calls ==
  [kind : {"session", "list", "feed", "operation", "signout"}, by : User \cup {NoUser},
   of : Space \cup {NoSpace}, fresh : BOOLEAN, latest : BOOLEAN, old : BOOLEAN,
   answer : {"none", "refused", "failed", "ok"}, who : User \cup {NoUser},
   spaces : SUBSET Space]

\* leaving: pendingLogout; shown: the workspace whose private events are on the page.
Tab ==
  [user : User \cup {NoUser}, authorized : SUBSET Space, space : Space \cup {NoSpace},
   initial : BOOLEAN, blocked : BOOLEAN, leaving : BOOLEAN,
   operation : {"none", "pending", "failed"}, shown : Space \cup {NoSpace},
   link : Space \cup {NoSpace}]

NotConnecting == [is |-> "none"]

PageTypeOK ==
  /\ cookie \in User \cup {NoUser}
  /\ mine \in [User -> SUBSET Space]
  /\ pageTurns \in 0 .. MaxPageTurns
  /\ heard \in Seq({"session-clearing", "session-changed"})
  /\ other \in BOOLEAN
  /\ tab \in Tab
  /\ call \in [Call -> Calls \cup {None}]
  /\ connecting \in {NotConnecting} \cup
       [is : {"asking", "joining"}, by : User, space : Space, same : BOOLEAN, unchosen : BOOLEAN]

PageInit ==
  /\ cookie \in User
  /\ mine \in [User -> SUBSET Space]
  /\ pageTurns = 0
  /\ heard = <<>>
  /\ other = FALSE
  /\ tab = [user |-> NoUser, authorized |-> {}, space |-> NoSpace, initial |-> TRUE,
            blocked |-> FALSE, leaving |-> FALSE, operation |-> "none", shown |-> NoSpace,
            link |-> NoSpace]
  /\ call = [c \in Call |-> None]
  /\ connecting = NotConnecting

around == <<cookie, mine, heard, other>>
behind == <<around, pageTurns>>

PageTurn == pageTurns < MaxPageTurns /\ pageTurns' = pageTurns + 1

-----------------------------------------------------------------------------
(* What the tab does to its refs. *)

\* Requests of these kinds are no longer the last of theirs.
Overtaken(kinds, cs) ==
  [c \in Call |-> IF cs[c] # None /\ cs[c].kind \in kinds
                  THEN [cs[c] EXCEPT !.fresh = FALSE] ELSE cs[c]]

Older(kinds, cs) ==
  [c \in Call |-> IF cs[c] # None /\ cs[c].kind \in kinds
                  THEN [cs[c] EXCEPT !.old = TRUE] ELSE cs[c]]

\* clearPrivate: a new generation drops the feed requests in flight.
ClearPrivate(cs) == Overtaken({"feed"}, cs)

\* applyWorkspace: nothing while an operation is pending.
Applied(t, s) ==
  IF t.operation = "pending" THEN t
  ELSE [t EXCEPT !.operation = "none", !.space = s, !.initial = FALSE, !.blocked = FALSE,
                 !.shown = NoSpace]

AppliedCalls(t, cs) ==
  IF t.operation = "pending" THEN cs ELSE Older({"feed"}, ClearPrivate(cs))

ClearIdentity(t) ==
  [t EXCEPT !.operation = "none", !.authorized = {}, !.user = NoUser, !.space = NoSpace,
            !.initial = TRUE, !.shown = NoSpace]

\* The other serials that clearIdentity moves on.
ClearedCalls(cs) ==
  LET gone == {"list", "feed", "operation"} IN
  [c \in Call |-> IF cs[c] # None /\ cs[c].kind \in gone
                  THEN [cs[c] EXCEPT !.fresh = FALSE, !.old = TRUE, !.latest = FALSE]
                  ELSE cs[c]]

Elsewhere == IF connecting = NotConnecting THEN connecting
             ELSE [connecting EXCEPT !.same = FALSE]

FailPrivate(t) == [t EXCEPT !.blocked = TRUE, !.shown = NoSpace]

\* chooseInitialWorkspace, whatever this browser remembers.
Choices(spaces) == IF spaces = {} THEN {NoSpace} ELSE spaces

Blank(kind) ==
  [kind |-> kind, by |-> tab.user, of |-> NoSpace, fresh |-> TRUE, latest |-> FALSE,
   old |-> FALSE, answer |-> "none", who |-> NoUser, spaces |-> {}]

Sent(c, kind, cs) == [Overtaken({kind}, cs) EXCEPT ![c] = Blank(kind)]

-----------------------------------------------------------------------------
(* The server's side and the other tab. *)

\* A sign-in of another tab, or an expiry: no message.
CookieTurns ==
  /\ PageTurn
  /\ cookie' \in (User \cup {NoUser}) \ {cookie}
  /\ UNCHANGED <<mine, heard, other, tab, call, connecting>>

SpacesTurn(u) ==
  /\ PageTurn
  /\ \E S \in SUBSET Space : S # mine[u] /\ mine' = [mine EXCEPT ![u] = S]
  /\ UNCHANGED <<cookie, heard, other, tab, call, connecting>>

\* The other tab's logout, up to its request ...
OtherClears ==
  /\ PageTurn
  /\ ~other /\ other' = TRUE
  /\ heard' = Append(heard, "session-clearing")
  /\ UNCHANGED <<cookie, mine, tab, call, connecting>>

\* ... and when the server has answered; it may also never come.
OtherLeft ==
  /\ other /\ other' = FALSE
  /\ cookie' = NoUser
  /\ heard' = Append(heard, "session-changed")
  /\ UNCHANGED <<mine, pageTurns, tab, call, connecting>>

\* A request reaches the server.
Serve(c) ==
  /\ call[c] # None /\ call[c].answer = "none"
  /\ LET k == call[c].kind
         u == cookie
     IN \/ k = "session" /\ call' = [call EXCEPT ![c].answer = "ok", ![c].who = u]
        \/ k # "session" /\ u = NoUser /\ call' = [call EXCEPT ![c].answer = "refused"]
        \/ k = "list" /\ u # NoUser
           /\ call' = [call EXCEPT ![c].answer = "ok", ![c].spaces = mine[u]]
        \/ k = "feed" /\ u # NoUser /\ call[c].of \in mine[u]
           /\ call' = [call EXCEPT ![c].answer = "ok", ![c].who = u]
        \/ k = "feed" /\ u # NoUser /\ call[c].of \notin mine[u]
           /\ call' = [call EXCEPT ![c].answer = "refused", ![c].who = u]
        \/ k \in {"operation", "signout"} /\ u # NoUser /\ u = call[c].by
           /\ call' = [call EXCEPT ![c].answer = "ok"]
        \/ k = "operation" /\ u # NoUser /\ u # call[c].by   \* a token of another session
           /\ call' = [call EXCEPT ![c].answer = "refused", ![c].who = u]
        \/ k = "signout" /\ u # NoUser /\ u # call[c].by
           /\ call' = [call EXCEPT ![c].answer = "failed"]
        \/ call' = [call EXCEPT ![c].answer = "failed"]
  /\ cookie' = IF call[c].kind = "signout" /\ call'[c].answer = "ok" THEN NoUser ELSE cookie
  /\ UNCHANGED <<mine, pageTurns, heard, other, tab, connecting>>

CallAnswered(c, kind, answers) ==
  call[c] # None /\ call[c].kind = kind /\ call[c].answer \in answers

FreeCall(c) == call[c] = None

-----------------------------------------------------------------------------
(* Sessions. *)

LoadSession(c) ==
  /\ FreeCall(c)
  /\ ~tab.leaving
  /\ call' = Sent(c, "session", call)
  /\ UNCHANGED <<behind, tab, connecting>>

Whichever(c) == TRUE

NewestRead(c) == call[c].fresh

\* The user it names replaces the tab's, and its workspaces are read.
SessionArrives(c) ==
  /\ CallAnswered(c, "session", {"ok"})
  /\ LET next == call[c].who
         turned == next # tab.user
         rest == [call EXCEPT ![c] = None]
         calls == IF turned THEN ClearedCalls(rest) ELSE rest
         t == IF turned THEN [ClearIdentity(tab) EXCEPT !.user = next] ELSE tab
     IN IF ~NewestRead(c)
        THEN call' = rest /\ UNCHANGED <<tab, connecting>>
        ELSE /\ tab' = t
             /\ connecting' = IF turned THEN Elsewhere ELSE connecting
             /\ call' = IF next = NoUser THEN calls
                        ELSE [Overtaken({"list"}, [d \in Call |->
                                IF calls[d] = None THEN None
                                ELSE [calls[d] EXCEPT !.latest = FALSE]])
                              EXCEPT ![c] = [Blank("list") EXCEPT !.by = next, !.latest = TRUE]]
  /\ UNCHANGED behind

SessionFails(c) ==
  /\ CallAnswered(c, "session", {"failed"})
  /\ LET rest == [call EXCEPT ![c] = None] IN
     IF NewestRead(c) /\ tab.user # NoUser
     THEN /\ tab' = ClearIdentity(tab)
          /\ call' = ClearedCalls(rest)
          /\ connecting' = Elsewhere
     ELSE call' = rest /\ UNCHANGED <<tab, connecting>>
  /\ UNCHANGED behind

\* The reads before are dropped, whoever asked.
Silenced(cs) == Older({"session"}, Overtaken({"session"}, cs))

\* onmessage of the channel; the read that session-changed starts is LoadSession.
HearOtherTab ==
  /\ heard # <<>>
  /\ heard' = Tail(heard)
  /\ tab' = [ClearIdentity(tab) EXCEPT !.leaving = Head(heard) = "session-clearing"]
  /\ call' = ClearedCalls(Silenced(call))
  /\ connecting' = Elsewhere
  /\ UNCHANGED <<cookie, mine, pageTurns, other>>

LeaveAccount(c) ==
  /\ PageTurn
  /\ FreeCall(c)
  /\ tab.user # NoUser
  /\ tab' = [ClearIdentity(tab) EXCEPT !.leaving = TRUE]
  /\ call' = [ClearedCalls(Silenced(call)) EXCEPT ![c] = Blank("signout")]
  /\ connecting' = Elsewhere
  /\ UNCHANGED around

\* Signed out, or the page asks to try again: leaving stays.
LogoutEnds(c) ==
  /\ CallAnswered(c, "signout", {"ok", "refused", "failed"})
  /\ call' = [call EXCEPT ![c] = None]
  /\ tab' = IF call[c].answer = "failed" THEN tab ELSE [tab EXCEPT !.leaving = FALSE]
  /\ UNCHANGED <<behind, connecting>>

-----------------------------------------------------------------------------
(* Workspaces. *)

\* loadWorkspaces keeps its load for a connection to join; refreshWorkspaces does not.
LoadWorkspaces(c, kept) ==
  /\ FreeCall(c)
  /\ tab.user # NoUser
  /\ call' = [d \in Call |->
       LET sent == Sent(c, "list", call)[d] IN
       IF kept /\ sent # None THEN [sent EXCEPT !.latest = (d = c)] ELSE sent]
  /\ UNCHANGED <<behind, tab, connecting>>

StillAsked(c) == call[c].fresh /\ call[c].by = tab.user

\* What a list leaves the tab with.
SpacesListed(t, spaces, choice) ==
  LET u == [t EXCEPT !.authorized = spaces]
      linked == IF t.link \in spaces THEN t.link ELSE NoSpace
  IN IF t.link # NoSpace
     THEN IF t.space # linked \/ t.initial \/ t.blocked THEN Applied(u, linked) ELSE u
     ELSE IF t.space # NoSpace
     THEN IF t.space \in spaces THEN u ELSE Applied(u, choice)
     ELSE IF t.initial THEN Applied(u, choice) ELSE u

\* A connection that waited for this load selects what it connected, unless the tab has
\* another user or the person chose since.
Joined(t, spaces) ==
  IF connecting.same /\ connecting.unchosen /\ connecting.space \in spaces
  THEN [Applied(t, connecting.space) EXCEPT !.link = NoSpace] ELSE t

JoiningTab(c) == connecting # NotConnecting /\ connecting.is = "joining" /\ call[c].latest

ListArrives(c) ==
  /\ CallAnswered(c, "list", {"ok"})
  /\ LET rest == [call EXCEPT ![c] = None]
         spaces == call[c].spaces
     IN IF ~StillAsked(c)
        THEN call' = rest /\ UNCHANGED tab
        ELSE \E choice \in Choices(spaces) :
               LET t == SpacesListed(tab, spaces, choice)
                   after == IF JoiningTab(c) THEN Joined(t, spaces) ELSE t
               IN /\ tab' = after
                  /\ call' = IF after = [tab EXCEPT !.authorized = spaces] THEN rest
                             ELSE AppliedCalls(tab, rest)
  /\ connecting' = IF JoiningTab(c) THEN NotConnecting ELSE connecting
  /\ UNCHANGED behind

\* accessFailure: without a session the identity ends.
ListFails(c) ==
  /\ CallAnswered(c, "list", {"refused", "failed"})
  /\ LET rest == [call EXCEPT ![c] = None] IN
     IF StillAsked(c) /\ call[c].answer = "refused"
     THEN tab' = ClearIdentity(tab) /\ call' = ClearedCalls(rest) /\ connecting' = Elsewhere
     ELSE /\ call' = rest /\ UNCHANGED tab
          /\ connecting' = IF JoiningTab(c) THEN NotConnecting ELSE connecting
  /\ UNCHANGED behind

\* selectWorkspace by the person; NoSpace is the demo. It takes the workspace out of the
\* address, and the demo chosen on a linked page gives way to a workspace at once.
Choose(s) ==
  /\ PageTurn
  /\ s = NoSpace \/ (tab.user # NoUser /\ s \in tab.authorized)
  /\ tab.operation # "pending"
  /\ \E to \in IF s = NoSpace /\ tab.user # NoUser /\ tab.link # NoSpace
              THEN Choices(tab.authorized) ELSE {s} :
       tab' = [Applied(tab, to) EXCEPT !.link = NoSpace]
  /\ call' = AppliedCalls(tab, call)
  /\ connecting' = IF connecting = NotConnecting THEN connecting
                   ELSE [connecting EXCEPT !.unchosen = FALSE]
  /\ UNCHANGED around

\* The page's address names a workspace, or no longer does.
FollowLink(l) ==
  /\ PageTurn
  /\ l # tab.link
  /\ LET to == IF l = NoSpace THEN NoSpace ELSE IF l \in tab.authorized THEN l ELSE NoSpace
         t == [tab EXCEPT !.link = l]
     IN IF tab.user = NoUser
        THEN tab' = t /\ UNCHANGED <<call, connecting>>
        ELSE IF l = NoSpace
        THEN IF tab.space = NoSpace
             THEN /\ \E s \in Choices(tab.authorized) : tab' = Applied(t, s)
                  /\ call' = AppliedCalls(tab, call)
                  /\ UNCHANGED connecting
             ELSE tab' = t /\ UNCHANGED <<call, connecting>>
        ELSE IF tab.space = to
        THEN tab' = t /\ UNCHANGED <<call, connecting>>
        ELSE /\ tab' = Applied(t, to)
             /\ call' = AppliedCalls(tab, call)
             /\ connecting' = IF connecting = NotConnecting \/ tab.operation = "pending"
                              THEN connecting ELSE [connecting EXCEPT !.unchosen = FALSE]
  /\ UNCHANGED around

-----------------------------------------------------------------------------
(* connectInstallation. *)

Connect(s) ==
  /\ PageTurn
  /\ connecting = NotConnecting
  /\ tab.user # NoUser
  /\ connecting' = [is |-> "asking", by |-> tab.user, space |-> s, same |-> TRUE, unchosen |-> TRUE]
  /\ UNCHANGED <<around, tab, call>>

\* The server has connected it; the list is loaded again.
Connected(c) ==
  /\ connecting # NotConnecting /\ connecting.is = "asking"
  /\ mine' = [mine EXCEPT ![connecting.by] = @ \cup {connecting.space}]
  /\ IF ~connecting.same \/ tab.user = NoUser
     THEN connecting' = NotConnecting /\ UNCHANGED call
     ELSE /\ FreeCall(c)
          /\ connecting' = [connecting EXCEPT !.is = "joining"]
          /\ call' = [d \in Call |->
               LET sent == Sent(c, "list", call)[d] IN
               IF sent = None THEN None ELSE [sent EXCEPT !.latest = (d = c)]]
  /\ UNCHANGED <<cookie, pageTurns, heard, other, tab>>

ConnectFails ==
  /\ connecting # NotConnecting
  /\ connecting.is = "asking" \/ ~connecting.same
  /\ connecting' = NotConnecting
  /\ UNCHANGED <<behind, tab, call>>

-----------------------------------------------------------------------------
(* The feed and the operations that hide it. *)

AskFeed(c) ==
  /\ FreeCall(c)
  /\ tab.user # NoUser /\ tab.space # NoSpace /\ ~tab.blocked
  /\ call' = [Sent(c, "feed", call) EXCEPT ![c].of = tab.space]
  /\ UNCHANGED <<behind, tab, connecting>>

FeedArrives(c) ==
  /\ CallAnswered(c, "feed", {"ok"})
  /\ tab' = IF call[c].fresh THEN [tab EXCEPT !.shown = call[c].of] ELSE tab
  /\ call' = [call EXCEPT ![c] = None]
  /\ UNCHANGED <<behind, connecting>>

FeedFails(c) ==
  /\ CallAnswered(c, "feed", {"refused", "failed"})
  /\ LET rest == [call EXCEPT ![c] = None] IN
     IF ~call[c].fresh THEN call' = rest /\ UNCHANGED <<tab, connecting>>
     ELSE IF call[c].answer = "failed"
     THEN tab' = [tab EXCEPT !.shown = NoSpace] /\ call' = rest /\ UNCHANGED connecting
     ELSE IF call[c].who = NoUser
     THEN tab' = ClearIdentity(tab) /\ call' = ClearedCalls(rest) /\ connecting' = Elsewhere
     ELSE tab' = FailPrivate(tab) /\ call' = ClearPrivate(rest) /\ UNCHANGED connecting
  /\ UNCHANGED behind

\* runPrivateOperation: disconnecting GitHub or deleting a note.
Operate(c) ==
  /\ PageTurn
  /\ FreeCall(c)
  /\ tab.user # NoUser /\ tab.operation # "pending"
  /\ tab' = [tab EXCEPT !.operation = "pending", !.blocked = TRUE, !.shown = NoSpace]
  /\ call' = [Overtaken({"operation"}, ClearPrivate(call)) EXCEPT ![c] = Blank("operation")]
  /\ UNCHANGED <<around, connecting>>

\* Done, or not known to be: then the page stays hidden.
OperationEnds(c) ==
  /\ CallAnswered(c, "operation", {"ok", "failed", "refused"})
  /\ LET rest == [call EXCEPT ![c] = None]
         own == call[c].fresh /\ call[c].by = tab.user
     IN IF call[c].answer = "refused" /\ call[c].by = tab.user /\ call[c].who = NoUser
        THEN tab' = ClearIdentity(tab) /\ call' = ClearedCalls(rest) /\ connecting' = Elsewhere
        ELSE /\ UNCHANGED connecting
             /\ IF call[c].answer = "ok"
                THEN /\ tab' = IF own THEN [tab EXCEPT !.operation = "none", !.blocked = FALSE]
                               ELSE tab
                     /\ call' = rest
                ELSE /\ tab' = IF own THEN FailPrivate([tab EXCEPT !.operation = "failed"])
                               ELSE IF call[c].answer = "refused" /\ call[c].by = tab.user
                               THEN FailPrivate(tab) ELSE tab
                     /\ call' = IF own \/ call[c].answer = "refused"
                                THEN ClearPrivate(rest) ELSE rest
  /\ UNCHANGED behind

\* Reload activity.
RetryPage ==
  /\ tab.operation # "pending"
  /\ tab.blocked
  /\ tab' = [tab EXCEPT !.operation = "none", !.blocked = FALSE]
  /\ call' = Overtaken({"operation"}, call)
  /\ UNCHANGED <<behind, connecting>>

\* pagehide empties the page; what comes back is asked for again.
HidePage ==
  /\ tab.user # NoUser /\ tab.shown # NoSpace
  /\ tab' = [tab EXCEPT !.shown = NoSpace]
  /\ call' = ClearPrivate(call)
  /\ UNCHANGED <<behind, connecting>>

-----------------------------------------------------------------------------
PageNext ==
  \/ CookieTurns \/ (\E u \in User : SpacesTurn(u)) \/ OtherClears \/ OtherLeft \/ HearOtherTab
  \/ \E c \in Call :
       \/ Serve(c)
       \/ LoadSession(c) \/ SessionArrives(c) \/ SessionFails(c)
       \/ LeaveAccount(c) \/ LogoutEnds(c)
       \/ (\E kept \in BOOLEAN : LoadWorkspaces(c, kept)) \/ ListArrives(c) \/ ListFails(c)
       \/ Connected(c)
       \/ AskFeed(c) \/ FeedArrives(c) \/ FeedFails(c)
       \/ Operate(c) \/ OperationEnds(c)
  \/ (\E s \in Space \cup {NoSpace} : Choose(s) \/ FollowLink(s))
  \/ (\E s \in Space : Connect(s))
  \/ ConnectFails \/ RetryPage \/ HidePage

PageSpec == PageInit /\ [][PageNext]_pageVars

-----------------------------------------------------------------------------
(* While the tab signs out, is blocked or waits for an operation, no private event is on   *)
(* the page, and a tab without a user has neither workspaces nor events.                   *)
PageHides ==
  /\ (tab.leaving \/ tab.blocked \/ tab.operation # "none") => tab.shown = NoSpace
  /\ (tab.leaving \/ tab.user = NoUser) =>
       tab.authorized = {} /\ tab.shown = NoSpace /\ tab.user = NoUser
  /\ tab.shown # NoSpace => tab.shown = tab.space

(* Nothing asked before a sign-out or for a former user ever sets the tab: the user, its   *)
(* workspaces and its events come from requests begun after the last change of identity,   *)
(* and a workspace chosen while an installation is being connected stays.                  *)
PageFollows ==
  /\ tab'.user # tab.user /\ tab'.user # NoUser =>
       \E c \in Call : CallAnswered(c, "session", {"ok"}) /\ ~call[c].old /\ call'[c] # call[c]
  /\ tab'.authorized # tab.authorized /\ tab'.authorized # {} =>
       \E c \in Call : /\ CallAnswered(c, "list", {"ok"}) /\ call'[c] = None
                       /\ ~call[c].old /\ call[c].by = tab.user
  /\ tab'.shown # tab.shown /\ tab'.shown # NoSpace =>
       \E c \in Call : /\ CallAnswered(c, "feed", {"ok"}) /\ call'[c] = None
                       /\ ~call[c].old /\ call[c].by = tab.user
  /\ (connecting # NotConnecting /\ connecting' = NotConnecting /\ ~connecting.unchosen
        /\ tab.link = NoSpace /\ ~tab.initial
        /\ tab.space \in tab'.authorized \cup {NoSpace}) =>
       tab'.space = tab.space

\* What a tab shows is its own user's, and stays where the person put it.
PageSafe == [][PageHides' /\ PageFollows]_pageVars
=============================================================================
