------------------------------ MODULE Sessions ------------------------------
(***************************************************************************)
(* Sign-in, sessions and the connection of a GitHub account (auth.ts and   *)
(* the connection flow of workspace-store.ts).  Both are two-step flows: a *)
(* one-time row is made, the browser comes back with its name and a code,  *)
(* the code is exchanged over the network, and the result is stored.       *)
(* Between two steps the browser may log out, start again, or send the     *)
(* same answer twice.                                                      *)
(***************************************************************************)
EXTENDS Naturals, FiniteSets

CONSTANTS
  Browser, NoBrowser,
  Account, NoAccount,     \* users of the identity provider
  Session, NoSession,     \* session cookies, all distinct
  SignIn, NoSignIn,       \* names of sign-in flows, all distinct
  Flow, NoFlow,           \* states of connection flows, all distinct
  Callback                \* callbacks being handled

ASSUME SessionAssumption ==
  /\ NoBrowser \notin Browser /\ NoAccount \notin Account
  /\ NoSession \notin Session /\ NoSignIn \notin SignIn /\ NoFlow \notin Flow

VARIABLES
  session,     \* ship_live_auth_sessions
  signin,      \* ship_live_auth_flows
  jar,         \* each browser's cookies
  flow,        \* ship_live_github_flows, one per account
  granted,     \* ship_live_github_connections: the flow that made the connection
  spent,       \* connection flows ever begun
  callback     \* callbacks between two of their statements

sessionVars == <<session, signin, jar, flow, granted, spent, callback>>

-----------------------------------------------------------------------------
NewSession == [user |-> NoAccount, state |-> "unused", by |-> NoSignIn]
NewSignIn  == [browser |-> NoBrowser, state |-> "unused"]
NoCookies  == [session |-> NoSession, signin |-> NoSignIn, provider |-> NoAccount]
FlowRow    == [id : Flow, session : Session, consumed : BOOLEAN]
Waiting    == [is |-> "nothing"]

\* void is history: the flow was cancelled since the callback consumed it.
Returned ==
  [is : {"signin"}, browser : Browser, signin : SignIn, previous : Session \cup {NoSession}]
  \cup [is : {"connect"}, account : Account, session : Session, flow : Flow, void : BOOLEAN]

SessionTypeOK ==
  /\ session \in [Session -> [user : Account \cup {NoAccount},
                              state : {"unused", "live", "ended"},
                              by : SignIn \cup {NoSignIn}]]
  /\ signin \in [SignIn -> [browser : Browser \cup {NoBrowser},
                            state : {"unused", "open", "ended"}]]
  /\ jar \in [Browser -> [session : Session \cup {NoSession},
                          signin : SignIn \cup {NoSignIn},
                          provider : Account \cup {NoAccount}]]
  /\ flow \in [Account -> FlowRow \cup {NoFlow}]
  /\ granted \in [Account -> Flow \cup {NoFlow}]
  /\ spent \in SUBSET Flow
  /\ callback \in [Callback -> Returned \cup {Waiting}]

SessionInit ==
  /\ session = [s \in Session |-> NewSession]
  /\ signin = [f \in SignIn |-> NewSignIn]
  /\ jar = [b \in Browser |-> NoCookies]
  /\ flow = [a \in Account |-> NoFlow]
  /\ granted = [a \in Account |-> NoFlow]
  /\ spent = {}
  /\ callback = [c \in Callback |-> Waiting]

-----------------------------------------------------------------------------
(* Sign-in. *)

\* /api/auth/:provider/start: the flow remembers the browser by a cookie, of which a
\* later start in the same browser leaves only its own.
StartSignIn(b, f) ==
  /\ signin[f].state = "unused"
  /\ signin' = [signin EXCEPT ![f] = [browser |-> b, state |-> "open"]]
  /\ jar' = [jar EXCEPT ![b].signin = f]
  /\ UNCHANGED <<session, flow, granted, spent, callback>>

\* Every flow ends after ten minutes.
SignInExpires(f) ==
  /\ signin[f].state = "open"
  /\ signin' = [signin EXCEPT ![f].state = "ended"]
  /\ UNCHANGED <<session, jar, flow, granted, spent, callback>>

AnyBrowser(b, f) == signin[f].state = "open"

Consumable(b, f) == signin[f].state = "open" /\ signin[f].browser = b /\ jar[b].signin = f

\* /api/auth/callback consumes the flow in one statement; any browser may present it.
ReturnSignIn(c, b, f) ==
  /\ callback[c] = Waiting
  /\ Consumable(b, f)
  /\ signin' = [signin EXCEPT ![f].state = "ended"]
  /\ jar' = [jar EXCEPT ![b].signin = NoSignIn]
  /\ callback' = [callback EXCEPT ![c] =
       [is |-> "signin", browser |-> b, signin |-> f, previous |-> jar[b].session]]
  /\ UNCHANGED <<session, flow, granted, spent>>

Fails(c) ==
  /\ callback[c] # Waiting
  /\ callback' = [callback EXCEPT ![c] = Waiting]
  /\ UNCHANGED <<session, signin, jar, flow, granted, spent>>

\* Whoever loses its session loses what it was about to connect with it.
Void(S) ==
  [c \in Callback |-> IF callback[c].is = "connect" /\ callback[c].session \in S
                      THEN [callback[c] EXCEPT !.void = TRUE] ELSE callback[c]]

\* The code was good for an account: one transaction ends the session the browser had
\* and makes the new one.
OpenSession(c, a, s) ==
  /\ callback[c].is = "signin"
  /\ session[s].state = "unused"
  /\ session' = [t \in Session |->
       IF t = s THEN [user |-> a, state |-> "live", by |-> callback[c].signin]
       ELSE IF t = callback[c].previous THEN [session[t] EXCEPT !.state = "ended"]
       ELSE session[t]]
  /\ jar' = [jar EXCEPT ![callback[c].browser].session = s,
                        ![callback[c].browser].provider = a]
  /\ callback' = [Void({callback[c].previous}) EXCEPT ![c] = Waiting]
  /\ UNCHANGED <<signin, flow, granted, spent>>

SessionExpires(s) ==
  /\ session[s].state = "live"
  /\ session' = [session EXCEPT ![s].state = "ended"]
  /\ callback' = Void({s})
  /\ UNCHANGED <<signin, jar, flow, granted, spent>>

\* The identity provider ends its own session.
ProviderEnds(b) ==
  /\ jar[b].provider # NoAccount
  /\ jar' = [jar EXCEPT ![b].provider = NoAccount]
  /\ UNCHANGED <<session, signin, flow, granted, spent, callback>>

\* localSession: a request's cookie names a live session.
LocalSession(b, s) == jar[b].session = s /\ s # NoSession /\ session[s].state = "live"

\* authenticate: and the provider vouches for the same account.
SignedIn(b, s) == LocalSession(b, s) /\ jar[b].provider = session[s].user

\* /api/logout asks the local session only: it works without the provider.
Logout(b) ==
  \E s \in Session :
    /\ LocalSession(b, s)
    /\ session' = [session EXCEPT ![s].state = "ended"]
    /\ jar' = [jar EXCEPT ![b] = NoCookies]
    /\ callback' = Void({s})
    /\ UNCHANGED <<signin, flow, granted, spent>>

-----------------------------------------------------------------------------
(* Connecting GitHub. *)

\* A new flow or a disconnect cancels the account's callbacks under way.
Cancel(a) ==
  [c \in Callback |-> IF callback[c].is = "connect" /\ callback[c].account = a
                      THEN [callback[c] EXCEPT !.void = TRUE] ELSE callback[c]]

BeginConnection(b, f) ==
  \E s \in Session :
    /\ SignedIn(b, s)
    /\ f \notin spent /\ spent' = spent \cup {f}
    /\ flow' = [flow EXCEPT ![session[s].user] = [id |-> f, session |-> s, consumed |-> FALSE]]
    /\ callback' = Cancel(session[s].user)
    /\ UNCHANGED <<session, signin, jar, granted>>

FlowExpires(a) ==
  /\ flow[a] # NoFlow
  /\ flow' = [flow EXCEPT ![a] = NoFlow]
  /\ callback' = Cancel(a)
  /\ UNCHANGED <<session, signin, jar, granted, spent>>

Reusable(a, s)     == flow[a] # NoFlow /\ flow[a].session = s
Unconsumed(a, s)   == Reusable(a, s) /\ ~flow[a].consumed

ConsumeConnection(c, b) ==
  \E s \in Session :
    /\ callback[c] = Waiting
    /\ SignedIn(b, s)
    /\ LET a == session[s].user IN
       /\ Unconsumed(a, s)
       /\ flow' = [flow EXCEPT ![a].consumed = TRUE]
       /\ callback' = [callback EXCEPT ![c] =
            [is |-> "connect", account |-> a, session |-> s, flow |-> flow[a].id, void |-> FALSE]]
    /\ UNCHANGED <<session, signin, jar, granted, spent>>

\* completeConnection deletes the consumed flow and share-locks the session it needs, in
\* the transaction that writes the grant.
Claims(c) ==
  LET a == callback[c].account IN
  /\ flow[a] # NoFlow /\ flow[a].id = callback[c].flow
  /\ flow[a].session = callback[c].session /\ flow[a].consumed
AnySession(c)   == TRUE
StillActive(c)  == session[callback[c].session].state = "live"

CompleteConnection(c) ==
  /\ callback[c].is = "connect"
  /\ Claims(c) /\ StillActive(c)
  /\ flow' = [flow EXCEPT ![callback[c].account] = NoFlow]
  /\ granted' = [granted EXCEPT ![callback[c].account] = callback[c].flow]
  /\ callback' = [callback EXCEPT ![c] = Waiting]
  /\ UNCHANGED <<session, signin, jar, spent>>

\* disconnectWith: by the user, by a revoked authorization or by an uncertain refresh.
DisconnectAccount(a) ==
  /\ granted[a] # NoFlow \/ flow[a] # NoFlow
  /\ granted' = [granted EXCEPT ![a] = NoFlow]
  /\ flow' = [flow EXCEPT ![a] = NoFlow]
  /\ callback' = Cancel(a)
  /\ UNCHANGED <<session, signin, jar, spent>>

-----------------------------------------------------------------------------
SessionNext ==
  \/ \E f \in SignIn : SignInExpires(f) \/ \E b \in Browser : StartSignIn(b, f)
  \/ \E c \in Callback :
       \/ \E b \in Browser, f \in SignIn : ReturnSignIn(c, b, f)
       \/ \E a \in Account, s \in Session : OpenSession(c, a, s)
       \/ \E b \in Browser : ConsumeConnection(c, b)
       \/ CompleteConnection(c)
       \/ Fails(c)
  \/ \E s \in Session : SessionExpires(s)
  \/ \E b \in Browser : Logout(b) \/ ProviderEnds(b) \/ \E f \in Flow : BeginConnection(b, f)
  \/ \E a \in Account : FlowExpires(a) \/ DisconnectAccount(a)

SessionSpec == SessionInit /\ [][SessionNext]_sessionVars

-----------------------------------------------------------------------------
(* Properties. *)

\* A sign-in makes at most one session, and the browser that holds its cookie is the one
\* that started it: an answer sent to another browser, or sent twice, signs nobody in.
SignInBound ==
  /\ \A s, t \in Session :
       session[s].by = session[t].by /\ session[s].by # NoSignIn => s = t
  /\ \A b \in Browser :
       jar[b].session # NoSession => signin[session[jar[b].session].by].browser = b

\* A connection is made by a callback whose session is live and whose flow nothing has
\* cancelled since: no logout, disconnect, revocation or newer flow of the account.
GrantsAreCurrent ==
  \A a \in Account :
       (granted'[a] # granted[a] /\ granted'[a] # NoFlow) =>
         \E c \in Callback : /\ callback[c].is = "connect" /\ callback[c].account = a
                             /\ callback[c].flow = granted'[a] /\ ~callback[c].void

\* Who is signed in, and what is connected.
SessionsSafe == [][SignInBound' /\ GrantsAreCurrent]_sessionVars
=============================================================================
