---------------------------- MODULE StoresProofs ----------------------------
(***************************************************************************)
(* Theorems about the stores behind a workspace's pages: sign-in and       *)
(* connections, a person's workspaces, shared pages, imports, reviews,     *)
(* activity and its ids, and the wall, and about all that MCStores checks, *)
(* for any values of the constants.                                        *)
(***************************************************************************)
EXTENDS MCStores, TLAPS, FiniteSetTheorems

-----------------------------------------------------------------------------
(* Sign-in, sessions and connections (Sessions). *)

Signing    == [is : {"signin"}, browser : Browser, signin : SignIn, previous : Session \cup {NoSession}]
Connecting == [is : {"connect"}, account : Account, session : Session, flow : Flow, void : BOOLEAN]

SessionRow == [user : Account \cup {NoAccount}, state : {"unused", "live", "ended"}, by : SignIn \cup {NoSignIn}]

\* A session that was ever opened is an account's and comes from one sign-in, which has
\* ended; a browser's cookie names such a session of a sign-in that this browser began.
SessionsFit ==
  /\ \A s \in Session : session[s].state # "unused" =>
       /\ session[s].user \in Account
       /\ session[s].by \in SignIn /\ signin[session[s].by].state = "ended"
  /\ \A s, t \in Session :
       session[s].by = session[t].by /\ session[s].by # NoSignIn => s = t
  /\ \A b \in Browser : jar[b].session # NoSession =>
       /\ session[jar[b].session].state # "unused"
       /\ signin[session[jar[b].session].by].browser = b

\* A sign-in that came back has ended and opened no session yet, and no other callback
\* has it.
SignInsFit ==
  /\ \A s \in Session : session[s].state = "unused" => session[s].by = NoSignIn
  /\ \A c \in Callback : callback[c].is = "signin" =>
       /\ signin[callback[c].signin].state = "ended"
       /\ signin[callback[c].signin].browser = callback[c].browser
       /\ \A s \in Session : session[s].by # callback[c].signin
       /\ callback[c].previous # NoSession => session[callback[c].previous].state # "unused"
  /\ \A c, d \in Callback :
       callback[c].is = "signin" /\ callback[d].is = "signin"
       /\ callback[c].signin = callback[d].signin => c = d

\* A callback that was cancelled has lost its session or its flow for good.
ConnectionsFit ==
  /\ \A c \in Callback : callback[c].is = "connect" =>
       /\ session[callback[c].session].state # "unused"
       /\ callback[c].flow \in spent
       /\ callback[c].void =>
            \/ session[callback[c].session].state # "live"
            \/ flow[callback[c].account] = NoFlow
            \/ flow[callback[c].account].id # callback[c].flow
  /\ \A a \in Account : flow[a] # NoFlow => flow[a].id \in spent

SessionInv ==
  /\ SessionTypeOK
  /\ SessionsFit
  /\ SignInsFit
  /\ ConnectionsFit

LEMMA CallbackTyped ==
  ASSUME SessionTypeOK, NEW c \in Callback
  PROVE  /\ callback[c] \in Signing \cup Connecting \cup {Waiting}
         /\ callback[c].is = "signin" => callback[c] \in Signing
         /\ callback[c].is = "connect" => callback[c] \in Connecting
         /\ callback[c] = Waiting => callback[c].is = "nothing"
<1>1. callback[c] \in Signing \cup Connecting \cup {Waiting}
  BY DEF SessionTypeOK, Returned, Signing, Connecting
<1>2. QED  BY <1>1 DEF Signing, Connecting, Waiting

LEMMA ReturnedParts == Returned = Signing \cup Connecting
BY DEF Returned, Signing, Connecting

LEMMA SessionStarts == SessionInit => SessionInv
<1>1. SUFFICES ASSUME SessionInit PROVE SessionInv
  OBVIOUS
<1>2. SessionTypeOK
  BY <1>1 DEF SessionInit, SessionTypeOK, NewSession, NewSignIn, NoCookies
<1>3. SessionsFit
  BY <1>1 DEF SessionInit, SessionsFit, NewSession, NoCookies
<1>4. SignInsFit
  BY <1>1 DEF SessionInit, SignInsFit, NewSession, Waiting
<1>5. ConnectionsFit
  BY <1>1 DEF SessionInit, ConnectionsFit, Waiting
<1>6. QED  BY <1>2, <1>3, <1>4, <1>5 DEF SessionInv

\* What cancelling may change of the callbacks.
Cancels(after) ==
  /\ after \in [Callback -> Returned \cup {Waiting}]
  /\ \A c \in Callback :
       /\ callback[c].is # "connect" => after[c] = callback[c]
       /\ callback[c].is = "connect" =>
            /\ after[c].is = "connect"
            /\ after[c].account = callback[c].account
            /\ after[c].session = callback[c].session
            /\ after[c].flow = callback[c].flow

LEMMA VoidCancels ==
  ASSUME SessionTypeOK, NEW S
  PROVE  /\ Cancels(Void(S))
         /\ \A c \in Callback : callback[c].is = "connect" /\ Void(S)[c].void =>
              callback[c].void \/ callback[c].session \in S
<1>1. ASSUME NEW c \in Callback, callback[c].is = "connect"
      PROVE  /\ Void(S)[c] \in Connecting
             /\ Void(S)[c].account = callback[c].account
             /\ Void(S)[c].session = callback[c].session
             /\ Void(S)[c].flow = callback[c].flow
             /\ Void(S)[c].void => callback[c].void \/ callback[c].session \in S
  <2>1. PICK x \in Connecting : x = callback[c]
    BY <1>1, CallbackTyped
  <2>2. Void(S)[c] = IF x.session \in S THEN [x EXCEPT !.void = TRUE] ELSE x
    BY <1>1, <2>1 DEF Void
  <2>3. QED  BY <2>1, <2>2 DEF Connecting
<1>2. \A c \in Callback : callback[c].is # "connect" => Void(S)[c] = callback[c]
  BY DEF Void
<1>3. Void(S) \in [Callback -> Returned \cup {Waiting}]
  <2>1. \A c \in Callback : Void(S)[c] \in Returned \cup {Waiting}
    BY <1>1, <1>2, CallbackTyped, ReturnedParts
  <2>2. QED  BY <2>1 DEF Void
<1>4. QED  BY <1>1, <1>2, <1>3 DEF Cancels, Connecting

LEMMA CancelCancels ==
  ASSUME SessionTypeOK, NEW a \in Account
  PROVE  /\ Cancels(Cancel(a))
         /\ \A c \in Callback : callback[c].is = "connect" /\ Cancel(a)[c].void =>
              callback[c].void \/ callback[c].account = a
<1>1. ASSUME NEW c \in Callback, callback[c].is = "connect"
      PROVE  /\ Cancel(a)[c] \in Connecting
             /\ Cancel(a)[c].account = callback[c].account
             /\ Cancel(a)[c].session = callback[c].session
             /\ Cancel(a)[c].flow = callback[c].flow
             /\ Cancel(a)[c].void => callback[c].void \/ callback[c].account = a
  <2>1. PICK x \in Connecting : x = callback[c]
    BY <1>1, CallbackTyped
  <2>2. Cancel(a)[c] = IF x.account = a THEN [x EXCEPT !.void = TRUE] ELSE x
    BY <1>1, <2>1 DEF Cancel
  <2>3. QED  BY <2>1, <2>2 DEF Connecting
<1>2. \A c \in Callback : callback[c].is # "connect" => Cancel(a)[c] = callback[c]
  BY DEF Cancel
<1>3. Cancel(a) \in [Callback -> Returned \cup {Waiting}]
  <2>1. \A c \in Callback : Cancel(a)[c] \in Returned \cup {Waiting}
    BY <1>1, <1>2, CallbackTyped, ReturnedParts
  <2>2. QED  BY <2>1 DEF Cancel
<1>4. QED  BY <1>1, <1>2, <1>3 DEF Cancels, Connecting

-----------------------------------------------------------------------------
(* Sign-in. *)

SignInRow == [browser : Browser \cup {NoBrowser}, state : {"unused", "open", "ended"}]
Cookies   == [session : Session \cup {NoSession}, signin : SignIn \cup {NoSignIn},
              provider : Account \cup {NoAccount}]

\* What a sign-in that is begun or has expired leaves: those that ended stay as they are, and
\* each keeps the browser that began it.
SignInsGoOn ==
  /\ signin' \in [SignIn -> SignInRow]
  /\ \A g \in SignIn :
       /\ signin[g].state = "ended" => signin'[g].state = "ended"
       /\ signin[g].state # "unused" => signin'[g].browser = signin[g].browser

\* The cookie of a session is left alone or dropped.
CookiesGoOn ==
  /\ jar' \in [Browser -> Cookies]
  /\ \A b \in Browser : jar'[b].session \in {jar[b].session, NoSession}

\* A step of sign-ins and cookies only.
LEMMA SignInStays ==
  ASSUME SessionInv, SignInsGoOn, CookiesGoOn, UNCHANGED <<session, flow, granted, spent, callback>>
  PROVE  SessionInv'
<1>1. SessionTypeOK'
  BY DEF SessionInv, SessionTypeOK, SignInsGoOn, CookiesGoOn, SignInRow, Cookies
<1>2. ASSUME NEW f \in SignIn, signin[f].state = "ended"
      PROVE  signin'[f].state = "ended" /\ signin'[f].browser = signin[f].browser
  BY <1>2 DEF SignInsGoOn
<1>3. SessionsFit'
  <2>1. ASSUME NEW b \in Browser, jar'[b].session # NoSession
        PROVE  /\ session[jar'[b].session].state # "unused"
               /\ signin'[session[jar'[b].session].by].browser = b
    <3>1. jar'[b].session = jar[b].session /\ jar[b].session \in Session
      BY <2>1 DEF CookiesGoOn, SessionInv, SessionTypeOK
    <3>2. /\ session[jar[b].session].state # "unused"
          /\ session[jar[b].session].by \in SignIn
          /\ signin[session[jar[b].session].by].state = "ended"
          /\ signin[session[jar[b].session].by].browser = b
      BY <2>1, <3>1 DEF SessionInv, SessionsFit
    <3>3. QED  BY <1>2, <3>1, <3>2
  <2>2. QED  BY <1>2, <2>1 DEF SessionInv, SessionsFit
<1>4. SignInsFit'
  <2>1. ASSUME NEW c \in Callback, callback[c].is = "signin"
        PROVE  /\ signin'[callback[c].signin].state = "ended"
               /\ signin'[callback[c].signin].browser = callback[c].browser
    <3>1. callback[c].signin \in SignIn
      BY <2>1, CallbackTyped DEF SessionInv, Signing
    <3>2. QED  BY <1>2, <2>1, <3>1 DEF SessionInv, SignInsFit
  <2>2. QED  BY <2>1 DEF SessionInv, SignInsFit
<1>5. ConnectionsFit'
  BY DEF SessionInv, ConnectionsFit
<1>6. QED  BY <1>1, <1>3, <1>4, <1>5 DEF SessionInv

LEMMA SignInStepFits ==
  ASSUME SessionInv,
         \/ \E f \in SignIn : SignInExpires(f) \/ \E b \in Browser : StartSignIn(b, f)
         \/ \E b \in Browser : ProviderEnds(b)
  PROVE  SessionInv' /\ UNCHANGED granted
<1>1. CASE \E f \in SignIn : SignInExpires(f)
  <2>1. PICK f \in SignIn : SignInExpires(f)
    BY <1>1
  <2>2. PICK x \in SignInRow : x = signin[f]
    BY DEF SessionInv, SessionTypeOK, SignInRow
  <2>3. signin' = [signin EXCEPT ![f] = [x EXCEPT !.state = "ended"]] /\ x.state = "open"
    BY <2>1, <2>2 DEF SignInExpires
  <2>4. [x EXCEPT !.state = "ended"] \in SignInRow /\ [x EXCEPT !.state = "ended"].browser = x.browser
    BY <2>2 DEF SignInRow
  <2>5. SignInsGoOn
    BY <2>2, <2>3, <2>4 DEF SignInsGoOn, SessionInv, SessionTypeOK, SignInRow
  <2>6. CookiesGoOn
    BY <2>1 DEF SignInExpires, CookiesGoOn, Cookies, SessionInv, SessionTypeOK
  <2>7. QED  BY <2>1, <2>5, <2>6, SignInStays DEF SignInExpires
<1>2. ASSUME NEW f \in SignIn, NEW b \in Browser, StartSignIn(b, f)
      PROVE  SessionInv' /\ UNCHANGED granted
  <2>1. PICK x \in Cookies : x = jar[b]
    BY DEF SessionInv, SessionTypeOK, Cookies
  <2>2. /\ jar' = [jar EXCEPT ![b] = [x EXCEPT !.signin = f]]
        /\ signin' = [signin EXCEPT ![f] = [browser |-> b, state |-> "open"]]
        /\ signin[f].state = "unused"
    BY <1>2, <2>1 DEF StartSignIn
  <2>3. [x EXCEPT !.signin = f] \in Cookies /\ [x EXCEPT !.signin = f].session = x.session
    BY <2>1 DEF Cookies
  <2>4. SignInsGoOn
    BY <2>2 DEF SignInsGoOn, SessionInv, SessionTypeOK, SignInRow
  <2>5. CookiesGoOn
    BY <2>1, <2>2, <2>3 DEF CookiesGoOn, SessionInv, SessionTypeOK, Cookies
  <2>6. QED  BY <1>2, <2>4, <2>5, SignInStays DEF StartSignIn
<1>3. ASSUME NEW b \in Browser, ProviderEnds(b)
      PROVE  SessionInv' /\ UNCHANGED granted
  <2>1. PICK x \in Cookies : x = jar[b]
    BY DEF SessionInv, SessionTypeOK, Cookies
  <2>2. jar' = [jar EXCEPT ![b] = [x EXCEPT !.provider = NoAccount]]
    BY <1>3, <2>1 DEF ProviderEnds
  <2>3. /\ [x EXCEPT !.provider = NoAccount] \in Cookies
        /\ [x EXCEPT !.provider = NoAccount].session = x.session
    BY <2>1 DEF Cookies
  <2>4. CookiesGoOn
    BY <2>1, <2>2, <2>3 DEF CookiesGoOn, SessionInv, SessionTypeOK, Cookies
  <2>5. SignInsGoOn
    BY <1>3 DEF ProviderEnds, SignInsGoOn, SessionInv, SessionTypeOK, SignInRow
  <2>6. QED  BY <1>3, <2>4, <2>5, SignInStays DEF ProviderEnds
<1>4. QED  BY <1>1, <1>2, <1>3 DEF SignInExpires

\* A callback that ends without a trace.
LEMMA FailsFits ==
  ASSUME SessionInv, NEW c \in Callback, Fails(c)
  PROVE  SessionInv' /\ UNCHANGED granted
<1>1. /\ callback' = [callback EXCEPT ![c] = Waiting]
      /\ UNCHANGED <<session, signin, jar, flow, granted, spent>>
  BY DEF Fails
<1>2. /\ callback' \in [Callback -> Returned \cup {Waiting}]
      /\ callback'[c] = Waiting /\ Waiting.is = "nothing"
      /\ \A d \in Callback \ {c} : callback'[d] = callback[d]
  BY <1>1 DEF SessionInv, SessionTypeOK, Waiting
<1>3. \A d \in Callback : callback'[d].is # "nothing" => callback'[d] = callback[d]
  BY <1>2
<1>4. SessionTypeOK' /\ SessionsFit'
  BY <1>1, <1>2 DEF SessionInv, SessionTypeOK, SessionsFit
<1>5. SignInsFit'
  BY <1>1, <1>3 DEF SessionInv, SignInsFit
<1>6. ConnectionsFit'
  BY <1>1, <1>3 DEF SessionInv, ConnectionsFit
<1>7. QED  BY <1>1, <1>4, <1>5, <1>6 DEF SessionInv

LEMMA ReturnFits ==
  ASSUME SessionInv, NEW c \in Callback, NEW b \in Browser, NEW f \in SignIn, ReturnSignIn(c, b, f)
  PROVE  SessionInv' /\ UNCHANGED granted
<1> DEFINE x == [is |-> "signin", browser |-> b, signin |-> f, previous |-> jar[b].session]
<1>1. /\ UNCHANGED <<session, flow, granted, spent>>
      /\ callback' = [callback EXCEPT ![c] = x]
      /\ signin[f].state = "open" /\ signin[f].browser = b
  BY DEF ReturnSignIn, Consumable
<1>2. /\ x \in Signing /\ x.is = "signin" /\ x.signin = f /\ x.browser = b
      /\ x.previous = jar[b].session
  BY DEF Signing, SessionInv, SessionTypeOK
<1> HIDE DEF x
<1>3. /\ callback' \in [Callback -> Returned \cup {Waiting}] /\ callback'[c] = x
      /\ \A d \in Callback \ {c} : callback'[d] = callback[d]
  BY <1>1, <1>2, ReturnedParts DEF SessionInv, SessionTypeOK
<1>4. /\ signin' \in [SignIn -> SignInRow]
      /\ signin'[f].state = "ended" /\ signin'[f].browser = b
      /\ \A g \in SignIn \ {f} : signin'[g] = signin[g]
  <2>1. PICK r \in SignInRow : r = signin[f]
    BY DEF SessionInv, SessionTypeOK, SignInRow
  <2>2. signin' = [signin EXCEPT ![f] = [r EXCEPT !.state = "ended"]]
    BY <2>1 DEF ReturnSignIn
  <2>3. [r EXCEPT !.state = "ended"] \in SignInRow /\ [r EXCEPT !.state = "ended"].browser = b
        /\ [r EXCEPT !.state = "ended"].state = "ended"
    BY <1>1, <2>1 DEF SignInRow
  <2>4. QED  BY <2>2, <2>3 DEF SessionInv, SessionTypeOK, SignInRow
<1>5. CookiesGoOn
  <2>1. PICK r \in Cookies : r = jar[b]
    BY DEF SessionInv, SessionTypeOK, Cookies
  <2>2. jar' = [jar EXCEPT ![b] = [r EXCEPT !.signin = NoSignIn]]
    BY <2>1 DEF ReturnSignIn
  <2>3. [r EXCEPT !.signin = NoSignIn] \in Cookies /\ [r EXCEPT !.signin = NoSignIn].session = r.session
    BY <2>1 DEF Cookies
  <2>4. QED  BY <2>1, <2>2, <2>3 DEF CookiesGoOn, SessionInv, SessionTypeOK, Cookies
<1>6. SignInsGoOn
  BY <1>1, <1>4 DEF SignInsGoOn
<1>7. SessionTypeOK'
  BY <1>1, <1>3, <1>4, <1>5 DEF SessionInv, SessionTypeOK, SignInRow, CookiesGoOn, Cookies
<1>8. SessionsFit'
  <2>1. ASSUME NEW s \in Session, session[s].state # "unused"
        PROVE  /\ session[s].by \in SignIn /\ session[s].by # f
               /\ signin'[session[s].by] = signin[session[s].by]
    BY <1>1, <1>4, <2>1 DEF SessionInv, SessionsFit
  <2>2. ASSUME NEW d \in Browser, jar'[d].session # NoSession
        PROVE  /\ session[jar'[d].session].state # "unused"
               /\ signin'[session[jar'[d].session].by].browser = d
    <3>1. jar'[d].session = jar[d].session /\ jar[d].session \in Session
      BY <1>5, <2>2 DEF CookiesGoOn, SessionInv, SessionTypeOK
    <3>2. QED  BY <2>1, <2>2, <3>1 DEF SessionInv, SessionsFit
  <2>3. QED  BY <1>1, <2>1, <2>2 DEF SessionInv, SessionsFit
<1>9. SignInsFit'
  <2>1. \A s \in Session : session[s].by # f
    BY <1>1, SessionAssumption DEF SessionInv, SessionsFit, SignInsFit
  <2>2. x.previous # NoSession => session[x.previous].state # "unused"
    BY <1>2 DEF SessionInv, SessionsFit
  <2>3. ASSUME NEW d \in Callback, callback'[d].is = "signin", d # c
        PROVE  /\ callback'[d] = callback[d] /\ callback[d].signin \in SignIn
               /\ callback[d].signin # f
               /\ signin'[callback[d].signin] = signin[callback[d].signin]
    <3>1. callback'[d] = callback[d] /\ callback[d].signin \in SignIn
      BY <1>3, <2>3, CallbackTyped DEF SessionInv, Signing
    <3>2. signin[callback[d].signin].state = "ended"
      BY <2>3, <3>1 DEF SessionInv, SignInsFit
    <3>3. QED  BY <1>1, <1>4, <3>1, <3>2
  <2>4. ASSUME NEW d \in Callback, callback'[d].is = "signin"
        PROVE  /\ signin'[callback'[d].signin].state = "ended"
               /\ signin'[callback'[d].signin].browser = callback'[d].browser
               /\ \A s \in Session : session[s].by # callback'[d].signin
               /\ callback'[d].previous # NoSession => session[callback'[d].previous].state # "unused"
    <3>1. CASE d = c
      BY <1>2, <1>3, <1>4, <2>1, <2>2, <3>1
    <3>2. CASE d # c
      BY <2>3, <2>4, <3>2 DEF SessionInv, SignInsFit
    <3>3. QED  BY <3>1, <3>2
  <2>5. ASSUME NEW d \in Callback, NEW e \in Callback,
               callback'[d].is = "signin", callback'[e].is = "signin",
               callback'[d].signin = callback'[e].signin
        PROVE  d = e
    <3>1. CASE d = c \/ e = c
      BY <1>2, <1>3, <2>3, <2>5, <3>1
    <3>2. CASE d # c /\ e # c
      BY <2>3, <2>5, <3>2 DEF SessionInv, SignInsFit
    <3>3. QED  BY <3>1, <3>2
  <2>6. QED  BY <1>1, <2>4, <2>5 DEF SessionInv, SignInsFit
<1>10. ConnectionsFit'
  BY <1>1, <1>2, <1>3 DEF SessionInv, ConnectionsFit
<1>11. QED  BY <1>1, <1>7, <1>8, <1>9, <1>10 DEF SessionInv

-----------------------------------------------------------------------------
(* Sessions that open and end. *)

\* The sessions that end, and the callbacks that lose theirs.
SessionsEnd(S) ==
  /\ session' \in [Session -> SessionRow]
  /\ \A s \in Session :
       /\ session'[s].user = session[s].user /\ session'[s].by = session[s].by
       /\ \/ session'[s].state = session[s].state
          \/ session[s].state # "unused" /\ session'[s].state = "ended"
       /\ s \in S => session'[s].state # "live"

CallbacksVoid(S) ==
  /\ Cancels(callback')
  /\ \A c \in Callback : callback[c].is = "connect" /\ callback'[c].void =>
         callback[c].void \/ callback[c].session \in S

LEMMA SessionsEndFit ==
  ASSUME SessionInv, NEW S, SessionsEnd(S), CallbacksVoid(S), CookiesGoOn,
         UNCHANGED <<signin, flow, granted, spent>>
  PROVE  SessionInv'
<1>1. SessionTypeOK'
  BY DEF SessionInv, SessionTypeOK, SessionsEnd, CallbacksVoid, Cancels, CookiesGoOn, SessionRow, Cookies
<1>2. ASSUME NEW s \in Session
      PROVE  session'[s].by = session[s].by /\ session'[s].user = session[s].user
             /\ (session'[s].state = "unused" <=> session[s].state = "unused")
             /\ (session'[s].state = "live" => session[s].state = "live")
  BY DEF SessionsEnd
<1>3. SessionsFit'
  <2>1. ASSUME NEW b \in Browser, jar'[b].session # NoSession
        PROVE  /\ session'[jar'[b].session].state # "unused"
               /\ signin[session'[jar'[b].session].by].browser = b
    <3>1. jar'[b].session = jar[b].session /\ jar[b].session \in Session
      BY <2>1 DEF CookiesGoOn, SessionInv, SessionTypeOK
    <3>2. /\ session[jar[b].session].state # "unused"
          /\ signin[session[jar[b].session].by].browser = b
      BY <2>1, <3>1 DEF SessionInv, SessionsFit
    <3>3. QED  BY <1>2, <3>1, <3>2
  <2>2. QED  BY <1>2, <2>1 DEF SessionInv, SessionsFit
<1>4. SignInsFit'
  <2>1. ASSUME NEW c \in Callback, callback'[c].is = "signin"
        PROVE  /\ callback'[c] = callback[c] /\ callback[c] \in Signing
               /\ callback[c].previous # NoSession => session'[callback[c].previous].state # "unused"
               /\ \A s \in Session : session'[s].by # callback[c].signin
    <3>1. callback'[c] = callback[c] /\ callback[c] \in Signing
      BY <2>1, CallbackTyped DEF CallbacksVoid, Cancels, SessionInv
    <3>2. callback[c].previous # NoSession => callback[c].previous \in Session
      BY <3>1 DEF Signing
    <3>3. QED  BY <1>2, <2>1, <3>1, <3>2 DEF SessionInv, SignInsFit
  <2>2. QED  BY <1>2, <2>1 DEF SessionInv, SignInsFit
<1>5. ConnectionsFit'
  <2>1. ASSUME NEW c \in Callback, callback'[c].is = "connect"
        PROVE  /\ session'[callback'[c].session].state # "unused"
               /\ callback'[c].flow \in spent
               /\ callback'[c].void =>
                    \/ session'[callback'[c].session].state # "live"
                    \/ flow[callback'[c].account] = NoFlow
                    \/ flow[callback'[c].account].id # callback'[c].flow
    <3>1. /\ callback[c].is = "connect" /\ callback[c].session \in Session
          /\ callback'[c].session = callback[c].session
          /\ callback'[c].flow = callback[c].flow /\ callback'[c].account = callback[c].account
      BY <2>1, CallbackTyped DEF CallbacksVoid, Cancels, SessionInv, Connecting
    <3>2. callback'[c].void => callback[c].void \/ callback[c].session \in S
      BY <3>1 DEF CallbacksVoid
    <3>3. callback[c].session \in S => session'[callback[c].session].state # "live"
      BY <3>1 DEF SessionsEnd
    <3>4. QED  BY <1>2, <3>1, <3>2, <3>3 DEF SessionInv, ConnectionsFit
  <2>2. QED  BY <2>1 DEF SessionInv, ConnectionsFit
<1>6. QED  BY <1>1, <1>3, <1>4, <1>5 DEF SessionInv

LEMMA OneSessionEnds ==
  ASSUME SessionInv, NEW s \in Session, session[s].state = "live",
         session' = [session EXCEPT ![s].state = "ended"], callback' = Void({s})
  PROVE  SessionsEnd({s}) /\ CallbacksVoid({s})
<1>1. PICK r \in SessionRow : r = session[s]
  BY DEF SessionInv, SessionTypeOK, SessionRow
<1>2. session' = [session EXCEPT ![s] = [r EXCEPT !.state = "ended"]]
  BY <1>1
<1>3. /\ [r EXCEPT !.state = "ended"] \in SessionRow
      /\ [r EXCEPT !.state = "ended"].user = r.user /\ [r EXCEPT !.state = "ended"].by = r.by
      /\ [r EXCEPT !.state = "ended"].state = "ended"
  BY <1>1 DEF SessionRow
<1>4. SessionsEnd({s})
  <2>1. session \in [Session -> SessionRow]
    BY DEF SessionInv, SessionTypeOK, SessionRow
  <2> DEFINE y == [r EXCEPT !.state = "ended"]
  <2>2. /\ session' \in [Session -> SessionRow] /\ session'[s] = y
        /\ \A t \in Session \ {s} : session'[t] = session[t]
    BY <1>2, <1>3, <2>1
  <2>3. y.user = session[s].user /\ y.by = session[s].by /\ y.state = "ended"
    BY <1>1, <1>3
  <2> HIDE DEF y
  <2>4. ASSUME NEW t \in Session
        PROVE  /\ session'[t].user = session[t].user /\ session'[t].by = session[t].by
               /\ \/ session'[t].state = session[t].state
                  \/ session[t].state # "unused" /\ session'[t].state = "ended"
               /\ t \in {s} => session'[t].state # "live"
    <3>1. CASE t = s
      BY <2>2, <2>3, <3>1
    <3>2. CASE t # s
      <4>1. session'[t] = session[t]
        BY <2>2, <3>2
      <4>2. QED  BY <3>2, <4>1
    <3>3. QED  BY <3>1, <3>2
  <2>5. QED  BY <2>2, <2>4 DEF SessionsEnd
<1>5. CallbacksVoid({s})
  BY VoidCancels DEF CallbacksVoid, SessionInv
<1>6. QED  BY <1>4, <1>5

LEMMA SessionExpiresFits ==
  ASSUME SessionInv, NEW s \in Session, SessionExpires(s)
  PROVE  SessionInv' /\ UNCHANGED granted
<1>1. SessionsEnd({s}) /\ CallbacksVoid({s})
  BY OneSessionEnds DEF SessionExpires
<1>2. CookiesGoOn
  BY DEF SessionExpires, CookiesGoOn, Cookies, SessionInv, SessionTypeOK
<1>3. QED  BY <1>1, <1>2, SessionsEndFit DEF SessionExpires

LEMMA LogoutFits ==
  ASSUME SessionInv, NEW b \in Browser, Logout(b)
  PROVE  SessionInv' /\ UNCHANGED granted
<1>1. PICK s \in Session :
        /\ session[s].state = "live"
        /\ session' = [session EXCEPT ![s].state = "ended"]
        /\ jar' = [jar EXCEPT ![b] = NoCookies]
        /\ callback' = Void({s})
        /\ UNCHANGED <<signin, flow, granted, spent>>
  BY DEF Logout, LocalSession
<1>2. SessionsEnd({s}) /\ CallbacksVoid({s})
  BY <1>1, OneSessionEnds
<1>3. CookiesGoOn
  BY <1>1 DEF NoCookies, CookiesGoOn, Cookies, SessionInv, SessionTypeOK
<1>4. QED  BY <1>1, <1>2, <1>3, SessionsEndFit

\* The session a sign-in opens, in the browser that began the sign-in.
LEMMA OpenFits ==
  ASSUME SessionInv, NEW c \in Callback, NEW a \in Account, NEW s \in Session, OpenSession(c, a, s)
  PROVE  SessionInv' /\ UNCHANGED granted
<1> USE SessionAssumption
<1>1. PICK x \in Signing : x = callback[c] /\ x.is = "signin"
  BY CallbackTyped DEF OpenSession, SessionInv
<1>2. /\ x.browser \in Browser /\ x.signin \in SignIn /\ x.previous \in Session \cup {NoSession}
      /\ signin[x.signin].state = "ended" /\ signin[x.signin].browser = x.browser
      /\ \A t \in Session : session[t].by # x.signin
      /\ x.previous # NoSession => session[x.previous].state # "unused"
      /\ session[s].state = "unused" /\ x.previous # s
  BY <1>1 DEF OpenSession, Signing, SessionInv, SignInsFit
<1>3. UNCHANGED <<signin, flow, granted, spent>>
  BY DEF OpenSession
<1>4. /\ session' \in [Session -> SessionRow]
      /\ session'[s] = [user |-> a, state |-> "live", by |-> x.signin]
      /\ \A t \in Session \ {s} :
           /\ session'[t].by = session[t].by /\ session'[t].user = session[t].user
           /\ session'[t].state = IF t = x.previous THEN "ended" ELSE session[t].state
  <2>1. session' = [t \in Session |->
          IF t = s THEN [user |-> a, state |-> "live", by |-> x.signin]
          ELSE IF t = x.previous THEN [session[t] EXCEPT !.state = "ended"]
          ELSE session[t]]
    BY <1>1 DEF OpenSession
  <2>2. ASSUME NEW t \in Session
        PROVE  /\ session[t] \in SessionRow /\ [session[t] EXCEPT !.state = "ended"] \in SessionRow
               /\ [session[t] EXCEPT !.state = "ended"].by = session[t].by
               /\ [session[t] EXCEPT !.state = "ended"].user = session[t].user
               /\ [session[t] EXCEPT !.state = "ended"].state = "ended"
    <3>1. PICK r \in SessionRow : r = session[t]
      BY DEF SessionInv, SessionTypeOK, SessionRow
    <3>2. QED  BY <3>1 DEF SessionRow
  <2>3. [user |-> a, state |-> "live", by |-> x.signin] \in SessionRow
    BY <1>2 DEF SessionRow
  <2>4. QED  BY <2>1, <2>2, <2>3
<1>5. /\ jar' \in [Browser -> Cookies]
      /\ jar'[x.browser].session = s
      /\ \A b \in Browser \ {x.browser} : jar'[b] = jar[b]
  <2>1. PICK r \in Cookies : r = jar[x.browser]
    BY <1>2 DEF SessionInv, SessionTypeOK, Cookies
  <2>2. jar' = [jar EXCEPT ![x.browser] = [r EXCEPT !.session = s, !.provider = a]]
    BY <1>1, <1>2, <2>1 DEF OpenSession, SessionInv, SessionTypeOK
  <2>3. [r EXCEPT !.session = s, !.provider = a] \in Cookies
        /\ [r EXCEPT !.session = s, !.provider = a].session = s
    BY <2>1 DEF Cookies
  <2>4. QED  BY <1>2, <2>2, <2>3 DEF SessionInv, SessionTypeOK, Cookies
<1>6. /\ callback' \in [Callback -> Returned \cup {Waiting}]
      /\ callback'[c].is = "nothing"
      /\ \A d \in Callback \ {c} : callback'[d] = Void({x.previous})[d]
  <2>1. callback' = [Void({x.previous}) EXCEPT ![c] = Waiting]
    BY <1>1 DEF OpenSession
  <2>2. Void({x.previous}) \in [Callback -> Returned \cup {Waiting}]
    BY VoidCancels DEF SessionInv, Cancels
  <2>3. QED  BY <2>1, <2>2 DEF Waiting
<1>7. SessionTypeOK'
  BY <1>3, <1>4, <1>5, <1>6 DEF SessionInv, SessionTypeOK, SessionRow, Cookies
<1>8. SessionsFit'
  <2>1. ASSUME NEW t \in Session, session'[t].state # "unused"
        PROVE  session'[t].user \in Account /\ session'[t].by \in SignIn /\ signin[session'[t].by].state = "ended"
    <3>1. CASE t = s
      BY <1>2, <1>4, <3>1
    <3>2. CASE t # s
      BY <1>2, <1>4, <2>1, <3>2 DEF SessionInv, SessionsFit
    <3>3. QED  BY <3>1, <3>2
  <2>2. ASSUME NEW t \in Session, NEW u \in Session,
               session'[t].by = session'[u].by, session'[t].by # NoSignIn
        PROVE  t = u
    <3>1. CASE t = s \/ u = s
      BY <1>2, <1>4, <2>2, <3>1
    <3>2. CASE t # s /\ u # s
      BY <1>4, <2>2, <3>2 DEF SessionInv, SessionsFit
    <3>3. QED  BY <3>1, <3>2
  <2>3. ASSUME NEW b \in Browser, jar'[b].session # NoSession
        PROVE  session'[jar'[b].session].state # "unused"
               /\ signin[session'[jar'[b].session].by].browser = b
    <3>1. CASE b = x.browser
      BY <1>2, <1>4, <1>5, <3>1
    <3>2. CASE b # x.browser
      <4>1. jar'[b] = jar[b] /\ jar[b].session \in Session
        BY <1>5, <2>3, <3>2 DEF SessionInv, SessionTypeOK
      <4>2. /\ session[jar[b].session].state # "unused"
            /\ signin[session[jar[b].session].by].browser = b
        BY <2>3, <4>1 DEF SessionInv, SessionsFit
      <4>3. QED  BY <1>2, <1>4, <4>1, <4>2
    <3>3. QED  BY <3>1, <3>2
  <2>4. QED  BY <1>3, <2>1, <2>2, <2>3 DEF SessionsFit
<1>9. ASSUME NEW d \in Callback, callback'[d].is = "signin"
      PROVE  d # c /\ callback'[d] = callback[d] /\ callback[d] \in Signing
  <2>1. d # c /\ callback'[d] = Void({x.previous})[d]
    BY <1>6, <1>9
  <2>2. callback[d].is # "connect"
    BY <1>9, <2>1, VoidCancels DEF SessionInv, Cancels
  <2>3. QED  BY <1>9, <2>1, <2>2, VoidCancels, CallbackTyped DEF SessionInv, Cancels
<1>10. SignInsFit'
  <2>1. ASSUME NEW d \in Callback, callback'[d].is = "signin"
        PROVE  /\ signin[callback[d].signin].state = "ended"
               /\ signin[callback[d].signin].browser = callback[d].browser
               /\ \A t \in Session : session'[t].by # callback[d].signin
               /\ callback[d].previous # NoSession => session'[callback[d].previous].state # "unused"
    <3>1. d # c /\ callback[d].is = "signin" /\ callback[d] \in Signing
      BY <1>9, <2>1 DEF Signing
    <3>2. callback[d].signin # x.signin
      BY <1>1, <3>1 DEF SessionInv, SignInsFit
    <3>3. callback[d].previous \in Session \cup {NoSession}
      BY <3>1 DEF Signing
    <3>4. QED  BY <1>2, <1>4, <3>1, <3>2, <3>3 DEF SessionInv, SignInsFit
  <2>2. \A t \in Session : session'[t].state = "unused" => session'[t].by = NoSignIn
    BY <1>2, <1>4 DEF SessionInv, SignInsFit
  <2>3. \A d, e \in Callback :
          callback'[d].is = "signin" /\ callback'[e].is = "signin"
          /\ callback'[d].signin = callback'[e].signin => d = e
    BY <1>9 DEF SessionInv, SignInsFit
  <2>4. QED  BY <1>3, <1>9, <2>1, <2>2, <2>3 DEF SignInsFit
<1>11. ConnectionsFit'
  <2>1. ASSUME NEW d \in Callback, callback'[d].is = "connect"
        PROVE  /\ session'[callback'[d].session].state # "unused"
               /\ callback'[d].flow \in spent
               /\ callback'[d].void =>
                    \/ session'[callback'[d].session].state # "live"
                    \/ flow[callback'[d].account] = NoFlow
                    \/ flow[callback'[d].account].id # callback'[d].flow
    <3>1. d # c /\ callback'[d] = Void({x.previous})[d]
      BY <1>6, <2>1
    <3>2. callback[d].is = "connect"
      BY <2>1, <3>1, VoidCancels DEF SessionInv, Cancels
    <3>3. /\ callback[d].session \in Session
          /\ callback'[d].session = callback[d].session
          /\ callback'[d].flow = callback[d].flow /\ callback'[d].account = callback[d].account
          /\ callback'[d].void => callback[d].void \/ callback[d].session = x.previous
      BY <3>1, <3>2, VoidCancels, CallbackTyped DEF SessionInv, Cancels, Connecting
    <3>4. /\ session[callback[d].session].state # "unused" /\ callback[d].session # s
          /\ callback[d].flow \in spent
      BY <1>2, <3>2 DEF SessionInv, ConnectionsFit
    <3>5. /\ session'[callback[d].session].state # "unused"
          /\ session'[callback[d].session].state = "live" => session[callback[d].session].state = "live"
          /\ callback[d].session = x.previous => session'[callback[d].session].state # "live"
      BY <1>4, <3>3, <3>4
    <3>6. QED  BY <3>2, <3>3, <3>4, <3>5 DEF SessionInv, ConnectionsFit
  <2>2. QED  BY <1>3, <2>1 DEF SessionInv, ConnectionsFit
<1>12. QED  BY <1>3, <1>7, <1>8, <1>10, <1>11 DEF SessionInv

-----------------------------------------------------------------------------
(* Connecting GitHub. *)

\* A step of flows and callbacks: the callbacks that sign in stay as they are, and those
\* that connect fit.
LEMMA ConnectionStays ==
  ASSUME SessionInv, UNCHANGED <<session, signin, jar>>,
         flow' \in [Account -> FlowRow \cup {NoFlow}], granted' \in [Account -> Flow \cup {NoFlow}],
         spent' \in SUBSET Flow, callback' \in [Callback -> Returned \cup {Waiting}],
         \A c \in Callback : callback'[c].is = "signin" => callback'[c] = callback[c],
         ConnectionsFit'
  PROVE  SessionInv'
<1>1. SessionTypeOK'
  BY DEF SessionInv, SessionTypeOK
<1>2. SessionsFit'
  BY DEF SessionInv, SessionsFit
<1>3. SignInsFit'
  BY DEF SessionInv, SignInsFit
<1>4. QED  BY <1>1, <1>2, <1>3 DEF SessionInv

\* An account's callbacks are cancelled while its flow is replaced or dropped.
LEMMA CancelFits ==
  ASSUME SessionInv, NEW a \in Account, NEW y \in FlowRow \cup {NoFlow},
         UNCHANGED <<session, signin, jar>>,
         flow' = [flow EXCEPT ![a] = y], callback' = Cancel(a),
         granted' \in [Account -> Flow \cup {NoFlow}],
         spent \subseteq spent', spent' \subseteq Flow,
         y # NoFlow => y.id \in spent' /\ y.id \notin spent
  PROVE  SessionInv'
<1>1. callback' \in [Callback -> Returned \cup {Waiting}]
  BY CancelCancels DEF SessionInv, Cancels
<1>2. \A c \in Callback : callback'[c].is = "signin" => callback'[c] = callback[c]
  BY CancelCancels DEF SessionInv, Cancels
<1>3. /\ flow' \in [Account -> FlowRow \cup {NoFlow}] /\ flow'[a] = y
      /\ \A o \in Account \ {a} : flow'[o] = flow[o]
  BY DEF SessionInv, SessionTypeOK
<1>4. ConnectionsFit'
  <2>1. ASSUME NEW c \in Callback, callback'[c].is = "connect"
        PROVE  /\ session[callback'[c].session].state # "unused"
               /\ callback'[c].flow \in spent'
               /\ callback'[c].void =>
                    \/ session[callback'[c].session].state # "live"
                    \/ flow'[callback'[c].account] = NoFlow
                    \/ flow'[callback'[c].account].id # callback'[c].flow
    <3>1. callback[c].is = "connect"
      BY <2>1, CancelCancels DEF SessionInv, Cancels
    <3>2. /\ callback[c].account \in Account
          /\ callback'[c].session = callback[c].session
          /\ callback'[c].flow = callback[c].flow /\ callback'[c].account = callback[c].account
          /\ callback'[c].void => callback[c].void \/ callback[c].account = a
      BY <3>1, CancelCancels, CallbackTyped DEF SessionInv, Cancels, Connecting
    <3>3. callback[c].flow \in spent
      BY <3>1 DEF SessionInv, ConnectionsFit
    <3>4. CASE callback[c].account = a
      BY <1>3, <3>1, <3>2, <3>3, <3>4 DEF SessionInv, ConnectionsFit
    <3>5. CASE callback[c].account # a
      BY <1>3, <3>1, <3>2, <3>3, <3>5 DEF SessionInv, ConnectionsFit
    <3>6. QED  BY <3>4, <3>5
  <2>2. \A o \in Account : flow'[o] # NoFlow => flow'[o].id \in spent'
    BY <1>3 DEF SessionInv, ConnectionsFit
  <2>3. QED  BY <2>1, <2>2 DEF ConnectionsFit
<1>5. QED  BY <1>1, <1>2, <1>3, <1>4, ConnectionStays

LEMMA BeginConnectionFits ==
  ASSUME SessionInv, NEW b \in Browser, NEW f \in Flow, BeginConnection(b, f)
  PROVE  SessionInv' /\ UNCHANGED granted
<1>1. PICK s \in Session :
        /\ session[s].state = "live" /\ f \notin spent /\ spent' = spent \cup {f}
        /\ flow' = [flow EXCEPT ![session[s].user] = [id |-> f, session |-> s, consumed |-> FALSE]]
        /\ callback' = Cancel(session[s].user)
        /\ UNCHANGED <<session, signin, jar, granted>>
  BY DEF BeginConnection, SignedIn, LocalSession
<1>2. session[s].user \in Account
  BY <1>1 DEF SessionInv, SessionsFit
<1> DEFINE y == [id |-> f, session |-> s, consumed |-> FALSE]
<1>3. y \in FlowRow /\ y.id = f
  BY DEF FlowRow
<1> HIDE DEF y
<1>4. granted' \in [Account -> Flow \cup {NoFlow}] /\ spent' \subseteq Flow
  BY <1>1 DEF SessionInv, SessionTypeOK
<1>5. QED  BY <1>1, <1>2, <1>3, <1>4, CancelFits DEF y

LEMMA DropFits ==
  ASSUME SessionInv, NEW a \in Account, FlowExpires(a) \/ DisconnectAccount(a)
  PROVE  SessionInv' /\ \A o \in Account : granted'[o] \in {granted[o], NoFlow}
<1>1. granted' \in [Account -> Flow \cup {NoFlow}]
      /\ \A o \in Account : granted'[o] \in {granted[o], NoFlow}
  BY DEF FlowExpires, DisconnectAccount, SessionInv, SessionTypeOK
<1>2. /\ flow' = [flow EXCEPT ![a] = NoFlow] /\ callback' = Cancel(a)
      /\ UNCHANGED <<session, signin, jar, spent>>
      /\ spent \subseteq spent' /\ spent' \subseteq Flow
  BY DEF FlowExpires, DisconnectAccount, SessionInv, SessionTypeOK
<1>3. QED  BY <1>1, <1>2, CancelFits

LEMMA ConsumeFits ==
  ASSUME SessionInv, NEW c \in Callback, NEW b \in Browser, ConsumeConnection(c, b)
  PROVE  SessionInv' /\ UNCHANGED granted
<1> DEFINE a(s) == session[s].user
           x(s) == [is |-> "connect", account |-> a(s), session |-> s,
                    flow |-> flow[a(s)].id, void |-> FALSE]
<1>1. PICK s \in Session :
        /\ session[s].state = "live" /\ Unconsumed(a(s), s)
        /\ flow' = [flow EXCEPT ![a(s)].consumed = TRUE]
        /\ callback' = [callback EXCEPT ![c] = x(s)]
        /\ UNCHANGED <<session, signin, jar, granted, spent>>
  BY DEF ConsumeConnection, SignedIn, LocalSession
<1>2. a(s) \in Account /\ flow[a(s)] # NoFlow
  BY <1>1 DEF SessionInv, SessionsFit, Unconsumed, Reusable
<1>3. PICK r \in FlowRow : r = flow[a(s)] /\ r.id \in spent
  BY <1>2 DEF SessionInv, SessionTypeOK, ConnectionsFit
<1> DEFINE y == [r EXCEPT !.consumed = TRUE]
<1>4. /\ y \in FlowRow /\ y.id = r.id
      /\ flow' = [flow EXCEPT ![a(s)] = y]
  BY <1>1, <1>3 DEF FlowRow
<1>5. /\ x(s) \in Connecting /\ x(s).is = "connect" /\ x(s).session = s /\ x(s).flow = r.id
      /\ ~x(s).void
  BY <1>2, <1>3 DEF Connecting, FlowRow
<1> HIDE DEF y, x
<1>6. /\ flow' \in [Account -> FlowRow \cup {NoFlow}]
      /\ flow'[a(s)] = y
      /\ \A o \in Account \ {a(s)} : flow'[o] = flow[o]
  BY <1>2, <1>4 DEF SessionInv, SessionTypeOK
<1>7. /\ callback' \in [Callback -> Returned \cup {Waiting}]
      /\ callback'[c] = x(s)
      /\ \A d \in Callback \ {c} : callback'[d] = callback[d]
  BY <1>1, <1>5, ReturnedParts DEF SessionInv, SessionTypeOK
<1>8. ConnectionsFit'
  <2>1. ASSUME NEW d \in Callback, callback'[d].is = "connect"
        PROVE  /\ session[callback'[d].session].state # "unused"
               /\ callback'[d].flow \in spent
               /\ callback'[d].void =>
                    \/ session[callback'[d].session].state # "live"
                    \/ flow'[callback'[d].account] = NoFlow
                    \/ flow'[callback'[d].account].id # callback'[d].flow
    <3>1. CASE d = c
      BY <1>1, <1>3, <1>5, <1>7, <3>1
    <3>2. CASE d # c
      <4>1. callback'[d] = callback[d] /\ callback[d].account \in Account
        BY <1>7, <2>1, <3>2, CallbackTyped DEF SessionInv, Connecting
      <4>2. callback[d].account = a(s) => flow[a(s)] # NoFlow /\ flow'[a(s)].id = flow[a(s)].id
        BY <1>2, <1>3, <1>4, <1>6
      <4>3. QED  BY <1>6, <2>1, <4>1, <4>2 DEF SessionInv, ConnectionsFit
    <3>3. QED  BY <3>1, <3>2
  <2>2. \A o \in Account : flow'[o] # NoFlow => flow'[o].id \in spent
    BY <1>3, <1>4, <1>6 DEF SessionInv, ConnectionsFit
  <2>3. QED  BY <1>1, <2>1, <2>2 DEF ConnectionsFit
<1>9. granted' \in [Account -> Flow \cup {NoFlow}] /\ spent' \in SUBSET Flow
  BY <1>1 DEF SessionInv, SessionTypeOK
<1>10. \A d \in Callback : callback'[d].is = "signin" => callback'[d] = callback[d]
  BY <1>5, <1>7
<1>11. QED  BY <1>1, <1>6, <1>7, <1>8, <1>9, <1>10, ConnectionStays

\* The flow that makes a connection is the callback's own, and nothing has cancelled it.
LEMMA CompleteFits ==
  ASSUME SessionInv, NEW c \in Callback, CompleteConnection(c)
  PROVE  SessionInv' /\ GrantsAreCurrent
<1>1. PICK x \in Connecting : x = callback[c] /\ x.is = "connect"
  BY CallbackTyped DEF CompleteConnection, SessionInv
<1>2. /\ x.account \in Account /\ x.flow \in Flow
      /\ flow[x.account] # NoFlow /\ flow[x.account].id = x.flow
      /\ session[x.session].state = "live"
  BY <1>1 DEF CompleteConnection, Claims, StillActive, Connecting
<1>3. ~x.void
  BY <1>1, <1>2 DEF SessionInv, ConnectionsFit
<1>4. /\ flow' = [flow EXCEPT ![x.account] = NoFlow]
      /\ granted' = [granted EXCEPT ![x.account] = x.flow]
      /\ callback' = [callback EXCEPT ![c] = Waiting]
      /\ UNCHANGED <<session, signin, jar, spent>>
  BY <1>1 DEF CompleteConnection
<1>5. /\ callback' \in [Callback -> Returned \cup {Waiting}]
      /\ callback'[c].is = "nothing"
      /\ \A d \in Callback \ {c} : callback'[d] = callback[d]
  BY <1>4 DEF SessionInv, SessionTypeOK, Waiting
<1>6. /\ flow' \in [Account -> FlowRow \cup {NoFlow}] /\ flow'[x.account] = NoFlow
      /\ \A o \in Account \ {x.account} : flow'[o] = flow[o]
      /\ granted' \in [Account -> Flow \cup {NoFlow}] /\ granted'[x.account] = x.flow
      /\ \A o \in Account \ {x.account} : granted'[o] = granted[o]
  BY <1>2, <1>4 DEF SessionInv, SessionTypeOK
<1>7. ConnectionsFit'
  <2>1. ASSUME NEW d \in Callback, callback'[d].is = "connect"
        PROVE  callback'[d] = callback[d] /\ callback[d].account \in Account
    BY <1>5, <2>1, CallbackTyped DEF SessionInv, Connecting
  <2>2. QED  BY <1>4, <1>6, <2>1 DEF SessionInv, ConnectionsFit
<1>8. SessionInv'
  <2>1. spent' \in SUBSET Flow
    BY <1>4 DEF SessionInv, SessionTypeOK
  <2>2. \A d \in Callback : callback'[d].is = "signin" => callback'[d] = callback[d]
    BY <1>5
  <2>3. QED  BY <1>4, <1>5, <1>6, <1>7, <2>1, <2>2, ConnectionStays
<1>9. GrantsAreCurrent
  BY <1>1, <1>3, <1>6 DEF GrantsAreCurrent
<1>10. QED  BY <1>8, <1>9

-----------------------------------------------------------------------------
LEMMA SessionGoesOn ==
  ASSUME SessionInv, [SessionNext]_sessionVars
  PROVE  SessionInv' /\ GrantsAreCurrent
<1>1. ASSUME \A o \in Account : granted'[o] \in {granted[o], NoFlow} PROVE GrantsAreCurrent
  BY <1>1 DEF GrantsAreCurrent
<1>2. CASE UNCHANGED sessionVars
  <2>1. UNCHANGED <<session, signin, jar, flow, granted, spent, callback>>
    BY <1>2 DEF sessionVars
  <2>2. QED
    BY <1>1, <2>1 DEF SessionInv, SessionTypeOK, SessionsFit, SignInsFit, ConnectionsFit
<1>3. CASE \/ \E f \in SignIn : SignInExpires(f) \/ \E b \in Browser : StartSignIn(b, f)
           \/ \E b \in Browser : ProviderEnds(b)
  BY <1>1, <1>3, SignInStepFits
<1>4. ASSUME NEW c \in Callback,
             \/ \E b \in Browser, f \in SignIn : ReturnSignIn(c, b, f)
             \/ \E a \in Account, s \in Session : OpenSession(c, a, s)
             \/ \E b \in Browser : ConsumeConnection(c, b)
             \/ Fails(c)
      PROVE  SessionInv' /\ UNCHANGED granted
  BY <1>4, ReturnFits, OpenFits, ConsumeFits, FailsFits
<1>5. ASSUME NEW c \in Callback, CompleteConnection(c) PROVE SessionInv' /\ GrantsAreCurrent
  BY <1>5, CompleteFits
<1>6. ASSUME NEW s \in Session, SessionExpires(s) PROVE SessionInv' /\ UNCHANGED granted
  BY <1>6, SessionExpiresFits
<1>7. ASSUME NEW b \in Browser, Logout(b) \/ \E f \in Flow : BeginConnection(b, f)
      PROVE  SessionInv' /\ UNCHANGED granted
  BY <1>7, LogoutFits, BeginConnectionFits
<1>8. ASSUME NEW a \in Account, FlowExpires(a) \/ DisconnectAccount(a)
      PROVE  SessionInv' /\ GrantsAreCurrent
  BY <1>1, <1>8, DropFits
<1>9. QED  BY <1>1, <1>2, <1>3, <1>4, <1>5, <1>6, <1>7, <1>8 DEF SessionNext

\* Sessions, cookies, flows and the callbacks under way always fit together.
THEOREM SessionInvariance == SessionSpec => []SessionInv
<1>1. SessionInit => SessionInv
  BY SessionStarts
<1>2. SessionInv /\ [SessionNext]_sessionVars => SessionInv'
  BY SessionGoesOn
<1>3. QED  BY <1>1, <1>2, PTL DEF SessionSpec

\* A sign-in signs in the browser that began it, once; and a connection is made only by a
\* callback that no logout, disconnect or newer flow has cancelled.
THEOREM SessionsAreSafe == SessionSpec => SessionsSafe
<1>1. SessionInv /\ [SessionNext]_sessionVars => [SignInBound' /\ GrantsAreCurrent]_sessionVars
  <2>1. SUFFICES ASSUME SessionInv, [SessionNext]_sessionVars
                 PROVE  SignInBound' /\ GrantsAreCurrent
    OBVIOUS
  <2>2. SessionInv' /\ GrantsAreCurrent
    BY <2>1, SessionGoesOn
  <2>3. SessionsFit'
    BY <2>2 DEF SessionInv
  <2>4. SignInBound'
    BY <2>3 DEF SessionsFit, SignInBound
  <2>5. QED  BY <2>2, <2>4
<1>2. SessionSpec => []SessionInv
  BY SessionInvariance
<1>3. QED  BY <1>1, <1>2, PTL DEF SessionSpec, SessionsSafe

-----------------------------------------------------------------------------
(* A person's workspaces (Workspaces). *)

Joinings ==
  [step : {"list", "look", "assert", "connect", "leave"}, person : Person,
   account : GitHubAccount, generation : 1 .. MaxGrants,
   add : App \cup {NoApp}, leave : App \cup {NoApp}]
Choices ==
  [step : {"sources"}, person : Person, all : BOOLEAN, chosen : SUBSET App, mineOnly : BOOLEAN]
PageReads ==
  [step : {"settings", "active", "sources", "data", "answered"}, again : BOOLEAN, person : Person,
   space : TeamApp \cup {NoApp}, page : Page, initial : Scope, seen : Settings, shown : SUBSET Event]

\* What Pulse is going to show is of the scope it was read under.
AggregateFits ==
  \A r \in Reading :
    Checks(r) /\ reading[r].page = "pulse" => reading[r].shown \subseteq Within(reading[r].initial)

\* A last check that went on had found what its next step rests on.
LastCheckFits ==
  \A r \in Reading : Checks(r) =>
    /\ reading[r].step \in {"settings", "active", "sources"}
    /\ reading[r].step = "active" => "member" \in was[r]
    /\ reading[r].step = "sources" /\ reading[r].space # NoApp => "active" \in was[r]

WorkspaceInv ==
  /\ WorkspaceTypeOK
  /\ MembershipEarned
  /\ AggregateFits
  /\ LastCheckFits
  /\ ShownIsVisible

LEMMA WorkspaceStarts == WorkspaceInit => WorkspaceInv
<1>1. SUFFICES ASSUME WorkspaceInit PROVE WorkspaceInv
  OBVIOUS
<1> USE WorkspaceAssumption
<1>2. WorkspaceTypeOK
  <2>1. /\ installed \in SUBSET App
        /\ authorizations \in 0 .. MaxGrants
        /\ authorization \in [Person -> {NoAuthorization}]
    BY <1>1 DEF WorkspaceInit
  <2>2. NewJournal \in Journal
    BY DEF NewJournal, Journal
  <2>3. QED
    BY <1>1, <2>1, <2>2 DEF WorkspaceInit, WorkspaceTypeOK
<1>3. MembershipEarned
  BY <1>1 DEF WorkspaceInit, MembershipEarned, NewJournal, NoAuthorization
<1>4. AggregateFits /\ LastCheckFits /\ ShownIsVisible
  BY <1>1 DEF WorkspaceInit, AggregateFits, LastCheckFits, Checks, ShownIsVisible, Reads
<1>5. QED  BY <1>2, <1>3, <1>4 DEF WorkspaceInv

LEMMA JoiningTyped ==
  ASSUME WorkspaceTypeOK, NEW q \in Joining, joining[q] # NoJoin
  PROVE  joining[q] \in IF joining[q].step = "sources" THEN Choices ELSE Joinings
BY DEF WorkspaceTypeOK, Joinings, Choices

LEMMA ReadTyped ==
  ASSUME WorkspaceTypeOK, NEW r \in Reading, reading[r] # NoRead
  PROVE  reading[r] \in PageReads
BY DEF WorkspaceTypeOK, PageReads

LEMMA SettingsTyped ==
  ASSUME WorkspaceTypeOK, NEW p \in Person, NEW space \in TeamApp \cup {NoApp}
  PROVE  SettingsOf(p, space) \in Settings
<1>1. journal[p] \in Journal
  BY DEF WorkspaceTypeOK
<1>2. QED  BY <1>1 DEF SettingsOf, Settings, NotSeen, Journal

LEMMA ScopeTyped ==
  ASSUME WorkspaceTypeOK, NEW p \in Person, NEW space \in TeamApp \cup {NoApp}, NEW chosen \in Settings
  PROVE  ScopeOf(p, space, chosen) \in Scope
<1>1. Readables(p, space, chosen) \in SUBSET App
  BY DEF Readables, WorkspaceTypeOK
<1>2. authorization[p].account \in GitHubAccount \cup {NoGitHubAccount}
  <2>1. authorization[p] \in [account : GitHubAccount, generation : 1 .. MaxGrants] \cup {NoAuthorization}
    BY DEF WorkspaceTypeOK
  <2>2. QED  BY <2>1 DEF NoAuthorization
<1>3. QED  BY <1>1, <1>2 DEF ScopeOf, Scope, NoScope

\* The history grows until the answer is given, by what the check would show.
LEMMA HistoryFits ==
  ASSUME WorkspaceTypeOK, Remember
  PROVE  /\ could' \in [Reading -> SUBSET Event] /\ was' \in [Reading -> SUBSET {"member", "active"}]
         /\ \A r \in Reading :
              /\ Reads(r, "answered") => could'[r] = could[r]
              /\ Checks(r) => was'[r] = Was(r) /\ was[r] \subseteq was'[r]
<1>1. \A r \in Reading : Seen(r) \subseteq Event /\ Was(r) \in SUBSET {"member", "active"}
  BY DEF Seen, Within, Was, WorkspaceTypeOK
<1>2. could' \in [Reading -> SUBSET Event] /\ was' \in [Reading -> SUBSET {"member", "active"}]
  BY <1>1 DEF Remember, WorkspaceTypeOK
<1>3. ASSUME NEW r \in Reading, Reads(r, "answered") PROVE could'[r] = could[r]
  <2>1. Seen(r) = {}
    BY <1>3 DEF Seen, Checks, Reads
  <2>2. QED  BY <1>3, <2>1 DEF Remember, Reads
<1>4. ASSUME NEW r \in Reading, Checks(r) PROVE was'[r] = Was(r) /\ was[r] \subseteq was'[r]
  <2>1. was'[r] = Was(r)
    BY <1>4 DEF Remember
  <2>2. QED  BY <2>1 DEF Was
<1>5. QED  BY <1>2, <1>3, <1>4

\* What the last reading finds is in the history.
LEMMA CheckRemembered ==
  ASSUME WorkspaceTypeOK, LastCheckFits, Remember, NEW r \in Reading, Checks(r), Reads(r, "sources")
  PROVE  Within(ScopeOf(reading[r].person, reading[r].space, reading[r].seen)) \subseteq could'[r]
<1>1. reading[r].space # NoApp => "active" \in Was(r)
  BY HistoryFits DEF LastCheckFits, Reads
<1>2. Seen(r) = Within(ScopeOf(reading[r].person, reading[r].space, reading[r].seen))
  BY <1>1 DEF Seen, Reads
<1>3. could'[r] = could[r] \cup Seen(r)
  BY DEF Remember, Reads
<1>4. QED  BY <1>2, <1>3

\* Whatever happens to memberships, the reads under way keep what they promise.
LEMMA OthersRead ==
  ASSUME WorkspaceInv, Remember, UNCHANGED reading
  PROVE  /\ could' \in [Reading -> SUBSET Event] /\ was' \in [Reading -> SUBSET {"member", "active"}]
         /\ AggregateFits' /\ LastCheckFits' /\ ShownIsVisible'
<1>1. could' \in [Reading -> SUBSET Event] /\ was' \in [Reading -> SUBSET {"member", "active"}]
  BY HistoryFits DEF WorkspaceInv
<1>2. AggregateFits'
  BY DEF WorkspaceInv, AggregateFits, Checks, Within
<1>3. LastCheckFits'
  BY HistoryFits DEF WorkspaceInv, LastCheckFits, Checks
<1>4. ShownIsVisible'
  BY HistoryFits DEF WorkspaceInv, ShownIsVisible, Reads
<1>5. QED  BY <1>1, <1>2, <1>3, <1>4

-----------------------------------------------------------------------------
\* Nobody's membership or journal survives a change of account.
LEMMA AllLeft ==
  ASSUME WorkspaceTypeOK, NEW p \in Person, LeaveAll(p)
  PROVE  /\ member' \in [Person -> [TeamApp -> GitHubAccount \cup {NoGitHubAccount}]]
         /\ journal' \in [Person -> Journal]
         /\ \A t \in TeamApp : member'[p][t] = NoGitHubAccount
         /\ journal'[p].app = NoApp /\ journal'[p].under = NoGitHubAccount
         /\ \A o \in Person \ {p} : member'[o] = member[o] /\ journal'[o] = journal[o]
<1> DEFINE none == [t \in TeamApp |-> NoGitHubAccount]
           left == [journal[p] EXCEPT !.app = NoApp, !.under = NoGitHubAccount]
<1>1. /\ none \in [TeamApp -> GitHubAccount \cup {NoGitHubAccount}]
      /\ \A t \in TeamApp : none[t] = NoGitHubAccount
  OBVIOUS
<1>2. journal[p] \in Journal
  BY DEF WorkspaceTypeOK
<1>3. left \in Journal /\ left.app = NoApp /\ left.under = NoGitHubAccount
  BY <1>2 DEF Journal
<1>4. member' = [member EXCEPT ![p] = none] /\ journal' = [journal EXCEPT ![p] = left]
  BY DEF LeaveAll
<1> HIDE DEF none, left
<1>5. QED  BY <1>1, <1>3, <1>4 DEF WorkspaceTypeOK

LEMMA GrantFits ==
  ASSUME WorkspaceInv, Remember, UNCHANGED installed,
         NEW p \in Person, NEW g \in GitHubAccount, WriteGrant(p, g)
  PROVE  WorkspaceInv'
<1> USE WorkspaceAssumption
<1> DEFINE new == [account |-> g, generation |-> authorizations + 1]
<1>1. /\ new \in [account : GitHubAccount, generation : 1 .. MaxGrants] /\ new.account = g
      /\ authorizations' \in 0 .. MaxGrants
  BY DEF WriteGrant, WorkspaceInv, WorkspaceTypeOK
<1>2. authorization' = [authorization EXCEPT ![p] = new]
  BY DEF WriteGrant
<1> HIDE DEF new
<1>3. /\ authorization' \in [Person -> [account : GitHubAccount, generation : 1 .. MaxGrants] \cup {NoAuthorization}]
      /\ authorization'[p].account = g
      /\ \A o \in Person \ {p} : authorization'[o] = authorization[o]
  BY <1>1, <1>2 DEF WorkspaceInv, WorkspaceTypeOK
<1>4. listed' \in [Person -> SUBSET App] /\ UNCHANGED <<appRow, joining, reading>>
  BY DEF WriteGrant, WorkspaceInv, WorkspaceTypeOK
<1>5. CASE authorization[p].account \in {NoGitHubAccount, g}
  <2>1. UNCHANGED <<member, journal>>
    BY <1>5 DEF WriteGrant, AccountChanges
  <2>2. WorkspaceTypeOK'
    BY <1>1, <1>3, <1>4, <2>1, OthersRead DEF WorkspaceInv, WorkspaceTypeOK
  <2>3. MembershipEarned'
    BY <1>3, <1>5, <2>1 DEF WorkspaceInv, MembershipEarned
  <2>4. QED  BY <1>4, <2>2, <2>3, OthersRead DEF WorkspaceInv
<1>6. CASE authorization[p].account \notin {NoGitHubAccount, g}
  <2>1. LeaveAll(p)
    BY <1>6 DEF WriteGrant, AccountChanges
  <2>2. WorkspaceTypeOK'
    BY <1>1, <1>3, <1>4, <2>1, AllLeft, OthersRead DEF WorkspaceInv, WorkspaceTypeOK
  <2>3. MembershipEarned'
    BY <1>3, <2>1, AllLeft DEF WorkspaceInv, MembershipEarned
  <2>4. QED  BY <1>4, <2>2, <2>3, OthersRead DEF WorkspaceInv
<1>7. QED  BY <1>5, <1>6

LEMMA UngrantFits ==
  ASSUME WorkspaceInv, Remember, UNCHANGED installed, NEW p \in Person, DisconnectGitHub(p)
  PROVE  WorkspaceInv'
<1> USE WorkspaceAssumption
<1>1. /\ authorization' \in [Person -> [account : GitHubAccount, generation : 1 .. MaxGrants] \cup {NoAuthorization}]
      /\ \A o \in Person \ {p} : authorization'[o] = authorization[o]
  BY DEF DisconnectGitHub, WorkspaceInv, WorkspaceTypeOK
<1>2. /\ listed' \in [Person -> SUBSET App] /\ UNCHANGED <<authorizations, appRow, joining, reading>>
      /\ LeaveAll(p)
  BY DEF DisconnectGitHub, WorkspaceInv, WorkspaceTypeOK
<1>3. WorkspaceTypeOK'
  BY <1>1, <1>2, AllLeft, OthersRead DEF WorkspaceInv, WorkspaceTypeOK
<1>4. MembershipEarned'
  BY <1>1, <1>2, AllLeft DEF WorkspaceInv, MembershipEarned
<1>5. QED  BY <1>2, <1>3, <1>4, OthersRead DEF WorkspaceInv

\* A step that changes only what is listed, which installations are active, or a request.
LEMMA OthersGoOn ==
  ASSUME WorkspaceInv, Remember,
         UNCHANGED <<installed, authorization, authorizations, member, journal, reading>>,
         listed' \in [Person -> SUBSET App],
         appRow' \in [App -> {"none", "active", "suspended"}],
         joining' \in [Joining -> Joinings \cup Choices \cup {NoJoin}]
  PROVE  WorkspaceInv'
<1>1. WorkspaceTypeOK'
  BY OthersRead DEF WorkspaceInv, WorkspaceTypeOK, Joinings, Choices
<1>2. MembershipEarned'
  BY DEF WorkspaceInv, MembershipEarned
<1>3. QED  BY <1>1, <1>2, OthersRead DEF WorkspaceInv

LEMMA AskFits ==
  ASSUME WorkspaceInv, Remember, UNCHANGED installed, NEW p \in Person, NEW q \in Joining,
         \/ \E a, b \in installed \cup {NoApp} : StartJoin(q, p, a, b)
         \/ \E S \in SUBSET installed, mine \in BOOLEAN : ChooseSources(q, p, S, mine)
  PROVE  WorkspaceInv'
<1>1. /\ listed \in [Person -> SUBSET App] /\ appRow \in [App -> {"none", "active", "suspended"}]
      /\ joining \in [Joining -> Joinings \cup Choices \cup {NoJoin}]
      /\ installed \in SUBSET App
  BY DEF WorkspaceInv, WorkspaceTypeOK, Joinings, Choices
<1>2. ASSUME NEW a \in installed \cup {NoApp}, NEW b \in installed \cup {NoApp}, StartJoin(q, p, a, b)
      PROVE  WorkspaceInv'
  <2> DEFINE added == IF b # NoApp /\ a \in ConnectedApps(p) THEN NoApp ELSE a
             left  == {b} \cap ConnectedApps(p)
             y == [step |-> IF added = NoApp THEN "leave" ELSE "list", person |-> p,
                   account |-> authorization[p].account, generation |-> authorization[p].generation,
                   add |-> added, leave |-> IF left = {} THEN NoApp ELSE b]
  <2>1. authorization[p] \in [account : GitHubAccount, generation : 1 .. MaxGrants]
    BY <1>2 DEF StartJoin, WorkspaceInv, WorkspaceTypeOK
  <2>2. y \in Joinings
    BY <1>1, <2>1 DEF Joinings
  <2>3. joining' = [joining EXCEPT ![q] = y]
    BY <1>2 DEF StartJoin
  <2> HIDE DEF y
  <2>4. joining' \in [Joining -> Joinings \cup Choices \cup {NoJoin}]
    BY <1>1, <2>2, <2>3
  <2>5. UNCHANGED <<authorization, authorizations, listed, appRow, member, journal, reading>>
    BY <1>2 DEF StartJoin
  <2>6. QED  BY <1>1, <2>4, <2>5, OthersGoOn
<1>3. ASSUME NEW S \in SUBSET installed, NEW mine \in BOOLEAN, ChooseSources(q, p, S, mine)
      PROVE  WorkspaceInv'
  <2>1. PICK all \in BOOLEAN :
          joining' = [joining EXCEPT ![q] = [step |-> "sources", person |-> p, all |-> all,
                                             chosen |-> S, mineOnly |-> mine]]
    BY <1>3 DEF ChooseSources
  <2> DEFINE y == [step |-> "sources", person |-> p, all |-> all, chosen |-> S, mineOnly |-> mine]
  <2>2. y \in Choices
    BY <1>1 DEF Choices
  <2> HIDE DEF y
  <2>3. joining' \in [Joining -> Joinings \cup Choices \cup {NoJoin}]
    BY <1>1, <2>1, <2>2 DEF y
  <2>4. UNCHANGED <<authorization, authorizations, listed, appRow, member, journal, reading>>
    BY <1>3 DEF ChooseSources
  <2>5. QED  BY <1>1, <2>3, <2>4, OthersGoOn
<1>4. QED  BY <1>2, <1>3

\* The request that connects holds a listing of the account that is connected.
LEMMA ConnectFits ==
  ASSUME WorkspaceInv, Remember, UNCHANGED installed, NEW q \in Joining, ConnectInstallation(q)
  PROVE  WorkspaceInv'
<1> USE WorkspaceAssumption
<1>1. PICK x \in Joinings : x = joining[q] /\ x # NoJoin
  BY JoiningTyped DEF WorkspaceInv, ConnectInstallation, Joins
<1> DEFINE p == x.person
           a == x.add
<1>2. /\ p \in Person /\ a \in App \cup {NoApp} /\ x.account \in GitHubAccount
      /\ authorization[p].account = x.account
  BY <1>1 DEF Joinings, ConnectInstallation, StillAuthorized, SameAuthorization
<1>3. /\ appRow' = [appRow EXCEPT ![a] = "active"]
      /\ joining' = After(q)
      /\ UNCHANGED <<authorization, authorizations, listed, reading>>
  BY <1>1 DEF ConnectInstallation
<1>4. appRow' \in [App -> {"none", "active", "suspended"}]
  BY <1>3 DEF WorkspaceInv, WorkspaceTypeOK
<1>5. joining' \in [Joining -> Joinings \cup Choices \cup {NoJoin}]
  <2> DEFINE y == [x EXCEPT !.step = "leave"]
  <2>1. y \in Joinings
    BY DEF Joinings
  <2>2. After(q) \in {[joining EXCEPT ![q] = NoJoin], [joining EXCEPT ![q] = y]}
    BY <1>1 DEF After
  <2> HIDE DEF y
  <2>3. joining \in [Joining -> Joinings \cup Choices \cup {NoJoin}]
    BY DEF WorkspaceInv, WorkspaceTypeOK, Joinings, Choices
  <2>4. QED  BY <1>3, <2>1, <2>2, <2>3
<1>6. CASE a \in JournalApp
  <2> DEFINE new == [journal[p] EXCEPT !.app = a, !.under = x.account]
  <2>1. journal[p] \in Journal
    BY <1>2 DEF WorkspaceInv, WorkspaceTypeOK
  <2>2. new \in Journal /\ new.app = a /\ new.under = x.account
    BY <1>2, <1>6, <2>1 DEF Journal
  <2>3. journal' = [journal EXCEPT ![p] = new] /\ UNCHANGED member
    BY <1>1, <1>6 DEF ConnectInstallation
  <2> HIDE DEF new
  <2>4. /\ journal' \in [Person -> Journal] /\ journal'[p] = new
        /\ \A o \in Person \ {p} : journal'[o] = journal[o]
    BY <1>2, <2>2, <2>3 DEF WorkspaceInv, WorkspaceTypeOK
  <2>5. a # NoApp /\ x.account # NoGitHubAccount
    BY <1>2, <1>6
  <2>6. MembershipEarned'
    BY <1>2, <1>3, <2>2, <2>3, <2>4, <2>5 DEF WorkspaceInv, MembershipEarned
  <2>7. WorkspaceTypeOK'
    BY <1>3, <1>4, <1>5, <2>3, <2>4, OthersRead DEF WorkspaceInv, WorkspaceTypeOK, Joinings, Choices
  <2>8. QED  BY <1>3, <2>6, <2>7, OthersRead DEF WorkspaceInv
<1>7. CASE a \notin JournalApp
  <2> DEFINE new == [member[p] EXCEPT ![a] = IF member[p][a] = NoGitHubAccount THEN x.account ELSE member[p][a]]
  <2>1. member[p] \in [TeamApp -> GitHubAccount \cup {NoGitHubAccount}]
    BY <1>2 DEF WorkspaceInv, WorkspaceTypeOK
  <2>2. /\ \A t \in TeamApp : new[t] \in {member[p][t], x.account}
        /\ DOMAIN new = TeamApp
        /\ new = [t \in TeamApp |-> new[t]]
    BY <2>1
  <2>3. member' = [member EXCEPT ![p] = new] /\ UNCHANGED journal
    BY <1>1, <1>7 DEF ConnectInstallation
  <2> HIDE DEF new
  <2>4. new \in [TeamApp -> GitHubAccount \cup {NoGitHubAccount}]
    BY <1>2, <2>1, <2>2
  <2>5. /\ member' \in [Person -> [TeamApp -> GitHubAccount \cup {NoGitHubAccount}]]
        /\ member'[p] = new
        /\ \A o \in Person \ {p} : member'[o] = member[o]
    BY <1>2, <2>3, <2>4 DEF WorkspaceInv, WorkspaceTypeOK
  <2>6. MembershipEarned'
    BY <1>2, <1>3, <2>2, <2>3, <2>5 DEF WorkspaceInv, MembershipEarned
  <2>7. WorkspaceTypeOK'
    BY <1>3, <1>4, <1>5, <2>3, <2>5, OthersRead DEF WorkspaceInv, WorkspaceTypeOK, Joinings, Choices
  <2>8. QED  BY <1>3, <2>6, <2>7, OthersRead DEF WorkspaceInv
<1>8. QED  BY <1>6, <1>7

LEMMA LeaveFits ==
  ASSUME WorkspaceInv, Remember, UNCHANGED installed, NEW q \in Joining, DisconnectInstallation(q)
  PROVE  WorkspaceInv'
<1> USE WorkspaceAssumption
<1>1. PICK x \in Joinings : x = joining[q]
  BY JoiningTyped DEF WorkspaceInv, DisconnectInstallation, Joins
<1> DEFINE p == x.person
           a == x.leave
<1>2. p \in Person
  BY DEF Joinings
<1>3. /\ joining' = [joining EXCEPT ![q] = NoJoin]
      /\ UNCHANGED <<authorization, authorizations, listed, appRow, reading>>
  BY DEF DisconnectInstallation
<1>4. /\ joining' \in [Joining -> Joinings \cup Choices \cup {NoJoin}]
      /\ listed \in [Person -> SUBSET App] /\ appRow \in [App -> {"none", "active", "suspended"}]
  BY <1>3 DEF WorkspaceInv, WorkspaceTypeOK, Joinings, Choices
<1>5. CASE a \in ConnectedApps(p)
  <2> DEFINE left == [t \in TeamApp |-> IF t = a THEN NoGitHubAccount ELSE member[p][t]]
             new  == [journal[p] EXCEPT !.app = IF journal[p].app = a THEN NoApp ELSE journal[p].app,
                                        !.under = IF journal[p].app = a THEN NoGitHubAccount ELSE journal[p].under,
                                        !.chosen = journal[p].chosen \ {a}]
  <2>1. member[p] \in [TeamApp -> GitHubAccount \cup {NoGitHubAccount}] /\ journal[p] \in Journal
    BY <1>2 DEF WorkspaceInv, WorkspaceTypeOK
  <2>2. /\ left \in [TeamApp -> GitHubAccount \cup {NoGitHubAccount}]
        /\ \A t \in TeamApp : left[t] \in {NoGitHubAccount, member[p][t]}
    BY <2>1
  <2>3. /\ new \in Journal
        /\ \/ new.app = NoApp /\ new.under = NoGitHubAccount
           \/ new.app = journal[p].app /\ new.under = journal[p].under
    BY <2>1 DEF Journal
  <2>4. member' = [member EXCEPT ![p] = left] /\ journal' = [journal EXCEPT ![p] = new]
    <3>1. member' = [member EXCEPT ![p] = left]
      BY <1>1, <1>5 DEF DisconnectInstallation
    <3>2. journal' = [journal EXCEPT ![p] = new]
      BY <1>1, <1>2, <1>5 DEF DisconnectInstallation, WorkspaceInv, WorkspaceTypeOK
    <3>3. QED  BY <3>1, <3>2
  <2> HIDE DEF left, new
  <2>5. /\ member' \in [Person -> [TeamApp -> GitHubAccount \cup {NoGitHubAccount}]]
        /\ journal' \in [Person -> Journal]
        /\ member'[p] = left /\ journal'[p] = new
        /\ \A o \in Person \ {p} : member'[o] = member[o] /\ journal'[o] = journal[o]
    BY <1>2, <2>2, <2>3, <2>4 DEF WorkspaceInv, WorkspaceTypeOK
  <2>6. MembershipEarned'
    BY <1>2, <1>3, <2>2, <2>3, <2>5 DEF WorkspaceInv, MembershipEarned
  <2>7. WorkspaceTypeOK'
    BY <1>3, <1>4, <2>5, OthersRead DEF WorkspaceInv, WorkspaceTypeOK, Joinings, Choices
  <2>8. QED  BY <1>3, <2>6, <2>7, OthersRead DEF WorkspaceInv
<1>6. CASE a \notin ConnectedApps(p)
  <2>1. UNCHANGED <<member, journal>>
    BY <1>1, <1>6 DEF DisconnectInstallation
  <2>2. QED  BY <1>3, <1>4, <2>1, OthersGoOn
<1>7. QED  BY <1>5, <1>6

LEMMA SourcesFit ==
  ASSUME WorkspaceInv, Remember, UNCHANGED installed, NEW q \in Joining, WriteSources(q)
  PROVE  WorkspaceInv'
<1>1. PICK c \in Choices : c = joining[q]
  BY JoiningTyped DEF WorkspaceInv, WriteSources, Joins
<1> DEFINE p == c.person
           new == [journal[p] EXCEPT !.all = c.all, !.chosen = c.chosen, !.mineOnly = c.mineOnly]
<1>2. p \in Person /\ journal[p] \in Journal
  BY DEF Choices, WorkspaceInv, WorkspaceTypeOK
<1>3. new \in Journal /\ new.app = journal[p].app /\ new.under = journal[p].under
  BY <1>2 DEF Journal, Choices
<1>4. /\ journal' = [journal EXCEPT ![p] = new]
      /\ joining' = [joining EXCEPT ![q] = NoJoin]
      /\ UNCHANGED <<authorization, authorizations, listed, appRow, member, reading>>
  BY <1>1, <1>2 DEF WriteSources, WorkspaceInv, WorkspaceTypeOK
<1> HIDE DEF new
<1>5. /\ journal' \in [Person -> Journal] /\ journal'[p] = new
      /\ \A o \in Person \ {p} : journal'[o] = journal[o]
  BY <1>2, <1>3, <1>4 DEF WorkspaceInv, WorkspaceTypeOK
<1>6. MembershipEarned'
  BY <1>2, <1>3, <1>4, <1>5 DEF WorkspaceInv, MembershipEarned
<1>7. WorkspaceTypeOK'
  BY <1>4, <1>5, OthersRead DEF WorkspaceInv, WorkspaceTypeOK, Joinings, Choices
<1>8. QED  BY <1>4, <1>6, <1>7, OthersRead DEF WorkspaceInv

LEMMA JoinGoesOn ==
  ASSUME WorkspaceInv, Remember, UNCHANGED installed, NEW q \in Joining,
         ListForJoin(q) \/ LookAtApp(q) \/ AssertConnection(q) \/ JoinFails(q)
  PROVE  WorkspaceInv'
<1>1. /\ listed \in [Person -> SUBSET App] /\ appRow \in [App -> {"none", "active", "suspended"}]
      /\ joining \in [Joining -> Joinings \cup Choices \cup {NoJoin}]
      /\ installed \in SUBSET App
  BY DEF WorkspaceInv, WorkspaceTypeOK, Joinings, Choices
<1>2. CASE JoinFails(q)
  BY <1>1, <1>2, OthersGoOn DEF JoinFails
<1>3. CASE ListForJoin(q) \/ LookAtApp(q) \/ AssertConnection(q)
  <2>1. PICK x \in Joinings : x = joining[q]
    BY <1>3, JoiningTyped DEF WorkspaceInv, ListForJoin, LookAtApp, AssertConnection, Joins
  <2>2. PICK s \in {"look", "assert", "connect"} : joining' = [joining EXCEPT ![q].step = s]
    BY <1>3 DEF ListForJoin, LookAtApp, AssertConnection, JoinGoes
  <2> DEFINE y == [x EXCEPT !.step = s]
  <2>3. y \in Joinings /\ joining' = [joining EXCEPT ![q] = y]
    BY <2>1, <2>2 DEF Joinings
  <2> HIDE DEF y
  <2>4. joining' \in [Joining -> Joinings \cup Choices \cup {NoJoin}]
    BY <1>1, <2>3
  <2>5. listed' \in [Person -> SUBSET App]
    BY <1>1, <1>3, <2>1 DEF ListForJoin, LookAtApp, AssertConnection, Joinings
  <2>6. UNCHANGED <<authorization, authorizations, appRow, member, journal, reading>>
    BY <1>3 DEF ListForJoin, LookAtApp, AssertConnection
  <2>7. QED  BY <1>1, <2>4, <2>5, <2>6, OthersGoOn
<1>4. QED  BY <1>2, <1>3

-----------------------------------------------------------------------------
\* A read r that goes on to y.
LEMMA ReadingFits ==
  ASSUME WorkspaceInv, Remember, NEW r \in Reading, NEW y \in PageReads \cup {NoRead},
         UNCHANGED <<installed, authorization, authorizations, listed, appRow, member, journal, joining>>,
         reading' = [reading EXCEPT ![r] = y],
         y # NoRead /\ y.again /\ y.page = "pulse" /\ y.step # "answered" => y.shown \subseteq Within(y.initial),
         y # NoRead /\ y.again => y.step # "data",
         y # NoRead /\ y.again /\ y.step = "active" => "member" \in was'[r],
         y # NoRead /\ y.again /\ y.step = "sources" /\ y.space # NoApp => "active" \in was'[r],
         y # NoRead /\ y.step = "answered" => y.shown \subseteq could'[r]
  PROVE  WorkspaceInv'
<1>1. reading'[r] = y /\ \A i \in Reading \ {r} : reading'[i] = reading[i]
  BY DEF WorkspaceInv, WorkspaceTypeOK
<1>2. WorkspaceTypeOK'
  <2>1. reading' \in [Reading -> PageReads \cup {NoRead}]
    BY DEF WorkspaceInv, WorkspaceTypeOK, PageReads
  <2>2. could' \in [Reading -> SUBSET Event] /\ was' \in [Reading -> SUBSET {"member", "active"}]
    BY HistoryFits DEF WorkspaceInv
  <2>3. QED  BY <2>1, <2>2 DEF WorkspaceInv, WorkspaceTypeOK, PageReads
<1>3. MembershipEarned'
  BY DEF WorkspaceInv, MembershipEarned
<1>4. AggregateFits'
  <2>1. SUFFICES ASSUME NEW i \in Reading, Checks(i)', reading'[i].page = "pulse"
                 PROVE  reading'[i].shown \subseteq Within(reading'[i].initial)
    BY DEF AggregateFits, Within
  <2>2. CASE i = r
    BY <1>1, <2>1, <2>2 DEF Checks
  <2>3. CASE i # r
    BY <1>1, <2>1, <2>3 DEF WorkspaceInv, AggregateFits, Checks
  <2>4. QED  BY <2>2, <2>3
<1>5. LastCheckFits'
  <2>1. SUFFICES ASSUME NEW i \in Reading, Checks(i)'
                 PROVE  /\ reading'[i].step \in {"settings", "active", "sources"}
                        /\ reading'[i].step = "active" => "member" \in was'[i]
                        /\ reading'[i].step = "sources" /\ reading'[i].space # NoApp => "active" \in was'[i]
    BY DEF LastCheckFits
  <2>2. CASE i = r
    BY <1>1, <2>1, <2>2 DEF Checks, PageReads
  <2>3. CASE i # r
    <3>1. Checks(i) /\ reading'[i] = reading[i]
      BY <1>1, <2>1, <2>3 DEF Checks
    <3>2. QED  BY <3>1, HistoryFits DEF WorkspaceInv, LastCheckFits
  <2>4. QED  BY <2>2, <2>3
<1>6. ShownIsVisible'
  <2>1. SUFFICES ASSUME NEW i \in Reading, reading'[i] # NoRead, reading'[i].step = "answered"
                 PROVE  reading'[i].shown \subseteq could'[i]
    BY DEF ShownIsVisible, Reads
  <2>2. CASE i = r
    BY <1>1, <2>1, <2>2
  <2>3. CASE i # r
    BY <1>1, <2>1, <2>3, HistoryFits DEF WorkspaceInv, ShownIsVisible, Reads
  <2>4. QED  BY <2>2, <2>3
<1>7. QED  BY <1>2, <1>3, <1>4, <1>5, <1>6 DEF WorkspaceInv

LEMMA AnswerFits ==
  ASSUME WorkspaceInv, Remember, UNCHANGED installed, NEW r \in Reading, AnswerRead(r)
  PROVE  WorkspaceInv'
<1>1. PICK x \in PageReads : x = reading[r] /\ x # NoRead /\ x.step = "sources" /\ x.again
  BY ReadTyped DEF WorkspaceInv, AnswerRead, Reads
<1> DEFINE scope == ScopeOf(x.person, x.space, x.seen)
           y == [x EXCEPT !.step = "answered", !.shown = Visible(r, scope),
                          !.seen = NotSeen, !.initial = NoScope]
<1>2. Within(scope) \subseteq could'[r]
  BY <1>1, CheckRemembered DEF WorkspaceInv, Reads, Checks
<1>3. x.shown \in SUBSET Event /\ x.page \in Page
  BY DEF PageReads
<1>4. Visible(r, scope) \subseteq Within(scope)
  <2>1. CASE x.page = "feed"
    BY <1>1, <2>1 DEF Visible, FeedKeeps
  <2>2. CASE x.page = "wall"
    BY <1>1, <1>3, <2>2 DEF Visible, WallKeeps, Within
  <2>3. CASE x.page = "pulse"
    <3>1. scope = x.initial /\ Visible(r, scope) = x.shown
      BY <1>1, <2>3 DEF AnswerRead, Visible
    <3>2. x.shown \subseteq Within(x.initial)
      BY <1>1, <2>3 DEF WorkspaceInv, AggregateFits, Checks
    <3>3. QED  BY <3>1, <3>2
  <2>4. QED  BY <1>3, <2>1, <2>2, <2>3 DEF Page
<1>5. Visible(r, scope) \in SUBSET Event
  BY <1>4 DEF Within
<1>6. y \in PageReads /\ y.step = "answered" /\ y.shown = Visible(r, scope)
  BY <1>5 DEF PageReads, NotSeen, Settings, NoScope, Scope
<1>7. /\ reading' = [reading EXCEPT ![r] = y]
      /\ UNCHANGED <<authorization, authorizations, listed, appRow, member, journal, joining>>
  BY <1>1 DEF AnswerRead
<1> HIDE DEF y, scope
<1>8. QED  BY <1>2, <1>4, <1>6, <1>7, ReadingFits

LEMMA ReadBegins ==
  ASSUME WorkspaceInv, Remember, UNCHANGED installed, NEW r \in Reading,
         \/ \E p \in Person, space \in TeamApp \cup {NoApp}, page \in Page : StartRead(r, p, space, page)
         \/ EndRead(r)
  PROVE  WorkspaceInv'
<1>1. ASSUME NEW p \in Person, NEW space \in TeamApp \cup {NoApp}, NEW page \in Page,
             StartRead(r, p, space, page)
      PROVE  WorkspaceInv'
  <2> DEFINE y == [step |-> AfterSettings(space), again |-> FALSE, person |-> p, space |-> space, page |-> page,
                   initial |-> NoScope, seen |-> SettingsOf(p, space), shown |-> {}]
  <2>1. SettingsOf(p, space) \in Settings /\ NoScope \in Scope
    BY SettingsTyped DEF WorkspaceInv, NoScope, Scope
  <2>2. y \in PageReads /\ ~y.again /\ y.step # "answered"
    BY <2>1 DEF PageReads, AfterSettings
  <2>3. /\ reading' = [reading EXCEPT ![r] = y]
        /\ UNCHANGED <<authorization, authorizations, listed, appRow, member, journal, joining>>
    BY <1>1 DEF StartRead
  <2> HIDE DEF y
  <2>4. QED  BY <2>2, <2>3, ReadingFits
<1>2. CASE EndRead(r)
  BY <1>2, ReadingFits DEF EndRead
<1>3. QED  BY <1>1, <1>2

LEMMA ReadGoesOn ==
  ASSUME WorkspaceInv, Remember, UNCHANGED installed, NEW r \in Reading,
         SeeActive(r) \/ ReadSources(r) \/ ReadEvents(r) \/ ReadSettings(r)
  PROVE  WorkspaceInv'
<1> USE WorkspaceAssumption
<1>1. PICK x \in PageReads : x = reading[r] /\ x # NoRead
  BY ReadTyped DEF WorkspaceInv, SeeActive, ReadSources, ReadEvents, ReadSettings, Reads
<1>2. /\ UNCHANGED <<authorization, authorizations, listed, appRow, member, journal, joining>>
      /\ x.again /\ x.step # "answered" /\ x.page = "pulse" => x.shown \subseteq Within(x.initial)
      /\ x.again /\ x.step # "answered" => was'[r] = Was(r)
  BY <1>1, HistoryFits DEF SeeActive, ReadSources, ReadEvents, ReadSettings, WorkspaceInv, AggregateFits, Checks
<1>3. CASE SeeActive(r)
  <2> DEFINE y == [x EXCEPT !.step = "sources"]
  <2>1. x.step = "active" /\ appRow[x.space] = "active"
    BY <1>1, <1>3 DEF SeeActive, Reads
  <2>2. x.again /\ x.space # NoApp => "active" \in was'[r]
    <3>1. SUFFICES ASSUME x.again, x.space # NoApp PROVE "active" \in Was(r)
      BY <1>2, <2>1
    <3>2. "member" \in was[r]
      BY <1>1, <2>1, <3>1 DEF WorkspaceInv, LastCheckFits, Checks
    <3>3. QED  BY <1>1, <2>1, <3>1, <3>2 DEF Was
  <2>3. /\ y \in PageReads /\ y.step = "sources" /\ y.again = x.again /\ y.space = x.space
        /\ y.page = x.page /\ y.shown = x.shown /\ y.initial = x.initial
    BY DEF PageReads
  <2>4. reading' = [reading EXCEPT ![r] = y]
    BY <1>1, <1>3 DEF SeeActive
  <2> HIDE DEF y
  <2>5. QED  BY <1>2, <2>1, <2>2, <2>3, <2>4, ReadingFits
<1>4. CASE ReadSources(r)
  <2> DEFINE y == [x EXCEPT !.step = "data", !.seen = NotSeen, !.initial = ScopeOf(x.person, x.space, x.seen)]
  <2>1. ScopeOf(x.person, x.space, x.seen) \in Scope /\ ~x.again
    BY <1>1, <1>4, ScopeTyped DEF ReadSources, PageReads, WorkspaceInv
  <2>2. y \in PageReads /\ y.step = "data" /\ ~y.again
    BY <2>1 DEF PageReads, NotSeen, Settings
  <2>3. reading' = [reading EXCEPT ![r] = y]
    BY <1>1, <1>4 DEF ReadSources
  <2> HIDE DEF y
  <2>4. QED  BY <1>2, <2>2, <2>3, ReadingFits
<1>5. CASE ReadEvents(r)
  <2> DEFINE later == IF x.page = "pulse" THEN x.initial ELSE NoScope
             y == [x EXCEPT !.step = "settings", !.again = TRUE, !.shown = Read(x.page, x.initial),
                            !.initial = later]
  <2>1. x.initial \in Scope /\ Read(x.page, x.initial) \in SUBSET Event
    BY DEF PageReads, Read, Within
  <2>2. later \in Scope
    BY <2>1 DEF NoScope, Scope
  <2>3. /\ y \in PageReads /\ y.step = "settings" /\ y.page = x.page
        /\ y.shown = Read(x.page, x.initial) /\ y.initial = later
    BY <2>1, <2>2 DEF PageReads
  <2>4. reading' = [reading EXCEPT ![r] = y]
    BY <1>1, <1>5 DEF ReadEvents
  <2>5. x.page = "pulse" => Read(x.page, x.initial) = Within(later)
    BY DEF Read
  <2> HIDE DEF y, later
  <2>6. QED  BY <1>2, <2>3, <2>4, <2>5, ReadingFits
<1>6. CASE ReadSettings(r)
  <2> DEFINE y == [x EXCEPT !.step = AfterSettings(x.space), !.seen = SettingsOf(x.person, x.space)]
  <2>1. SettingsOf(x.person, x.space) \in Settings
    BY SettingsTyped DEF WorkspaceInv, PageReads
  <2>2. /\ x.step = "settings" /\ Finds(x.person, x.space)
        /\ x.again => "member" \in was'[r]
    <3>1. x.step = "settings" /\ Finds(x.person, x.space)
      BY <1>1, <1>6 DEF ReadSettings, Reads
    <3>2. x.again => "member" \in Was(r)
      BY <1>1, <3>1 DEF Was
    <3>3. QED  BY <1>2, <3>1, <3>2
  <2>3. /\ y \in PageReads /\ y.step = AfterSettings(x.space) /\ y.again = x.again /\ y.space = x.space
        /\ y.page = x.page /\ y.shown = x.shown /\ y.initial = x.initial
    BY <2>1 DEF PageReads, AfterSettings
  <2>4. reading' = [reading EXCEPT ![r] = y]
    BY <1>1, <1>6 DEF ReadSettings
  <2> HIDE DEF y
  <2>5. QED  BY <1>2, <2>2, <2>3, <2>4, ReadingFits DEF AfterSettings
<1>7. QED  BY <1>3, <1>4, <1>5, <1>6

LEMMA WorkspaceGoesOn == WorkspaceInv /\ [WorkspaceNext]_workspaceVars => WorkspaceInv'
<1>1. SUFFICES ASSUME WorkspaceInv, [WorkspaceNext]_workspaceVars PROVE WorkspaceInv'
  OBVIOUS
<1>2. CASE UNCHANGED workspaceVars
  <2>1. UNCHANGED <<installed, authorization, authorizations, listed, appRow, member, journal,
                    joining, reading, could, was>>
    BY <1>2 DEF workspaceVars
  <2>2. WorkspaceTypeOK' /\ MembershipEarned'
    BY <1>1, <2>1 DEF WorkspaceInv, WorkspaceTypeOK, MembershipEarned
  <2>3. AggregateFits' /\ LastCheckFits' /\ ShownIsVisible'
    BY <1>1, <2>1 DEF WorkspaceInv, AggregateFits, LastCheckFits, Checks, Within, ShownIsVisible, Reads
  <2>4. QED  BY <2>2, <2>3 DEF WorkspaceInv
<1>3. CASE WorkspaceNext
  <2> USE <1>1
  <2>1. Remember /\ UNCHANGED installed
    BY <1>3 DEF WorkspaceNext
  <2>2. ASSUME NEW p \in Person, NEW g \in GitHubAccount, WriteGrant(p, g) PROVE WorkspaceInv'
    BY <2>1, <2>2, GrantFits
  <2>3. ASSUME NEW p \in Person, DisconnectGitHub(p) PROVE WorkspaceInv'
    BY <2>1, <2>3, UngrantFits
  <2>4. /\ listed \in [Person -> SUBSET App] /\ appRow \in [App -> {"none", "active", "suspended"}]
        /\ joining \in [Joining -> Joinings \cup Choices \cup {NoJoin}]
        /\ installed \in SUBSET App
    BY DEF WorkspaceInv, WorkspaceTypeOK, Joinings, Choices
  <2>5. ASSUME NEW p \in Person, Relist(p) PROVE WorkspaceInv'
    <3>1. listed' \in [Person -> SUBSET App]
      BY <2>4, <2>5 DEF Relist
    <3>2. QED  BY <2>1, <2>4, <2>5, <3>1, OthersGoOn DEF Relist
  <2>6. ASSUME NEW a \in App, AppTurns(a) PROVE WorkspaceInv'
    <3>1. appRow' \in [App -> {"none", "active", "suspended"}]
      BY <2>4, <2>6 DEF AppTurns
    <3>2. QED  BY <2>1, <2>4, <2>6, <3>1, OthersGoOn DEF AppTurns
  <2>7. ASSUME NEW p \in Person, NEW q \in Joining,
               \/ \E a, b \in installed \cup {NoApp} : StartJoin(q, p, a, b)
               \/ \E S \in SUBSET installed, mine \in BOOLEAN : ChooseSources(q, p, S, mine)
        PROVE  WorkspaceInv'
    BY <2>1, <2>7, AskFits
  <2>8. ASSUME NEW q \in Joining,
               \/ ListForJoin(q) \/ LookAtApp(q) \/ AssertConnection(q) \/ ConnectInstallation(q)
               \/ DisconnectInstallation(q) \/ WriteSources(q) \/ JoinFails(q)
        PROVE  WorkspaceInv'
    BY <2>1, <2>8, JoinGoesOn, ConnectFits, LeaveFits, SourcesFit
  <2>9. ASSUME NEW r \in Reading,
               \/ \E p \in Person, space \in TeamApp \cup {NoApp}, page \in Page : StartRead(r, p, space, page)
               \/ SeeActive(r) \/ ReadSources(r) \/ ReadEvents(r) \/ ReadSettings(r)
               \/ AnswerRead(r) \/ EndRead(r)
        PROVE  WorkspaceInv'
    BY <2>1, <2>9, ReadBegins, ReadGoesOn, AnswerFits
  <2>10. WorkspaceStep
    BY <1>3 DEF WorkspaceNext
  <2>11. QED
    BY <2>2, <2>3, <2>5, <2>6, <2>7, <2>8, <2>9, <2>10 DEF WorkspaceStep
<1>4. QED  BY <1>1, <1>2, <1>3

\* Memberships, journals, and the reads under way always fit together.
THEOREM WorkspaceInvariance == WorkspaceSpec => []WorkspaceInv
<1>1. WorkspaceInit => WorkspaceInv
  BY WorkspaceStarts
<1>2. WorkspaceInv /\ [WorkspaceNext]_workspaceVars => WorkspaceInv'
  BY WorkspaceGoesOn
<1>3. QED  BY <1>1, <1>2, PTL DEF WorkspaceSpec

\* Membership is earned by a listing of the account that is connected now, and an answer
\* shows only what was in the viewer's stored access at some moment after its last check
\* began; of a team, once they had been a member since then and then its installation active.
THEOREM WorkspacesAreSafe == WorkspaceSpec => []WorkspacesSafe
<1>1. WorkspaceInv => WorkspacesSafe
  BY DEF WorkspaceInv, WorkspacesSafe
<1>2. QED  BY <1>1, WorkspaceInvariance, PTL

-----------------------------------------------------------------------------
(* Shared pages (Shares). *)

\* Tokens and grants are numbered as they are made, so none comes back.
CountsFit ==
  /\ link # NoLink => link.token <= minted /\ link.generation <= turns + 1
  /\ standing.generation <= turns + 1
  /\ maker # NoMaker => /\ maker.generation <= turns + 1
                        /\ maker.step = "viewer" => maker.generation # 0
  /\ \A v \in Visitor : visitor[v] # NoVisit => visitor[v].token <= minted

\* What holds of a visitor that is at x and could have read s since its last check began.
Fits(x, s) ==
  /\ x.check # "none" => x.stage \in {"asking", "confirming", "open"}
  /\ x.check = "again" /\ Granting(x.token) => x.found \cap link.pinned \subseteq s
  /\ x.stage = "answered" => x.shown \subseteq s
  /\ x.dirty => x.stage = "open" /\ x.check # "none"
  /\ x.stage = "open" /\ x.owed => x.unheard \/ x.dirty
  /\ x.stage = "open" /\ x.check = "none" /\ ~x.owed =>
       Resolves(x.token) \/ x.token \in lapsed
VisitsFit == \A v \in Visitor : visitor[v] # NoVisit => Fits(visitor[v], seen[v])

ShareInv == ShareTypeOK /\ CountsFit /\ VisitsFit

-----------------------------------------------------------------------------
(* What the operators return. *)

Trail(x, s) ==
  IF x.check = "resolve" \/ x.stage = "read" THEN Through[x.token] ELSE s \cup Through[x.token]

LEMMA VisitOrNone ==
  ASSUME ShareTypeOK, NEW v \in Visitor, visitor[v] # NoVisit
  PROVE  visitor[v] \in Visit
BY DEF ShareTypeOK

LEMMA ThroughIs ==
  ASSUME ShareTypeOK, NEW t \in 1 .. MaxTokens
  PROVE  /\ Through[t] \subseteq Pin
         /\ Granting(t) => Through[t] = link.pinned \cap standing.access.repos
<1>1. Through[t] = IF Granting(t) THEN link.pinned \cap standing.access.repos ELSE {}
  BY DEF Through
<1>2. Granting(t) => link.pinned \subseteq Pin
  BY DEF Granting, ShareTypeOK, Link
<1> QED BY <1>1, <1>2

LEMMA TrailTyped ==
  ASSUME ShareTypeOK, NEW x \in Visit, NEW s \in SUBSET Pin
  PROVE  /\ Trail(x, s) \in SUBSET Pin
         /\ ~(x.check = "resolve" \/ x.stage = "read") => s \subseteq Trail(x, s)
         /\ Through[x.token] \subseteq Trail(x, s)
<1>1. x.token \in 1 .. MaxTokens
  BY DEF Visit
<1> QED BY <1>1, ThroughIs DEF Trail

-----------------------------------------------------------------------------
(* A visitor's own step: the link and the standing stay. *)

\* v may become x.
Good(v, x) == x = NoVisit \/ (x \in Visit /\ x.token <= minted /\ Fits(x, Trail(x, seen[v])))

LEMMA StayFits ==
  ASSUME ShareInv, NEW v \in Visitor, visitor[v] # NoVisit
  PROVE  Good(v, visitor[v])
<1> DEFINE x == visitor[v]
<1>1. x \in Visit /\ x.token <= minted /\ Fits(x, seen[v]) /\ seen[v] \in SUBSET Pin
  BY VisitOrNone DEF ShareInv, CountsFit, VisitsFit, ShareTypeOK
<1>2. ~(x.check = "resolve" \/ x.stage = "read") => seen[v] \subseteq Trail(x, seen[v])
  BY <1>1, TrailTyped DEF ShareInv
<1>3. Fits(x, Trail(x, seen[v]))
  BY <1>1, <1>2 DEF Fits
<1> QED BY <1>1, <1>3 DEF Good

LEMMA VisitsGoOn ==
  ASSUME ShareInv, NEW v \in Visitor, NEW x, Good(v, x), Become(v, x)
  PROVE  ShareInv'
<1>u. UNCHANGED <<standing, link, minted, lapsed, turns, maker>>
  BY DEF Become
<1>1. \A u \in Visitor : visitor'[u] = IF u = v THEN x ELSE visitor[u]
  BY DEF Become, ShareInv, ShareTypeOK
<1>2. \A u \in Visitor : Good(u, visitor'[u])
  BY <1>1, StayFits DEF Good
<1>3. visitor' \in [Visitor -> Visit \cup {NoVisit}]
  <2>1. visitor' \in [Visitor -> {visitor'[u] : u \in Visitor}]
    BY DEF Become, ShareInv, ShareTypeOK
  <2> QED BY <2>1, <1>2 DEF Good
<1>4. Through' = Through /\ \A t : Granting(t)' = Granting(t) /\ Resolves(t)' = Resolves(t)
  BY <1>u DEF Through, Granting, Resolves
<1>5. \A u \in Visitor : seen'[u] = IF visitor'[u] = NoVisit THEN {} ELSE Trail(visitor'[u], seen[u])
  BY <1>4 DEF Become, Follow, Trail
<1>6. \A u \in Visitor : seen'[u] \in SUBSET Pin
  BY <1>2, <1>5, TrailTyped DEF Good, ShareInv, ShareTypeOK
<1>7. seen' \in [Visitor -> SUBSET Pin]
  BY <1>6 DEF Become, Follow
<1>8. ShareTypeOK'
  BY <1>u, <1>3, <1>7 DEF ShareInv, ShareTypeOK
<1>9. CountsFit'
  BY <1>u, <1>2 DEF ShareInv, CountsFit, Good
<1>10. VisitsFit'
  <2> SUFFICES ASSUME NEW u \in Visitor, visitor'[u] # NoVisit
               PROVE  Fits(visitor[u], seen[u])'
    BY DEF VisitsFit
  <2>1. Fits(visitor'[u], seen'[u])
    BY <1>2, <1>5 DEF Good
  <2> QED BY <2>1, <1>4, <1>u DEF Fits
<1> QED BY <1>8, <1>9, <1>10 DEF ShareInv

LEMMA VisitsStep ==
  ASSUME ShareInv, NEW v \in Visitor, NEW t \in 1 .. minted,
         NEW is \in {"feed", "pulse", "health", "stream"}, Visits(v, is, t)
  PROVE  ShareInv'
<1> DEFINE x == [is |-> is, token |-> t, check |-> "resolve", found |-> {}, stage |-> "asking",
                 first |-> {}, shown |-> {}, dirty |-> FALSE, unheard |-> FALSE, owed |-> FALSE]
<1>1. x \in Visit /\ x.token <= minted
  BY ShareAssumption DEF Visit, ShareInv, ShareTypeOK
<1>2. Fits(x, Trail(x, seen[v]))
  BY DEF Fits
<1> QED BY <1>1, <1>2, VisitsGoOn DEF Good, Visits

LEMMA ResolveStep ==
  ASSUME ShareInv, NEW v \in Visitor, Resolve(v)
  PROVE  ShareInv'
<1> DEFINE x == visitor[v]
           y == [x EXCEPT !.check = "access"]
<1>1. x \in Visit /\ x.token <= minted /\ Fits(x, seen[v]) /\ x.check = "resolve"
  BY VisitOrNone DEF ShareInv, CountsFit, VisitsFit, Resolve, At
<1>2. y \in Visit /\ y.token <= minted
  BY <1>1 DEF Visit
<1>3. Fits(y, Trail(y, seen[v]))
  BY <1>1 DEF Fits, Visit
<1>4. Good(v, y) /\ Good(v, NoVisit)
  BY <1>2, <1>3 DEF Good
<1> QED BY <1>4, VisitsGoOn DEF Resolve

LEMMA ReadAccessStep ==
  ASSUME ShareInv, NEW v \in Visitor, ReadAccess(v)
  PROVE  ShareInv'
<1> DEFINE x == visitor[v]
           y == [x EXCEPT !.check = "again", !.found = standing.access.repos]
<1>1. x \in Visit /\ x.token <= minted /\ Fits(x, seen[v]) /\ x.check = "access"
  BY VisitOrNone DEF ShareInv, CountsFit, VisitsFit, ReadAccess, At
<1>2. standing.access.repos \subseteq Pin
  BY DEF ShareInv, ShareTypeOK, Standing, Synced, Unsynced
<1>3. y \in Visit /\ y.token <= minted /\ y.token = x.token
  BY <1>1, <1>2 DEF Visit
<1>4. Granting(y.token) => y.found \cap link.pinned \subseteq Trail(y, seen[v])
  <2>1. y.found = standing.access.repos
    BY <1>1 DEF Visit
  <2>2. y.token \in 1 .. MaxTokens /\ seen[v] \in SUBSET Pin
    BY <1>3 DEF Visit, ShareInv, ShareTypeOK
  <2>3. Granting(y.token) => Through[y.token] = link.pinned \cap standing.access.repos
    BY <2>2, ThroughIs DEF ShareInv
  <2>4. Through[y.token] \subseteq Trail(y, seen[v])
    BY <1>3, <2>2, TrailTyped DEF ShareInv
  <2> QED BY <2>1, <2>3, <2>4
<1>5. Fits(y, Trail(y, seen[v]))
  BY <1>1, <1>4 DEF Fits, Visit
<1>6. Good(v, y) /\ Good(v, NoVisit)
  BY <1>3, <1>5 DEF Good
<1> QED BY <1>6, VisitsGoOn DEF ReadAccess

LEMMA GrantedGood ==
  ASSUME ShareInv, NEW v \in Visitor, At(v, "again"), Resolves(visitor[v].token),
         NEW S, S = visitor[v].found \cap link.pinned
  PROVE  Good(v, Granted(visitor[v], S))
<1> DEFINE x == visitor[v]
           y == [x EXCEPT !.check = "none", !.found = {}]
<1>1. x \in Visit /\ x.token <= minted /\ Fits(x, seen[v]) /\ x.check = "again"
  BY VisitOrNone DEF ShareInv, CountsFit, VisitsFit, At
<1>2. S \in SUBSET Pin
  BY <1>1 DEF Visit
<1>3. seen[v] \in SUBSET Pin /\ S \subseteq seen[v]
  BY <1>1 DEF ShareInv, ShareTypeOK, Fits, Resolves
<1>4. x.stage \in {"asking", "confirming", "open"}
  BY <1>1 DEF Fits
<1>5. y \in Visit /\ y.token <= minted
  BY <1>1 DEF Visit
<1>6. CASE x.stage = "asking" /\ x.is = "stream"
  <2> DEFINE z == [y EXCEPT !.stage = "opening"]
  <2>1. Granted(x, S) = z
    BY <1>6 DEF Granted
  <2>2. z \in Visit /\ z.token <= minted /\ Fits(z, Trail(z, seen[v]))
    BY <1>1, <1>5, <1>6 DEF Visit, Fits
  <2> QED BY <2>1, <2>2 DEF Good
<1>7. CASE x.stage = "asking" /\ x.is # "stream"
  <2> DEFINE z == [y EXCEPT !.stage = "read", !.first = S]
  <2>1. Granted(x, S) = z
    BY <1>7 DEF Granted
  <2>2. z \in Visit /\ z.token <= minted /\ Fits(z, Trail(z, seen[v]))
    BY <1>1, <1>2, <1>5, <1>7 DEF Visit, Fits
  <2> QED BY <2>1, <2>2 DEF Good
<1>8. CASE x.stage = "confirming"
  <2> DEFINE z(T) == [y EXCEPT !.stage = "answered", !.shown = T]
  <2>1. Granted(x, S) \in {NoVisit, z(S), z(x.first \cap S)}
    BY <1>8 DEF Granted
  <2>2. \A T : T \subseteq S => Good(v, z(T))
    <3> SUFFICES ASSUME NEW T, T \subseteq S
                 PROVE  Good(v, z(T))
      OBVIOUS
    <3>1. z(T) \in Visit /\ z(T).token <= minted
      BY <1>2, <1>5 DEF Visit
    <3>2. z(T).check = "none" /\ z(T).stage = "answered" /\ z(T).shown = T /\ ~z(T).dirty
      BY <1>1, <1>5, <1>8 DEF Visit, Fits
    <3>3. seen[v] \subseteq Trail(z(T), seen[v])
      BY <3>1, <3>2, <1>3, TrailTyped DEF ShareInv
    <3>4. Fits(z(T), Trail(z(T), seen[v]))
      BY <1>3, <3>2, <3>3 DEF Fits
    <3> QED BY <3>1, <3>4 DEF Good
  <2> QED BY <2>1, <2>2 DEF Good
<1>9. CASE x.stage = "open" /\ x.dirty
  <2> DEFINE z == Checking([x EXCEPT !.dirty = FALSE], "open")
  <2>1. Granted(x, S) = z
    BY <1>9 DEF Granted
  <2>2. z \in Visit /\ z.token <= minted /\ Fits(z, Trail(z, seen[v]))
    BY <1>1 DEF Visit, Fits, Checking
  <2> QED BY <2>1, <2>2 DEF Good
<1>10. CASE x.stage = "open" /\ ~x.dirty
  <2>1. Granted(x, S) = y
    BY <1>10 DEF Granted
  <2>2. Fits(y, Trail(y, seen[v]))
    BY <1>1, <1>10 DEF Visit, Fits
  <2> QED BY <1>5, <2>1, <2>2 DEF Good
<1> QED BY <1>4, <1>6, <1>7, <1>8, <1>9, <1>10

LEMMA AuthorizedStep ==
  ASSUME ShareInv, NEW v \in Visitor, Authorized(v)
  PROVE  ShareInv'
<1> DEFINE x == visitor[v]
           S == x.found \cap link.pinned
<1>1. CASE Resolves(x.token) /\ (x.is # "health" \/ S # {})
  <2>1. Good(v, Granted(x, S))
    BY <1>1, GrantedGood DEF Authorized
  <2> QED BY <1>1, <2>1, VisitsGoOn DEF Authorized
<1>2. CASE ~(Resolves(x.token) /\ (x.is # "health" \/ S # {}))
  <2>1. Good(v, NoVisit)
    BY DEF Good
  <2> QED BY <1>2, <2>1, VisitsGoOn DEF Authorized
<1> QED BY <1>1, <1>2

LEMMA CheckingGood ==
  ASSUME ShareInv, NEW v \in Visitor, NEW x \in Visit, x.token <= minted, ~x.dirty,
         NEW stage \in {"confirming", "open"}
  PROVE  Good(v, Checking(x, stage))
<1> DEFINE y == Checking(x, stage)
<1>1. y \in Visit /\ y.token <= minted
  BY DEF Visit, Checking
<1>2. Fits(y, Trail(y, seen[v]))
  BY DEF Visit, Checking, Fits
<1> QED BY <1>1, <1>2 DEF Good

LEMMA ReadDataStep ==
  ASSUME ShareInv, NEW v \in Visitor, ReadData(v)
  PROVE  ShareInv'
<1>1. /\ visitor[v] \in Visit /\ visitor[v].token <= minted
      /\ Fits(visitor[v], seen[v]) /\ visitor[v].stage = "read"
  BY VisitOrNone DEF ShareInv, CountsFit, VisitsFit, ReadData
<1>2. ~visitor[v].dirty
  BY <1>1 DEF Fits
<1>3. Good(v, Confirm(visitor[v]))
  BY <1>1, <1>2, CheckingGood DEF Confirm
<1> QED BY <1>3, VisitsGoOn DEF ReadData

LEMMA OpenStreamStep ==
  ASSUME ShareInv, NEW v \in Visitor, OpenStream(v)
  PROVE  ShareInv'
<1>1. /\ visitor[v] \in Visit /\ visitor[v].token <= minted
      /\ Fits(visitor[v], seen[v]) /\ visitor[v].stage = "opening"
  BY VisitOrNone DEF ShareInv, CountsFit, VisitsFit, OpenStream
<1>2. ~visitor[v].dirty
  BY <1>1 DEF Fits
<1>3. Good(v, Opened(visitor[v])) /\ Good(v, NoVisit)
  BY <1>1, <1>2, CheckingGood DEF Opened, Good
<1> QED BY <1>3, VisitsGoOn DEF OpenStream

LEMMA RefreshedGood ==
  ASSUME ShareInv, NEW v \in Visitor, Streaming(v),
         NEW b \in BOOLEAN, b => visitor[v].unheard
  PROVE  Good(v, Refreshed([visitor[v] EXCEPT !.unheard = b]))
<1> DEFINE x == visitor[v]
           y == [x EXCEPT !.unheard = b]
<1>1. /\ x \in Visit /\ x.token <= minted /\ Fits(x, seen[v]) /\ x.stage = "open"
      /\ seen[v] \in SUBSET Pin
  BY VisitOrNone DEF ShareInv, ShareTypeOK, CountsFit, VisitsFit, Streaming
<1>2. y \in Visit /\ y.token <= minted /\ y.check = x.check /\ y.dirty = x.dirty
  BY <1>1 DEF Visit
<1>3. CASE x.check = "none"
  <2>1. ~y.dirty
    BY <1>1, <1>2, <1>3 DEF Fits
  <2>2. Good(v, Checking(y, "open"))
    BY <1>2, <2>1, CheckingGood
  <2> QED BY <1>2, <1>3, <2>2 DEF Refreshed
<1>4. CASE x.check # "none"
  <2> DEFINE z == [y EXCEPT !.dirty = TRUE]
  <2>1. z \in Visit /\ z.token <= minted
    BY <1>2 DEF Visit
  <2>2. ~(z.check = "resolve" \/ z.stage = "read") => seen[v] \subseteq Trail(z, seen[v])
    BY <1>1, <2>1, TrailTyped DEF ShareInv
  <2>3. Fits(z, Trail(z, seen[v]))
    BY <1>1, <1>4, <2>2 DEF Fits, Visit
  <2>4. Refreshed(y) = z
    BY <1>2, <1>4 DEF Refreshed
  <2> QED BY <2>1, <2>3, <2>4 DEF Good
<1> QED BY <1>3, <1>4

LEMMA HearStep ==
  ASSUME ShareInv, NEW v \in Visitor, Hear(v)
  PROVE  ShareInv'
BY RefreshedGood, VisitsGoOn DEF Hear

LEMMA HeartbeatStep ==
  ASSUME ShareInv, NEW v \in Visitor, Heartbeat(v)
  PROVE  ShareInv'
<1>1. visitor[v] \in Visit /\ ~visitor[v].unheard /\ Streaming(v)
  BY VisitOrNone DEF ShareInv, Heartbeat, Streaming
<1>2. [visitor[v] EXCEPT !.unheard = FALSE] = visitor[v]
  BY <1>1 DEF Visit
<1>3. Good(v, Refreshed(visitor[v]))
  BY <1>1, <1>2, RefreshedGood
<1> QED BY <1>3, VisitsGoOn DEF Heartbeat

-----------------------------------------------------------------------------
(* A step of the creator, of GitHub or of time. *)

\* A token that grants now granted before, by the same row: neither a token nor a grant
\* comes back.
GrantsFade ==
  \A t \in 1 .. minted : Granting(t)' => Granting(t) /\ link' = link

\* Who is told of it has something to hear; who is not loses nothing but to time.
Told(v) ==
  IF visitor[v] = NoVisit THEN visitor'[v] = NoVisit
  ELSE visitor'[v] = [visitor[v] EXCEPT !.unheard = @ \/ Streaming(v), !.owed = TRUE]
Untold ==
  /\ visitor' = visitor
  /\ \A t : Resolves(t) \/ t \in lapsed => Resolves(t)' \/ t \in lapsed'

LEMMA OthersKeep ==
  ASSUME ShareInv, Follow, GrantsFade, minted <= minted', minted' \in 0 .. MaxTokens,
         (standing \in Standing /\ link \in Link \cup {NoLink})',
         visitor' \in [Visitor -> Visit \cup {NoVisit}],
         Untold \/ \A v \in Visitor : Told(v)
  PROVE  /\ seen' \in [Visitor -> SUBSET Pin]
         /\ \A v \in Visitor : visitor'[v] # NoVisit => visitor'[v].token <= minted'
         /\ VisitsFit'
<1>1. \A v \in Visitor : visitor'[v] # NoVisit =>
        /\ visitor[v] # NoVisit /\ visitor[v] \in Visit /\ visitor'[v] \in Visit
        /\ \A f \in {"token", "check", "found", "stage", "shown", "dirty"} :
             visitor'[v][f] = visitor[v][f]
  <2> SUFFICES ASSUME NEW v \in Visitor, visitor'[v] # NoVisit
               PROVE  /\ visitor[v] # NoVisit /\ visitor[v] \in Visit /\ visitor'[v] \in Visit
                      /\ \A f \in {"token", "check", "found", "stage", "shown", "dirty"} :
                           visitor'[v][f] = visitor[v][f]
    OBVIOUS
  <2>1. visitor[v] # NoVisit
    BY DEF Untold, Told
  <2>2. visitor[v] \in Visit /\ visitor'[v] \in Visit
    BY <2>1 DEF ShareInv, ShareTypeOK
  <2> QED BY <2>1, <2>2 DEF Untold, Told, Visit
<1>2. \A t \in 1 .. MaxTokens : Through'[t] \subseteq Pin
  <2> SUFFICES ASSUME NEW t \in 1 .. MaxTokens
               PROVE  Through'[t] \subseteq Pin
    OBVIOUS
  <2>1. Through'[t] = IF Granting(t)' THEN link'.pinned \cap standing'.access.repos ELSE {}
    BY DEF Through
  <2>2. Granting(t)' => link'.pinned \subseteq Pin
    BY DEF Granting, Link
  <2> QED BY <2>1, <2>2
<1>3. \A v \in Visitor : seen'[v] \in SUBSET Pin
  <2> SUFFICES ASSUME NEW v \in Visitor, visitor'[v] # NoVisit
               PROVE  seen'[v] \in SUBSET Pin
    BY DEF Follow
  <2>1. visitor'[v].token \in 1 .. MaxTokens
    BY <1>1 DEF Visit
  <2>2. Through'[visitor'[v].token] \subseteq Pin /\ seen[v] \subseteq Pin
    BY <1>2, <2>1 DEF ShareInv, ShareTypeOK
  <2> QED BY <2>2 DEF Follow
<1>4. seen' \in [Visitor -> SUBSET Pin]
  BY <1>3 DEF Follow
<1>5. \A v \in Visitor : visitor'[v] # NoVisit => visitor'[v].token <= minted'
  <2> SUFFICES ASSUME NEW v \in Visitor, visitor'[v] # NoVisit
               PROVE  visitor'[v].token <= minted'
    OBVIOUS
  <2>1. visitor[v] # NoVisit /\ visitor'[v].token = visitor[v].token
    BY <1>1
  <2>2. visitor[v].token <= minted /\ visitor[v].token \in Nat
    BY <1>1, <2>1 DEF ShareInv, CountsFit, Visit
  <2> QED BY <2>1, <2>2 DEF ShareInv, ShareTypeOK
<1>6. VisitsFit'
  <2> SUFFICES ASSUME NEW v \in Visitor, visitor'[v] # NoVisit
               PROVE  Fits(visitor[v], seen[v])'
    BY DEF VisitsFit
  <2> DEFINE x == visitor[v]
             y == visitor'[v]
  <2>1. /\ x # NoVisit /\ x \in Visit /\ y \in Visit /\ Fits(x, seen[v])
        /\ y.token = x.token /\ y.check = x.check /\ y.found = x.found
        /\ y.stage = x.stage /\ y.shown = x.shown /\ y.dirty = x.dirty
    BY <1>1 DEF ShareInv, VisitsFit
  <2>2. x.token \in 1 .. minted
    BY <2>1 DEF ShareInv, CountsFit, ShareTypeOK, Visit
  <2>t. PICK t \in 1 .. minted : t = visitor[v].token
    BY <2>2
  <2>3. ~(x.check = "resolve" \/ x.stage = "read") => seen[v] \subseteq seen'[v]
    BY <2>1 DEF Follow
  <2>4. Granting(t)' => Granting(t) /\ link' = link
    BY DEF GrantsFade
  <2>5. y.check = "again" /\ Granting(t)' => y.found \cap link'.pinned \subseteq seen'[v]
    BY <2>1, <2>3, <2>4, <2>t DEF Fits
  <2>6. y.stage = "answered" => y.shown \subseteq seen'[v]
    BY <2>1, <2>3 DEF Fits
  <2>7. /\ y.stage = "open" /\ y.owed => y.unheard \/ y.dirty
        /\ y.stage = "open" /\ y.check = "none" /\ ~y.owed =>
             Resolves(t)' \/ t \in lapsed'
    <3>1. CASE Untold
      <4>1. y = x
        BY <3>1 DEF Untold
      <4> QED BY <3>1, <4>1, <2>1, <2>t DEF Untold, Fits
    <3>2. CASE Told(v)
      <4>1. y = [x EXCEPT !.unheard = @ \/ Streaming(v), !.owed = TRUE]
        BY <3>2, <2>1 DEF Told
      <4>2. y.owed = TRUE /\ y.unheard = (x.unheard \/ Streaming(v))
        BY <4>1, <2>1 DEF Visit
      <4> QED BY <4>2, <2>1 DEF Streaming
    <3> QED BY <3>1, <3>2
  <2> QED BY <2>1, <2>5, <2>6, <2>7, <2>t DEF Fits, Granting, Resolves
<1> QED BY <1>4, <1>5, <1>6

LEMMA AnnounceTells ==
  ASSUME ShareInv, Announce
  PROVE  visitor' \in [Visitor -> Visit \cup {NoVisit}] /\ \A v \in Visitor : Told(v)
<1>1. \A v \in Visitor : Told(v)
  BY DEF Announce, Told
<1>2. \A v \in Visitor : visitor'[v] \in Visit \cup {NoVisit}
  <2> SUFFICES ASSUME NEW v \in Visitor, visitor[v] # NoVisit
               PROVE  visitor'[v] \in Visit
    BY <1>1 DEF Told
  <2>1. visitor[v] \in Visit
    BY VisitOrNone DEF ShareInv
  <2>2. Streaming(v) \in BOOLEAN
    BY DEF Streaming
  <2> QED BY <1>1, <2>1, <2>2 DEF Told, Visit
<1>3. visitor' = [v \in Visitor |-> visitor'[v]]
  BY DEF Announce
<1> QED BY <1>1, <1>2, <1>3

LEMMA StandingReplaced ==
  ASSUME ShareTypeOK, NEW g \in 0 .. MaxTurns + 1
  PROVE  LET s == [standing EXCEPT !.generation = g, !.access = Unsynced] IN
         s \in Standing /\ s.generation = g
<1> DEFINE Access == {Unsynced} \cup {Synced(S) : S \in SUBSET Pin}
<1>1. \A a \in Access :
        LET s == [standing EXCEPT !.generation = g, !.access = a] IN
        s \in Standing /\ s.generation = g
  <2>1. standing \in [member : BOOLEAN, active : BOOLEAN, generation : 0 .. MaxTurns + 1,
                      access : Access]
    BY DEF ShareTypeOK, Standing
  <2>2. Standing = [member : BOOLEAN, active : BOOLEAN, generation : 0 .. MaxTurns + 1,
                    access : Access]
    BY DEF Standing
  <2> HIDE DEF Access
  <2> QED BY <2>1, <2>2
<1> QED BY <1>1

LEMMA TurnStep ==
  ASSUME ShareInv, Turn
  PROVE  ShareInv'
<1>t. ShareTypeOK /\ CountsFit /\ MaxTurns \in Nat /\ turns \in Nat /\ turns + 1 <= MaxTurns
  BY ShareAssumption DEF ShareInv, ShareTypeOK, Turn
<1>u. UNCHANGED <<link, minted, lapsed, maker>> /\ turns' = turns + 1
  BY DEF Turn
<1>1. /\ standing' \in Standing /\ standing'.generation <= turns + 2
      /\ standing'.generation \in {standing.generation, turns + 2, 0}
  <2>1. standing \in Standing /\ standing.generation \in Nat /\ standing.generation <= turns + 1
    BY <1>t DEF ShareTypeOK, Standing, CountsFit
  <2>2. CASE \E b \in BOOLEAN : standing' = [standing EXCEPT !.member = b]
    BY <2>1, <2>2, <1>t DEF Standing
  <2>3. CASE \E b \in BOOLEAN : standing' = [standing EXCEPT !.active = b]
    BY <2>1, <2>3, <1>t DEF Standing
  <2>4. CASE standing' = [standing EXCEPT !.generation = turns + 2, !.access = Unsynced]
    <3>1. turns + 2 \in 0 .. MaxTurns + 1
      BY <1>t
    <3>2. standing' \in Standing /\ standing'.generation = turns + 2
      BY <2>4, <3>1, <1>t, StandingReplaced
    <3> QED BY <3>2, <1>t
  <2>5. CASE standing' = [standing EXCEPT !.generation = 0, !.access = Unsynced]
    <3>1. 0 \in 0 .. MaxTurns + 1
      BY <1>t
    <3>2. standing' \in Standing /\ standing'.generation = 0
      BY <2>5, <3>1, <1>t, StandingReplaced
    <3> QED BY <3>2, <1>t
  <2>6. CASE \E S \in SUBSET Pin : standing' = [standing EXCEPT !.access = Synced(S)]
    BY <2>1, <2>6, <1>t DEF Standing
  <2> QED BY <2>2, <2>3, <2>4, <2>5, <2>6 DEF Turn, Changed
<1>2. GrantsFade
  <2> SUFFICES ASSUME NEW t \in 1 .. minted, Granting(t)'
               PROVE  Granting(t) /\ link' = link
    BY DEF GrantsFade
  <2>1. link # NoLink /\ link.token = t /\ t \notin lapsed /\ standing'.generation = link.generation
    BY <1>u DEF Granting
  <2>2. link.generation \in Nat /\ link.generation # 0 /\ link.generation <= turns + 1
    BY <2>1, <1>t DEF ShareTypeOK, Link, CountsFit
  <2>3. standing'.generation = standing.generation
    BY <1>1, <2>1, <2>2, <1>t
  <2> QED BY <2>1, <2>3, <1>u DEF Granting
<1>3. visitor' \in [Visitor -> Visit \cup {NoVisit}] /\ \A v \in Visitor : Told(v)
  BY AnnounceTells DEF Turn
<1>4. /\ seen' \in [Visitor -> SUBSET Pin] /\ VisitsFit'
      /\ \A v \in Visitor : visitor'[v] # NoVisit => visitor'[v].token <= minted'
  <2>1. minted <= minted' /\ minted' \in 0 .. MaxTokens /\ link' \in Link \cup {NoLink}
    BY <1>u, <1>t DEF ShareTypeOK
  <2> QED BY <2>1, <1>1, <1>2, <1>3, OthersKeep DEF Turn
<1>5. ShareTypeOK'
  BY <1>t, <1>u, <1>1, <1>3, <1>4 DEF ShareTypeOK
<1>6. CountsFit'
  <2>1. link # NoLink => link.generation \in Nat
    BY <1>t DEF ShareTypeOK, Link
  <2>2. maker # NoMaker => maker.generation \in Nat
    BY <1>t DEF ShareTypeOK
  <2> QED BY <2>1, <2>2, <1>t, <1>u, <1>1, <1>4 DEF CountsFit
<1> QED BY <1>4, <1>5, <1>6 DEF ShareInv

LEMMA LapseStep ==
  ASSUME ShareInv, Lapse
  PROVE  ShareInv'
<1>t. ShareTypeOK /\ CountsFit
  BY DEF ShareInv
<1>u. UNCHANGED <<standing, link, minted, turns, maker, visitor>> /\ lapsed \subseteq lapsed'
  BY DEF Lapse
<1>1. lapsed' \in SUBSET (1 .. MaxTokens)
  BY <1>t DEF ShareTypeOK, Lapse, Link
<1>2. GrantsFade
  BY <1>u DEF GrantsFade, Granting
<1>3. Untold
  <2>1. \A t : Resolves(t) => Resolves(t)' \/ t \in lapsed'
    BY <1>u DEF Resolves, Granting
  <2> QED BY <2>1, <1>u DEF Untold
<1>4. /\ seen' \in [Visitor -> SUBSET Pin] /\ VisitsFit'
      /\ \A v \in Visitor : visitor'[v] # NoVisit => visitor'[v].token <= minted'
  <2>1. /\ minted <= minted' /\ minted' \in 0 .. MaxTokens
        /\ (standing \in Standing /\ link \in Link \cup {NoLink})'
        /\ visitor' \in [Visitor -> Visit \cup {NoVisit}]
    BY <1>u, <1>t DEF ShareTypeOK
  <2> QED BY <2>1, <1>2, <1>3, OthersKeep DEF Lapse
<1> QED BY <1>t, <1>u, <1>1, <1>4 DEF ShareInv, ShareTypeOK, CountsFit

\* The creator's request reads; nobody is told.
LEMMA MakerReads ==
  ASSUME ShareInv, UNCHANGED <<standing, link, minted, lapsed, turns, visitor>>, Follow,
         maker' \in [step : {"connection", "viewer"}, rotate : BOOLEAN,
                     generation : 0 .. MaxTurns + 1, repos : SUBSET Pin] \cup {NoMaker},
         maker' # NoMaker => /\ maker'.generation <= turns + 1
                             /\ maker'.step = "viewer" => maker'.generation # 0
  PROVE  ShareInv'
<1>t. ShareTypeOK /\ CountsFit
  BY DEF ShareInv
<1>1. GrantsFade /\ Untold
  BY DEF GrantsFade, Untold, Granting, Resolves
<1>2. /\ seen' \in [Visitor -> SUBSET Pin] /\ VisitsFit'
      /\ \A v \in Visitor : visitor'[v] # NoVisit => visitor'[v].token <= minted'
  <2>1. /\ minted <= minted' /\ minted' \in 0 .. MaxTokens
        /\ (standing \in Standing /\ link \in Link \cup {NoLink})'
        /\ visitor' \in [Visitor -> Visit \cup {NoVisit}]
    BY <1>t DEF ShareTypeOK
  <2> QED BY <2>1, <1>1, OthersKeep
<1> QED BY <1>t, <1>2 DEF ShareInv, ShareTypeOK, CountsFit

LEMMA MakingSteps ==
  ASSUME ShareInv, ReadViewer \/ \E rotate \in BOOLEAN : StartMaking(rotate)
  PROVE  ShareInv'
<1>t. /\ standing \in Standing /\ standing.generation <= turns + 1 /\ standing.access.repos \subseteq Pin
      /\ standing.generation \in 0 .. MaxTurns + 1
  BY DEF ShareInv, ShareTypeOK, CountsFit, Standing, Synced, Unsynced
<1>1. ASSUME NEW rotate \in BOOLEAN, StartMaking(rotate)
      PROVE  ShareInv'
  <2> DEFINE m == [step |-> "connection", rotate |-> rotate, repos |-> {},
                   generation |-> standing.generation]
  <2>1. /\ m \in [step : {"connection", "viewer"}, rotate : BOOLEAN,
                  generation : 0 .. MaxTurns + 1, repos : SUBSET Pin]
        /\ m.generation <= turns + 1 /\ m.step # "viewer"
    BY <1>t
  <2> QED BY <1>1, <2>1, MakerReads DEF StartMaking
<1>2. CASE ReadViewer
  <2> DEFINE m == [maker EXCEPT !.step = "viewer", !.repos = standing.access.repos]
  <2>1. /\ maker \in [step : {"connection", "viewer"}, rotate : BOOLEAN,
                      generation : 0 .. MaxTurns + 1, repos : SUBSET Pin]
        /\ maker.generation <= turns + 1
    BY <1>2 DEF ShareInv, ShareTypeOK, CountsFit, ReadViewer
  <2>2. /\ m \in [step : {"connection", "viewer"}, rotate : BOOLEAN,
                  generation : 0 .. MaxTurns + 1, repos : SUBSET Pin]
        /\ m.generation = maker.generation
    BY <2>1, <1>t
  <2>3. maker' = NoMaker \/ (maker' = m /\ maker.generation # 0)
    BY <1>2 DEF ReadViewer
  <2> QED BY <1>2, <2>1, <2>2, <2>3, MakerReads DEF ReadViewer
<1> QED BY <1>1, <1>2

\* The row is another or gone, under a token nobody presented yet; the streams are told.
LEMMA RowReplaced ==
  ASSUME ShareInv, UNCHANGED <<standing, lapsed, turns>>, Announce, Follow,
         maker' \in {maker, NoMaker},
         \/ link' = NoLink /\ minted' = minted
         \/ /\ minted' = minted + 1 /\ minted' \in 0 .. MaxTokens
            /\ link' \in Link /\ link'.token = minted' /\ link'.generation <= turns + 1
  PROVE  ShareInv'
<1>t. ShareTypeOK /\ CountsFit /\ minted \in Nat
  BY DEF ShareInv, ShareTypeOK
<1>1. GrantsFade
  BY <1>t DEF GrantsFade, Granting
<1>2. visitor' \in [Visitor -> Visit \cup {NoVisit}] /\ \A v \in Visitor : Told(v)
  BY AnnounceTells
<1>3. /\ minted <= minted' /\ minted' \in 0 .. MaxTokens
      /\ (standing \in Standing /\ link \in Link \cup {NoLink})'
  BY <1>t DEF ShareTypeOK
<1>4. /\ seen' \in [Visitor -> SUBSET Pin] /\ VisitsFit'
      /\ \A v \in Visitor : visitor'[v] # NoVisit => visitor'[v].token <= minted'
  BY <1>1, <1>2, <1>3, OthersKeep
<1>5. ShareTypeOK'
  BY <1>t, <1>2, <1>3, <1>4 DEF ShareTypeOK
<1>6. CountsFit'
  BY <1>t, <1>4 DEF CountsFit
<1> QED BY <1>4, <1>5, <1>6 DEF ShareInv

LEMMA CreateStep ==
  ASSUME ShareInv, Create
  PROVE  ShareInv'
<1>t. /\ ShareTypeOK /\ MaxTokens \in Nat /\ minted \in Nat /\ minted + 1 <= MaxTokens
      /\ maker \in [step : {"connection", "viewer"}, rotate : BOOLEAN,
                    generation : 0 .. MaxTurns + 1, repos : SUBSET Pin]
      /\ maker.generation <= turns + 1 /\ maker.generation # 0
  BY ShareAssumption DEF ShareInv, ShareTypeOK, CountsFit, Create
<1>1. CASE Creatable
  <2> DEFINE row == [token |-> minted + 1, generation |-> maker.generation,
                     pinned |-> maker.repos]
  <2>1. row \in Link /\ row.token = minted + 1 /\ row.generation <= turns + 1
    BY <1>t DEF Link
  <2>2. minted' = minted + 1 /\ minted' \in 0 .. MaxTokens /\ link' = row
    BY <1>1, <1>t DEF Create
  <2>3. UNCHANGED <<standing, lapsed, turns>> /\ Announce /\ Follow /\ maker' = NoMaker
    BY <1>1 DEF Create
  <2> QED BY <2>1, <2>2, <2>3, RowReplaced
<1>2. CASE ~Creatable
  BY <1>2, MakerReads DEF Create
<1> QED BY <1>1, <1>2

LEMMA RevokeStep ==
  ASSUME ShareInv, Revoke
  PROVE  ShareInv'
BY RowReplaced DEF Revoke

-----------------------------------------------------------------------------
(* The theorems. *)

LEMMA ShareInitial ==
  ASSUME ShareInit
  PROVE  ShareInv
<1>1. ShareTypeOK
  <2>1. standing \in Standing
    <3>1. Synced(Pin) \in {Synced(S) : S \in SUBSET Pin}
      OBVIOUS
    <3> QED BY <3>1, ShareAssumption DEF ShareInit, Standing
  <2> QED BY <2>1, ShareAssumption DEF ShareInit, ShareTypeOK
<1>2. CountsFit /\ VisitsFit
  BY DEF ShareInit, CountsFit, VisitsFit, NoMaker
<1> QED BY <1>1, <1>2 DEF ShareInv

LEMMA ShareSteps ==
  ASSUME ShareInv, [ShareNext]_shareVars
  PROVE  ShareInv'
<1>1. CASE UNCHANGED shareVars
  <2>1. ShareTypeOK' /\ CountsFit'
    BY <1>1 DEF shareVars, ShareInv, ShareTypeOK, CountsFit
  <2>2. VisitsFit'
    BY <1>1 DEF shareVars, ShareInv, VisitsFit, Fits, Granting, Resolves
  <2> QED BY <2>1, <2>2 DEF ShareInv
<1>2. CASE Turn \/ Lapse \/ ReadViewer \/ Create \/ Revoke
  BY <1>2, TurnStep, LapseStep, MakingSteps, CreateStep, RevokeStep
<1>3. CASE \E rotate \in BOOLEAN : StartMaking(rotate)
  BY <1>3, MakingSteps
<1>4. ASSUME NEW v \in Visitor,
             \/ \E t \in 1 .. minted, is \in {"feed", "pulse", "health", "stream"} : Visits(v, is, t)
             \/ Resolve(v) \/ ReadAccess(v) \/ Authorized(v) \/ ReadData(v)
             \/ OpenStream(v) \/ Hear(v) \/ Heartbeat(v)
      PROVE  ShareInv'
  BY <1>4, VisitsStep, ResolveStep, ReadAccessStep, AuthorizedStep, ReadDataStep,
     OpenStreamStep, HearStep, HeartbeatStep
<1>5. ASSUME NEW v \in Visitor, Leaves(v) \/ EndsAtExpiry(v)
      PROVE  ShareInv'
  <2>1. Good(v, NoVisit)
    BY DEF Good
  <2> QED BY <1>5, <2>1, VisitsGoOn DEF Leaves, EndsAtExpiry
<1> QED BY <1>1, <1>2, <1>3, <1>4, <1>5 DEF ShareNext

\* Links, grants and the visits under way always fit together.
THEOREM ShareInvariance == ShareSpec => []ShareInv
<1>1. ShareInit => ShareInv
  BY ShareInitial
<1>2. ShareInv /\ [ShareNext]_shareVars => ShareInv'
  BY ShareSteps
<1> QED BY <1>1, <1>2, PTL DEF ShareSpec

\* Links, requests and streams are always of their types.
THEOREM SharesTyped == ShareSpec => []ShareTypeOK
<1>1. ShareInv => ShareTypeOK
  BY DEF ShareInv
<1> QED BY <1>1, ShareInvariance, PTL

\* An answer through a link shows what its link and grant let be read at some moment since
\* the data were read; a quiet stream is up to date with its link and its creator.
THEOREM SharesAreSafe == ShareSpec => []SharesSafe
<1>1. ShareInv => SharesSafe
  <2> SUFFICES ASSUME ShareInv, NEW v \in Visitor, visitor[v] # NoVisit
               PROVE  /\ visitor[v].stage = "answered" => visitor[v].shown \subseteq seen[v]
                      /\ Streaming(v) /\ visitor[v].check = "none" /\ ~visitor[v].unheard =>
                           /\ ~visitor[v].owed
                           /\ Resolves(visitor[v].token) \/ visitor[v].token \in lapsed
    BY DEF SharesSafe, SharedIsCurrent, StreamsFollow, Streaming
  <2>1. Fits(visitor[v], seen[v])
    BY DEF ShareInv, VisitsFit
  <2> QED BY <2>1 DEF Fits, Streaming
<1> QED BY <1>1, ShareInvariance, PTL

-----------------------------------------------------------------------------
(* Imports of repository history (SyncRuns). *)

\* All that happened in the window before m in the repository r is among S, except what
\* GitHub may still have been about to list.
Covers(history, r, m, S) ==
  \A h \in Happening :
    (/\ history[h] # Never /\ history[h].in = r
     /\ m - Window <= history[h].at /\ history[h].at < m - Overlap)
    => h \in S

\* No mark and no happening lies ahead of the clock; GitHub lists in time.
TimesPass ==
  /\ \A r \in Repository : mark[r] <= clock
  /\ \A h \in Happening : happened[h] # Never =>
       /\ happened[h].at <= clock
       /\ ~happened[h].listed => clock <= happened[h].at + Overlap

\* What a run has read and stored is enough for the mark it will set.
Enough(i) ==
  Begun(i) =>
    /\ import[i].startedAt <= clock
    /\ \A r \in Repository :
         /\ import[i].since[r] <= import[i].startedAt
         /\ import[i].since[r] # NoMark => Covers(happened, r, import[i].since[r], stored)
         /\ r \in import[i].unmarked =>
              Covers(happened, r, import[i].startedAt, stored \cup import[i].read[r])

RunCovers(i) ==
  /\ Enough(i)
  /\ Importing(i) /\ ~Begun(i) => import[i].unmarked = {}

SyncInv ==
  /\ SyncTypeOK
  /\ TimesPass
  /\ MarksCover
  /\ \A i \in Run : RunCovers(i)
  /\ OutcomeIsOwn

\* What a step of GitHub or of the clock may do to what happened.
Later ==
  /\ clock' \in Time /\ clock <= clock'
  /\ \A h \in Happening :
       \/ happened'[h] = happened[h]
       \/ happened[h] = Never /\ happened'[h].at = clock
       \/ happened[h] # Never /\ happened'[h].at = happened[h].at /\ happened'[h].in = happened[h].in

\* A cover up to now stays one: what happens later happens after it.
LEMMA CoverStays ==
  ASSUME SyncTypeOK, Later, NEW r \in Repository, NEW m \in Int, m <= clock,
         NEW S, NEW T, S \subseteq T, Covers(happened, r, m, S)
  PROVE  Covers(happened', r, m, T)
<1>1. SUFFICES ASSUME NEW h \in Happening, happened'[h] # Never, happened'[h].in = r,
                      m - Window <= happened'[h].at, happened'[h].at < m - Overlap
               PROVE  h \in T
  BY DEF Covers, Never
<1> USE SyncAssumption
<1>2. CASE happened'[h] = happened[h]
  BY <1>1, <1>2 DEF Covers
<1>3. CASE happened[h] = Never /\ happened'[h].at = clock
  BY <1>1, <1>3 DEF SyncTypeOK, Time
<1>4. CASE /\ happened[h] # Never /\ happened'[h].at = happened[h].at
           /\ happened'[h].in = happened[h].in
  BY <1>1, <1>4 DEF Covers
<1>5. QED  BY <1>2, <1>3, <1>4 DEF Later

\* A run that goes on as it was keeps what it covers, whatever the others do.
LEMMA EnoughStays ==
  ASSUME SyncTypeOK, Later, NEW i \in Run, Enough(i), import'[i] = import[i],
         stored \subseteq stored'
  PROVE  Enough(i)'
<1>1. SUFFICES ASSUME Begun(i)'
               PROVE  /\ import[i].startedAt <= clock'
                      /\ \A r \in Repository :
                           /\ import[i].since[r] <= import[i].startedAt
                           /\ import[i].since[r] # NoMark =>
                                Covers(happened', r, import[i].since[r], stored')
                           /\ r \in import[i].unmarked =>
                                Covers(happened', r, import[i].startedAt, stored' \cup import[i].read[r])
  BY Zenon DEF Enough
<1>2. Begun(i)
  BY <1>1 DEF Begun, Importing
<1>3. /\ import[i] \in Batch
      /\ import[i].startedAt \in Time /\ import[i].startedAt <= clock
      /\ clock \in Int /\ clock' \in Int /\ clock <= clock'
  BY <1>2 DEF SyncTypeOK, Enough, Begun, Importing, Batch, Ended, Time, Later
<1>0. SUFFICES ASSUME NEW r \in Repository
               PROVE  /\ import[i].startedAt <= clock'
                      /\ import[i].since[r] <= import[i].startedAt
                      /\ import[i].since[r] # NoMark =>
                           Covers(happened', r, import[i].since[r], stored')
                      /\ r \in import[i].unmarked =>
                           Covers(happened', r, import[i].startedAt, stored' \cup import[i].read[r])
  BY <1>3 DEF Time
<1>4. /\ import[i].since[r] \in Int /\ import[i].startedAt \in Int
      /\ import[i].since[r] <= import[i].startedAt
  <2>1. import[i].since \in [Repository -> Time \cup {NoMark}]
    BY <1>3 DEF Batch
  <2>2. import[i].since[r] \in Int /\ import[i].startedAt \in Int
    BY <1>3, <2>1 DEF Time, NoMark
  <2>3. QED  BY <1>2, <2>2 DEF Enough
<1>5. import[i].since[r] <= clock /\ import[i].startedAt <= clock'
  BY <1>3, <1>4
<1>6. import[i].since[r] # NoMark => Covers(happened', r, import[i].since[r], stored')
  BY <1>1, <1>2, <1>4, <1>5, CoverStays DEF Enough
<1>7. ASSUME r \in import[i].unmarked
      PROVE  Covers(happened', r, import[i].startedAt, stored' \cup import[i].read[r])
  <2>1. Covers(happened, r, import[i].startedAt, stored \cup import[i].read[r])
    BY <1>1, <1>2, <1>7 DEF Enough
  <2>2. QED  BY <1>1, <1>3, <1>4, <2>1, CoverStays
<1>8. QED  BY <1>4, <1>5, <1>6, <1>7

LEMMA RunStays ==
  ASSUME SyncTypeOK, Later, NEW i \in Run, RunCovers(i), import'[i] = import[i],
         stored \subseteq stored'
  PROVE  RunCovers(i)'
BY EnoughStays DEF RunCovers, Begun, Importing

LEMMA SyncStarts == SyncInit => SyncInv
<1>1. SUFFICES ASSUME SyncInit PROVE SyncInv
  OBVIOUS
<1> USE SyncAssumption
<1>2. SyncTypeOK
  BY <1>1 DEF SyncInit, SyncTypeOK, Time, NoMark, NoSync
<1>3. TimesPass /\ MarksCover
  BY <1>1 DEF SyncInit, TimesPass, MarksCover, NoMark
<1>4. \A i \in Run : RunCovers(i)
  BY <1>1 DEF SyncInit, RunCovers, Enough, Begun, Importing
<1>5. OutcomeIsOwn
  BY <1>1 DEF SyncInit, OutcomeIsOwn, NoSync
<1>6. QED  BY <1>2, <1>3, <1>4, <1>5 DEF SyncInv

\* When no mark changes, the marks keep what they cover.
LEMMA MarksStayCovered ==
  ASSUME SyncTypeOK, TimesPass, MarksCover, Later, UNCHANGED mark, stored \subseteq stored'
  PROVE  MarksCover'
<1>1. SUFFICES ASSUME NEW r \in Repository, mark[r] # NoMark
               PROVE  Covers(happened', r, mark[r], stored')
  BY DEF MarksCover, Covers
<1>2. mark[r] \in Int /\ mark[r] <= clock /\ Covers(happened, r, mark[r], stored)
  BY <1>1 DEF SyncTypeOK, TimesPass, MarksCover, Covers, Time, NoMark
<1>3. QED  BY <1>2, CoverStays

\* A step that leaves the clock and GitHub alone.
LEMMA NowIsLater == ASSUME SyncTypeOK, UNCHANGED <<clock, happened>> PROVE Later
BY DEF SyncTypeOK, Later, Time, Never

-----------------------------------------------------------------------------
(* GitHub and the clock. *)

LEMMA WorldFits ==
  ASSUME SyncInv, \/ Tick
                  \/ \E h \in Happening : Appears(h) \/ \E r \in Repository : Happens(h, r)
  PROVE  SyncInv'
<1> USE SyncAssumption
<1>1. UNCHANGED <<stored, mark, syncRun, import, outcome>>
  BY DEF Tick, Appears, Happens
<1>2. Later /\ SyncTypeOK' /\ TimesPass'
  <2>1. CASE Tick
    <3>1. clock' = clock + 1 /\ clock' \in Time /\ UNCHANGED happened
      BY <2>1 DEF Tick, SyncInv, SyncTypeOK, Time
    <3>2. SyncTypeOK'
      BY <1>1, <3>1 DEF SyncInv, SyncTypeOK
    <3>3. Later
      BY <3>1 DEF SyncInv, SyncTypeOK, Time, Later
    <3>4. TimesPass'
      <4>1. ASSUME NEW r \in Repository PROVE mark'[r] <= clock'
        BY <1>1, <3>1, <4>1 DEF SyncInv, SyncTypeOK, TimesPass, Time, NoMark
      <4>2. ASSUME NEW h \in Happening, happened[h] # Never
            PROVE  happened[h].at <= clock' /\ (~happened[h].listed => clock' <= happened[h].at + Overlap)
        <5>1. happened[h].at \in Int /\ happened[h].at <= clock /\ clock \in Int
          BY <4>2 DEF SyncInv, SyncTypeOK, TimesPass, Time
        <5>2. ~happened[h].listed => clock < happened[h].at + Overlap
          BY <2>1, <4>2 DEF Tick, Listed
        <5>3. QED  BY <3>1, <5>1, <5>2
      <4>3. QED  BY <1>1, <3>1, <4>1, <4>2 DEF TimesPass
    <3>5. QED  BY <3>2, <3>3, <3>4
  <2>2. ASSUME NEW h \in Happening, Appears(h)
        PROVE  Later /\ SyncTypeOK' /\ TimesPass'
    <3>1. PICK x \in [at : Time, in : Repository, listed : BOOLEAN] : x = happened[h]
      BY <2>2 DEF Appears, SyncInv, SyncTypeOK
    <3>2. /\ clock' = clock /\ happened[h] # Never
          /\ happened' = [happened EXCEPT ![h] = [x EXCEPT !.listed = TRUE]]
      BY <2>2, <3>1 DEF Appears
    <3>3. [x EXCEPT !.listed = TRUE] \in [at : Time, in : Repository, listed : BOOLEAN]
      BY <3>1
    <3>4. SyncTypeOK'
      BY <1>1, <3>2, <3>3 DEF SyncInv, SyncTypeOK
    <3>5. /\ \A g \in Happening \ {h} : happened'[g] = happened[g]
          /\ happened'[h].at = happened[h].at /\ happened'[h].in = happened[h].in
          /\ happened'[h].listed
      BY <3>1, <3>2 DEF SyncInv, SyncTypeOK
    <3>6. Later
      BY <3>2, <3>5 DEF SyncInv, SyncTypeOK, Time, Later
    <3>7. TimesPass'
      BY <1>1, <3>2, <3>5 DEF SyncInv, TimesPass
    <3>8. QED  BY <3>4, <3>6, <3>7
  <2>3. ASSUME NEW h \in Happening, NEW r \in Repository, Happens(h, r)
        PROVE  Later /\ SyncTypeOK' /\ TimesPass'
    <3>1. PICK b \in BOOLEAN :
            /\ clock' = clock /\ happened[h] = Never
            /\ happened' = [happened EXCEPT ![h] = [at |-> clock, in |-> r, listed |-> b]]
      BY <2>3 DEF Happens
    <3>2. SyncTypeOK'
      BY <1>1, <3>1 DEF SyncInv, SyncTypeOK
    <3>3. /\ \A g \in Happening \ {h} : happened'[g] = happened[g]
          /\ happened'[h].at = clock
      BY <3>1 DEF SyncInv, SyncTypeOK
    <3>4. Later
      BY <3>1, <3>3 DEF SyncInv, SyncTypeOK, Time, Later
    <3>5. TimesPass'
      BY <1>1, <3>1, <3>3 DEF SyncInv, SyncTypeOK, Time, TimesPass
    <3>6. QED  BY <3>2, <3>4, <3>5
  <2>4. QED  BY <2>1, <2>2, <2>3
<1>3. MarksCover'
  BY <1>1, <1>2, MarksStayCovered DEF SyncInv
<1>4. \A i \in Run : RunCovers(i)'
  BY <1>1, <1>2, RunStays DEF SyncInv
<1>5. OutcomeIsOwn'
  BY <1>1 DEF SyncInv, OutcomeIsOwn
<1>6. QED  BY <1>2, <1>3, <1>4, <1>5 DEF SyncInv

-----------------------------------------------------------------------------
(* The run's row. *)

LEMMA StartFits ==
  ASSUME SyncInv, NEW w \in Workspace, NEW i \in Run, Start(w, i)
  PROVE  SyncInv'
<1> USE SyncAssumption
<1> DEFINE new == [is |-> "import", workspace |-> w, startedAt |-> NoMark,
                   since |-> [r \in Repository |-> NoMark], todo |-> Repository,
                   read |-> [r \in Repository |-> {}], unmarked |-> {}, fatal |-> FALSE]
<1>1. /\ import' = [import EXCEPT ![i] = new]
      /\ new \in Batch /\ new.startedAt = NoMark /\ new.unmarked = {}
  <2>1. new \in Batch
    BY DEF Batch
  <2>2. QED  BY <2>1 DEF Start
<1> HIDE DEF new
<1>2. UNCHANGED <<clock, happened, stored, mark>> /\ Later
  BY NowIsLater DEF Start, SyncInv
<1>3. SyncTypeOK'
  <2>1. import' \in [Run -> Batch \cup {[is |-> "unused"], Ended}]
    BY <1>1 DEF SyncInv, SyncTypeOK
  <2>2. outcome' \in [Workspace -> Run \cup {NoRun}]
    BY DEF Start, SyncInv, SyncTypeOK
  <2>3. syncRun' \in [Workspace -> [id : Run \cup {NoRun}, overdue : BOOLEAN,
                                   status : {"none", "running", "succeeded", "failed"}]]
    BY DEF Start, SyncInv, SyncTypeOK
  <2>4. QED  BY <1>2, <2>1, <2>2, <2>3 DEF SyncInv, SyncTypeOK
<1>4. TimesPass' /\ MarksCover'
  BY <1>2 DEF SyncInv, TimesPass, MarksCover
<1>5. ASSUME NEW j \in Run PROVE RunCovers(j)'
  <2>1. CASE j = i
    BY <1>1, <2>1 DEF SyncInv, SyncTypeOK, RunCovers, Enough, Begun
  <2>2. CASE j # i
    <3>1. import'[j] = import[j]
      BY <1>1, <2>2 DEF SyncInv, SyncTypeOK
    <3>2. QED  BY <1>2, <3>1, RunStays DEF SyncInv
  <2>3. QED  BY <2>1, <2>2
<1>6. OutcomeIsOwn'
  BY DEF Start, SyncInv, SyncTypeOK, OutcomeIsOwn
<1>7. QED  BY <1>3, <1>4, <1>5, <1>6 DEF SyncInv

LEMMA OverdueFits ==
  ASSUME SyncInv, NEW w \in Workspace, BecomesOverdue(w)
  PROVE  SyncInv'
<1>1. UNCHANGED <<clock, happened, stored, mark, import, outcome>> /\ Later
  BY NowIsLater DEF BecomesOverdue, SyncInv
<1>2. PICK row \in [id : Run \cup {NoRun}, overdue : BOOLEAN,
                    status : {"none", "running", "succeeded", "failed"}] :
        row = syncRun[w]
  BY DEF SyncInv, SyncTypeOK
<1>3. /\ syncRun' = [syncRun EXCEPT ![w] = [row EXCEPT !.overdue = TRUE]]
      /\ row.status = "running"
  BY <1>2 DEF BecomesOverdue
<1>4. SyncTypeOK'
  BY <1>1, <1>2, <1>3 DEF SyncInv, SyncTypeOK
<1>5. OutcomeIsOwn'
  BY <1>1, <1>2, <1>3 DEF SyncInv, SyncTypeOK, OutcomeIsOwn
<1>6. TimesPass' /\ MarksCover' /\ \A i \in Run : RunCovers(i)'
  BY <1>1, RunStays DEF SyncInv, TimesPass, MarksCover
<1>7. QED  BY <1>4, <1>5, <1>6 DEF SyncInv

\* A run that ends, with or without an outcome of its own.
LEMMA EndFits ==
  ASSUME SyncInv, NEW i \in Run, Importing(i),
         \/ \E w \in Workspace, status \in {"succeeded", "failed"} : Finish(i, w, status)
         \/ Dies(i)
  PROVE  SyncInv'
<1>1. /\ UNCHANGED <<clock, happened, stored, mark>> /\ Later
      /\ import' = [import EXCEPT ![i] = Ended]
  BY NowIsLater DEF Finish, Dies, SyncInv
<1>2. \A j \in Run : RunCovers(j)'
  <2>1. SUFFICES ASSUME NEW j \in Run PROVE RunCovers(j)'
    OBVIOUS
  <2>2. CASE j = i
    BY <1>1, <2>2 DEF SyncInv, SyncTypeOK, RunCovers, Enough, Begun, Importing, Ended
  <2>3. CASE j # i
    <3>1. import'[j] = import[j]
      BY <1>1, <2>3 DEF SyncInv, SyncTypeOK
    <3>2. QED  BY <1>1, <3>1, RunStays DEF SyncInv
  <2>4. QED  BY <2>2, <2>3
<1>3. TimesPass' /\ MarksCover'
  BY <1>1 DEF SyncInv, TimesPass, MarksCover
<1> DEFINE Row == [id : Run \cup {NoRun}, overdue : BOOLEAN,
                   status : {"none", "running", "succeeded", "failed"}]
           RowsFit == /\ syncRun \in [Workspace -> Row]
                      /\ outcome \in [Workspace -> Run \cup {NoRun}]
                      /\ OutcomeIsOwn
<1>4. RowsFit'
  <2>1. CASE UNCHANGED <<syncRun, outcome>>
    BY <2>1 DEF SyncInv, SyncTypeOK, OutcomeIsOwn
  <2>2. ASSUME NEW w \in Workspace, NEW status \in {"succeeded", "failed"}, Current(w, i),
               syncRun' = [syncRun EXCEPT ![w].status = status, ![w].overdue = FALSE],
               outcome' = [outcome EXCEPT ![w] = i]
        PROVE  RowsFit'
    <3>1. PICK row \in Row : row = syncRun[w]
      BY DEF SyncInv, SyncTypeOK
    <3>2. /\ syncRun'[w] = [row EXCEPT !.status = status, !.overdue = FALSE]
          /\ syncRun' \in [Workspace -> Row]
          /\ \A v \in Workspace \ {w} : syncRun'[v] = syncRun[v]
      BY <2>2, <3>1 DEF SyncInv, SyncTypeOK
    <3>3. row.id = i /\ syncRun'[w].id = i
      BY <2>2, <3>1, <3>2 DEF Current
    <3>4. outcome' \in [Workspace -> Run \cup {NoRun}] /\ OutcomeIsOwn'
      BY <2>2, <3>2, <3>3 DEF SyncInv, SyncTypeOK, OutcomeIsOwn
    <3>5. QED  BY <3>2, <3>4
  <2>3. QED  BY <2>1, <2>2 DEF Finish, Dies
<1>5. SyncTypeOK'
  BY <1>1, <1>4 DEF SyncInv, SyncTypeOK
<1>6. QED  BY <1>2, <1>3, <1>4, <1>5 DEF SyncInv

-----------------------------------------------------------------------------
(* The import. *)

\* A step of one run's import, which adds to what is stored and leaves the marks alone.
LEMMA ImportFits ==
  ASSUME SyncInv, NEW i \in Run, NEW x \in Batch,
         UNCHANGED <<clock, happened, mark, syncRun, outcome>>,
         import' = [import EXCEPT ![i] = x],
         stored \subseteq stored', stored' \subseteq Happening,
         RunCovers(i)'
  PROVE  SyncInv'
<1>1. Later
  BY NowIsLater DEF SyncInv
<1>2. SyncTypeOK'
  BY DEF SyncInv, SyncTypeOK
<1>3. ASSUME NEW j \in Run PROVE RunCovers(j)'
  <2>1. CASE j = i
    BY <2>1
  <2>2. CASE j # i
    <3>1. import'[j] = import[j]
      BY <2>2 DEF SyncInv, SyncTypeOK
    <3>2. QED  BY <1>1, <3>1, RunStays DEF SyncInv
  <2>3. QED  BY <2>1, <2>2
<1>4. TimesPass' /\ OutcomeIsOwn'
  BY DEF SyncInv, TimesPass, OutcomeIsOwn
<1>5. MarksCover'
  BY <1>1, MarksStayCovered DEF SyncInv
<1>6. QED  BY <1>2, <1>3, <1>4, <1>5 DEF SyncInv

LEMMA BatchTyped ==
  ASSUME SyncTypeOK, NEW i \in Run, Importing(i)
  PROVE  import[i] \in Batch
BY DEF SyncTypeOK, Importing, Ended

LEMMA ClockFits ==
  ASSUME SyncInv, NEW i \in Run, TakeClock(i)
  PROVE  SyncInv'
<1>1. PICK x \in Batch : x = import[i]
  BY BatchTyped DEF SyncInv, TakeClock
<1> DEFINE y == [x EXCEPT !.startedAt = clock, !.since = mark]
<1>2. y \in Batch
  BY <1>1 DEF SyncInv, SyncTypeOK, Batch
<1>3. import' = [import EXCEPT ![i] = y]
  BY <1>1 DEF TakeClock, SyncInv, SyncTypeOK
<1>4. import'[i] = y
  BY <1>3 DEF SyncInv, SyncTypeOK
<1>5. /\ y.startedAt = clock /\ y.since = mark /\ y.unmarked = {}
      /\ clock # NoMark
  BY <1>1 DEF SyncInv, SyncTypeOK, RunCovers, Batch, TakeClock, Time, NoMark
<1> HIDE DEF y
<1>6. UNCHANGED <<clock, happened, stored, mark, syncRun, outcome>>
  BY DEF TakeClock
<1>7. \A r \in Repository : mark[r] # NoMark => Covers(happened, r, mark[r], stored)
  BY DEF SyncInv, MarksCover, Covers
<1>8. clock <= clock
  BY DEF SyncInv, SyncTypeOK, Time
<1>9. RunCovers(i)'
  BY <1>4, <1>5, <1>6, <1>7, <1>8 DEF SyncInv, TimesPass, RunCovers, Enough, Begun, Importing
<1>10. QED  BY <1>2, <1>3, <1>6, <1>9, ImportFits DEF SyncInv, SyncTypeOK

\* What the list of a repository leaves out is older than the window or covered before.
LEMMA ReadFits ==
  ASSUME SyncInv, NEW i \in Run, NEW r \in Repository, ReadRepository(i, r)
  PROVE  SyncInv'
<1> USE SyncAssumption
<1>1. PICK x \in Batch : x = import[i]
  BY BatchTyped DEF SyncInv, ReadRepository, Begun
<1>2. /\ Begun(i) /\ x.startedAt \in Int /\ x.startedAt <= clock /\ clock \in Int
      /\ x.since[r] \in Int /\ x.since[r] <= x.startedAt /\ x.startedAt # NoMark
      /\ x.is = "import"
  <2>1. Begun(i) /\ x.startedAt <= clock /\ x.since[r] <= x.startedAt
        /\ x.startedAt # NoMark /\ x.is = "import"
    BY <1>1 DEF ReadRepository, SyncInv, RunCovers, Enough, Begun, Importing
  <2>2. clock \in Int /\ x.startedAt \in Int /\ x.since[r] \in Int
    BY DEF SyncInv, SyncTypeOK, Batch, Time, NoMark
  <2>3. QED  BY <2>1, <2>2
<1> DEFINE found == {h \in Happening : /\ Listed(h) /\ happened[h].in = r
                                       /\ Cutoff(i, r) <= happened[h].at
                                       /\ happened[h].at <= import[i].startedAt}
           y == [x EXCEPT !.todo = @ \ {r}, !.unmarked = @ \cup {r},
                          !.read = [@ EXCEPT ![r] = found]]
<1>3. y \in Batch
  BY <1>1 DEF Batch
<1>4. import' = [import EXCEPT ![i] = y]
  BY <1>1 DEF ReadRepository, SyncInv, SyncTypeOK, Batch
<1>5. import'[i] = y
  BY <1>4 DEF SyncInv, SyncTypeOK
<1>6. /\ y.startedAt = x.startedAt /\ y.since = x.since /\ y.is = "import"
      /\ y.unmarked = x.unmarked \cup {r} /\ y.read[r] = found
      /\ \A q \in Repository \ {r} : y.read[q] = x.read[q]
  BY <1>2 DEF Batch
<1>7. UNCHANGED <<clock, happened, stored, mark, syncRun, outcome>>
  BY DEF ReadRepository
<1>8. Covers(happened, r, x.startedAt, stored \cup found)
  <2>1. SUFFICES ASSUME NEW h \in Happening, happened[h] # Never, happened[h].in = r,
                        x.startedAt - Window <= happened[h].at,
                        happened[h].at < x.startedAt - Overlap, h \notin stored
                 PROVE  h \in found
    BY DEF Covers
  <2>2. happened[h].at \in Int
    BY <2>1 DEF SyncInv, SyncTypeOK, Time
  <2>3. Listed(h)
    <3>1. happened[h].at + Overlap < clock
      BY <1>2, <2>1, <2>2
    <3>2. happened[h].listed
      BY <1>2, <2>1, <2>2, <3>1 DEF SyncInv, TimesPass
    <3>3. QED  BY <2>1, <3>2 DEF Listed
  <2>4. Cutoff(i, r) <= happened[h].at
    <3>1. CASE x.since[r] = NoMark
      BY <1>1, <2>1, <3>1 DEF Cutoff
    <3>2. CASE x.since[r] # NoMark
      <4>1. Covers(happened, r, x.since[r], stored)
        BY <1>1, <1>2, <3>2 DEF SyncInv, RunCovers, Enough
      <4>2. x.since[r] - Window <= happened[h].at
        BY <1>2, <2>1, <2>2
      <4>3. x.since[r] - Overlap <= happened[h].at
        BY <1>2, <2>1, <2>2, <4>1, <4>2 DEF Covers
      <4>4. Cutoff(i, r) = Larger(x.startedAt - Window, Smaller(x.since[r], x.startedAt) - Overlap)
        BY <1>1, <3>2 DEF Cutoff
      <4>5. QED  BY <1>2, <2>1, <2>2, <4>3, <4>4 DEF Larger, Smaller
    <3>3. QED  BY <3>1, <3>2
  <2>5. happened[h].at <= x.startedAt
    BY <1>2, <2>1, <2>2
  <2>6. QED  BY <1>1, <2>1, <2>3, <2>4, <2>5
<1> HIDE DEF found, y
<1>9. RunCovers(i)'
  <2>1. Enough(i)
    BY DEF SyncInv, RunCovers
  <2>2. ASSUME NEW q \in Repository, q \in y.unmarked
        PROVE  Covers(happened, q, y.startedAt, stored \cup y.read[q])
    <3>1. CASE q = r
      BY <1>6, <1>8, <3>1
    <3>2. CASE q # r
      BY <1>1, <1>2, <1>6, <2>1, <2>2, <3>2 DEF Enough
    <3>3. QED  BY <3>1, <3>2
  <2>3. Enough(i)'
    BY <1>1, <1>2, <1>5, <1>6, <1>7, <2>1, <2>2 DEF Enough
  <2>4. Begun(i)'
    BY <1>2, <1>5, <1>6 DEF Begun, Importing
  <2>5. QED  BY <2>3, <2>4 DEF RunCovers
<1>10. QED  BY <1>3, <1>4, <1>7, <1>9, ImportFits DEF SyncInv, SyncTypeOK

LEMMA SkipFits ==
  ASSUME SyncInv, NEW i \in Run, NEW r \in Repository, SkipRepository(i, r)
  PROVE  SyncInv'
<1>1. PICK x \in Batch : x = import[i]
  BY BatchTyped DEF SyncInv, SkipRepository, Begun
<1>2. PICK unknown \in BOOLEAN :
        import' = [import EXCEPT ![i] = [x EXCEPT !.todo = @ \ {r}, !.fatal = unknown]]
  BY <1>1 DEF SkipRepository, SyncInv, SyncTypeOK
<1> DEFINE y == [x EXCEPT !.todo = @ \ {r}, !.fatal = unknown]
<1>3. y \in Batch
  BY <1>1 DEF Batch
<1>4. import'[i] = y
  BY <1>2 DEF SyncInv, SyncTypeOK
<1>5. /\ y.startedAt = x.startedAt /\ y.since = x.since /\ y.is = x.is
      /\ y.unmarked = x.unmarked /\ y.read = x.read
  BY <1>1 DEF Batch
<1>6. UNCHANGED <<clock, happened, stored, mark, syncRun, outcome>>
  BY DEF SkipRepository
<1> HIDE DEF y
<1>7. RunCovers(i)'
  BY <1>1, <1>4, <1>5, <1>6 DEF SyncInv, RunCovers, Enough, Begun, Importing
<1>8. QED  BY <1>2, <1>3, <1>6, <1>7, ImportFits DEF SyncInv, SyncTypeOK, y

LEMMA StoreFits ==
  ASSUME SyncInv, NEW i \in Run, NEW r \in Repository, StoreRepository(i, r)
  PROVE  SyncInv'
<1>1. PICK x \in Batch : x = import[i]
  BY BatchTyped DEF SyncInv, StoreRepository, Begun
<1> DEFINE y == [x EXCEPT !.read = [@ EXCEPT ![r] = {}]]
<1>2. y \in Batch
  BY <1>1 DEF Batch
<1>3. import' = [import EXCEPT ![i] = y]
  BY <1>1 DEF StoreRepository, SyncInv, SyncTypeOK, Batch
<1>4. import'[i] = y
  BY <1>3 DEF SyncInv, SyncTypeOK
<1>5. /\ y.startedAt = x.startedAt /\ y.since = x.since /\ y.is = x.is
      /\ y.unmarked = x.unmarked
      /\ \A q \in Repository \ {r} : y.read[q] = x.read[q]
  BY <1>1 DEF Batch
<1>6. /\ UNCHANGED <<clock, happened, mark, syncRun, outcome>>
      /\ stored' = stored \cup x.read[r] /\ x.read[r] \subseteq Happening
  BY <1>1 DEF StoreRepository, Batch
<1> HIDE DEF y
<1>7. Begun(i) /\ Enough(i) /\ Begun(i)'
  BY <1>1, <1>4, <1>5 DEF StoreRepository, SyncInv, RunCovers, Begun, Importing
<1>8. ASSUME NEW q \in Repository
      PROVE  /\ x.since[q] # NoMark => Covers(happened, q, x.since[q], stored')
             /\ q \in x.unmarked => Covers(happened, q, x.startedAt, stored' \cup y.read[q])
  <2>1. x.since[q] # NoMark => Covers(happened, q, x.since[q], stored')
    BY <1>1, <1>6, <1>7 DEF Enough, Covers
  <2>2. stored \cup x.read[q] \subseteq stored' \cup y.read[q]
    BY <1>5, <1>6
  <2>3. q \in x.unmarked => Covers(happened, q, x.startedAt, stored \cup x.read[q])
    BY <1>1, <1>7 DEF Enough
  <2>4. QED  BY <2>1, <2>2, <2>3 DEF Covers
<1>9. RunCovers(i)'
  BY <1>1, <1>4, <1>5, <1>6, <1>7, <1>8 DEF RunCovers, Enough
<1>10. QED  BY <1>2, <1>3, <1>6, <1>9, ImportFits DEF SyncInv, SyncTypeOK

LEMMA MarkFits ==
  ASSUME SyncInv, NEW i \in Run, NEW r \in Repository, MarkRepository(i, r)
  PROVE  SyncInv' /\ \A q \in Repository : mark'[q] >= mark[q]
<1>1. PICK x \in Batch : x = import[i]
  BY BatchTyped DEF SyncInv, MarkRepository, Begun
<1>2. UNCHANGED <<clock, happened, stored, syncRun, outcome>> /\ Later
  BY NowIsLater DEF MarkRepository, SyncInv
<1>3. /\ Begun(i) /\ x.startedAt \in Time /\ x.startedAt <= clock
      /\ r \in x.unmarked /\ x.read[r] = {}
  <2>1. Begun(i) /\ r \in x.unmarked /\ x.read[r] = {}
    BY <1>1 DEF MarkRepository, Complete
  <2>2. x.startedAt <= clock /\ x.startedAt \in Time
    BY <1>1, <2>1 DEF SyncInv, RunCovers, Enough, Begun, Batch, NoMark
  <2>3. QED  BY <2>1, <2>2
<1>4. mark[r] \in Time \cup {NoMark} /\ mark[r] \in Int /\ x.startedAt \in Int
  BY <1>3 DEF SyncInv, SyncTypeOK, Time, NoMark
<1>5. /\ mark' = [mark EXCEPT ![r] = Larger(mark[r], x.startedAt)]
      /\ mark'[r] = Larger(mark[r], x.startedAt)
      /\ \A q \in Repository \ {r} : mark'[q] = mark[q]
      /\ mark'[r] \in Time \cup {NoMark} /\ mark'[r] >= mark[r]
      /\ mark' \in [Repository -> Time \cup {NoMark}]
  <2>1. mark' = [mark EXCEPT ![r] = Larger(mark[r], x.startedAt)]
    BY <1>1 DEF MarkRepository, MarkAt
  <2>2. Larger(mark[r], x.startedAt) \in Time \cup {NoMark} /\ Larger(mark[r], x.startedAt) >= mark[r]
    BY <1>3, <1>4 DEF Larger
  <2>3. QED  BY <2>1, <2>2 DEF SyncInv, SyncTypeOK
<1> DEFINE y == [x EXCEPT !.unmarked = @ \ {r}]
<1>6. y \in Batch
  BY <1>1 DEF Batch
<1>7. import' = [import EXCEPT ![i] = y] /\ import'[i] = y
  BY <1>1 DEF MarkRepository, SyncInv, SyncTypeOK
<1>8. /\ y.startedAt = x.startedAt /\ y.since = x.since /\ y.is = x.is
      /\ y.unmarked \subseteq x.unmarked /\ y.read = x.read
  BY <1>1 DEF Batch
<1> HIDE DEF y
<1>9. SyncTypeOK'
  BY <1>2, <1>5, <1>6, <1>7 DEF SyncInv, SyncTypeOK
<1>10. TimesPass'
  BY <1>2, <1>3, <1>5 DEF SyncInv, TimesPass, Larger
<1>11. MarksCover'
  <2>1. SUFFICES ASSUME NEW q \in Repository, mark'[q] # NoMark
                 PROVE  Covers(happened, q, mark'[q], stored)
    BY <1>2 DEF MarksCover, Covers
  <2>2. mark[q] # NoMark => Covers(happened, q, mark[q], stored)
    BY DEF SyncInv, MarksCover, Covers
  <2>3. CASE mark'[q] = mark[q]
    BY <2>1, <2>2, <2>3
  <2>4. CASE q = r /\ mark'[q] = x.startedAt
    <3>1. Covers(happened, r, x.startedAt, stored \cup x.read[r])
      BY <1>1, <1>3 DEF SyncInv, RunCovers, Enough
    <3>2. QED  BY <1>3, <2>4, <3>1 DEF Covers
  <2>5. QED  BY <1>5, <2>3, <2>4 DEF Larger
<1>12. ASSUME NEW j \in Run PROVE RunCovers(j)'
  <2>1. CASE j = i
    BY <1>1, <1>2, <1>3, <1>7, <1>8, <2>1 DEF SyncInv, RunCovers, Enough, Begun, Importing
  <2>2. CASE j # i
    <3>1. import'[j] = import[j]
      BY <1>7, <2>2 DEF SyncInv, SyncTypeOK
    <3>2. QED  BY <1>2, <3>1, RunStays DEF SyncInv
  <2>3. QED  BY <2>1, <2>2
<1>13. OutcomeIsOwn'
  BY <1>2 DEF SyncInv, OutcomeIsOwn
<1>14. \A q \in Repository : mark'[q] >= mark[q]
  BY <1>5 DEF SyncInv, SyncTypeOK, Time, NoMark
<1>15. QED  BY <1>9, <1>10, <1>11, <1>12, <1>13, <1>14 DEF SyncInv

LEMMA StopFits ==
  ASSUME SyncInv, NEW i \in Run, NEW r \in Repository, StopsShort(i, r)
  PROVE  SyncInv'
<1>1. PICK x \in Batch : x = import[i]
  BY BatchTyped DEF SyncInv, StopsShort, Begun
<1> DEFINE y == [x EXCEPT !.unmarked = @ \ {r}, !.read = [@ EXCEPT ![r] = {}], !.fatal = TRUE]
<1>2. y \in Batch
  BY <1>1 DEF Batch
<1>3. import' = [import EXCEPT ![i] = y]
  BY <1>1 DEF StopsShort, SyncInv, SyncTypeOK, Batch
<1>4. import'[i] = y
  BY <1>3 DEF SyncInv, SyncTypeOK
<1>5. /\ y.startedAt = x.startedAt /\ y.since = x.since /\ y.is = x.is
      /\ y.unmarked = x.unmarked \ {r}
      /\ \A q \in Repository \ {r} : y.read[q] = x.read[q]
  BY <1>1 DEF Batch
<1>6. UNCHANGED <<clock, happened, stored, mark, syncRun, outcome>>
  BY DEF StopsShort
<1> HIDE DEF y
<1>7. RunCovers(i)'
  BY <1>1, <1>4, <1>5, <1>6 DEF SyncInv, RunCovers, Enough, Begun, Importing
<1>8. QED  BY <1>2, <1>3, <1>6, <1>7, ImportFits DEF SyncInv, SyncTypeOK

-----------------------------------------------------------------------------
LEMMA SyncGoesOn ==
  ASSUME SyncInv, [SyncNext]_syncVars
  PROVE  SyncInv' /\ \A r \in Repository : mark'[r] >= mark[r]
<1>1. ASSUME UNCHANGED mark PROVE \A r \in Repository : mark'[r] >= mark[r]
  BY <1>1 DEF SyncInv, SyncTypeOK, Time, NoMark
<1>2. CASE UNCHANGED syncVars
  <2>1. UNCHANGED <<clock, happened, stored, mark, syncRun, import, outcome>> /\ Later
    BY <1>2, NowIsLater DEF syncVars, SyncInv
  <2>2. \A i \in Run : RunCovers(i)'
    BY <2>1, RunStays DEF SyncInv
  <2>3. SyncInv'
    BY <2>1, <2>2 DEF SyncInv, SyncTypeOK, TimesPass, MarksCover, OutcomeIsOwn
  <2>4. QED  BY <1>1, <2>1, <2>3
<1>3. CASE \/ Tick
           \/ \E h \in Happening : Appears(h) \/ \E r \in Repository : Happens(h, r)
  BY <1>1, <1>3, WorldFits DEF Tick, Appears, Happens
<1>4. ASSUME NEW w \in Workspace, BecomesOverdue(w) \/ \E i \in Run : Start(w, i)
      PROVE  SyncInv' /\ UNCHANGED mark
  BY <1>4, OverdueFits, StartFits DEF BecomesOverdue, Start
<1>5. ASSUME NEW i \in Run, TakeClock(i)
      PROVE  SyncInv' /\ UNCHANGED mark
  BY <1>5, ClockFits DEF TakeClock
<1>6. ASSUME NEW i \in Run, Settle(i) \/ Denied(i) \/ Dies(i)
      PROVE  SyncInv' /\ UNCHANGED mark
  <2>1. Importing(i) /\ import[i].workspace \in Workspace
    BY <1>6, BatchTyped DEF Settle, Denied, Dies, Begun, SyncInv, Batch
  <2>2. \/ \E w \in Workspace, status \in {"succeeded", "failed"} : Finish(i, w, status)
        \/ Dies(i)
    BY <1>6, <2>1 DEF Settle, Denied
  <2>3. QED  BY <2>1, <2>2, EndFits DEF Finish, Dies
<1>7. ASSUME NEW i \in Run, NEW r \in Repository,
             \/ ReadRepository(i, r) \/ SkipRepository(i, r)
             \/ StoreRepository(i, r) \/ StopsShort(i, r)
      PROVE  SyncInv' /\ UNCHANGED mark
  BY <1>7, ReadFits, SkipFits, StoreFits, StopFits
     DEF ReadRepository, SkipRepository, StoreRepository, StopsShort
<1>8. ASSUME NEW i \in Run, NEW r \in Repository, MarkRepository(i, r)
      PROVE  SyncInv' /\ \A q \in Repository : mark'[q] >= mark[q]
  BY <1>8, MarkFits
<1>9. QED  BY <1>1, <1>2, <1>3, <1>4, <1>5, <1>6, <1>7, <1>8 DEF SyncNext

\* What the imports have read, stored and marked always belongs together.
THEOREM SyncInvariance == SyncSpec => []SyncInv
<1>1. SyncInit => SyncInv
  BY SyncStarts
<1>2. SyncInv /\ [SyncNext]_syncVars => SyncInv'
  BY SyncGoesOn
<1>3. QED  BY <1>1, <1>2, PTL DEF SyncSpec

\* Imports that overlap, fail half-way, are taken over or finish out of order leave no gap
\* behind a mark, do not report for each other, and never set a mark back.
THEOREM ImportsAreSafe == SyncSpec => ImportsSafe
<1>1. SyncInv => MarksCover /\ OutcomeIsOwn
  BY DEF SyncInv
<1>2. SyncInv /\ [SyncNext]_syncVars => [\A r \in Repository : mark'[r] >= mark[r]]_syncVars
  BY SyncGoesOn
<1>3. SyncSpec => []SyncInv
  BY SyncInvariance
<1>4. QED  BY <1>1, <1>2, <1>3, PTL DEF SyncSpec, ImportsSafe, MarksForward

-----------------------------------------------------------------------------
(* Claims of reviews (ReviewClaims). *)

Posts ==
  [step : {"current", "lock", "recheck", "write", "reread", "saved", "conflict", "failed"},
   action : Action, fingerprint : Revision, fresh : BOOLEAN, version : 0 .. MaxCommits + 1]

Glances ==
  [step : {"sent", "read"}, fresh : BOOLEAN, version : 0 .. MaxCommits + 1,
   fingerprint : 0 .. MaxRevisions]

\* Who is about to write holds the lock, and what it checked under the lock still stands.
LockFits ==
  /\ claim.live => claim.by \in Reviewer
  /\ \A u \in Reviewer :
       /\ AtStep(u, "recheck") => wallLock = u
       /\ AtStep(u, "write") => wallLock = u /\ post[u].fingerprint = pull.revision

\* What a page shows is not ahead of the store, nor of an answer that the page will show.
PageFits(u) ==
  /\ view[u].version <= commits
  /\ glance[u] # NoGlance =>
       /\ glance[u].version <= commits
       /\ glance[u].fresh => post[u] = NoPost
       /\ glance[u].fresh /\ glance[u].step = "read" => view[u].version <= glance[u].version
  /\ post[u] # NoPost =>
       /\ post[u].version <= commits
       /\ post[u].step = "saved" => view[u].version <= post[u].version

ReviewInv ==
  /\ ReviewTypeOK
  /\ LockFits
  /\ \A u \in Reviewer : PageFits(u)

LEMMA PostTyped ==
  ASSUME ReviewTypeOK, NEW u \in Reviewer, post[u] # NoPost
  PROVE  post[u] \in Posts
BY DEF ReviewTypeOK, Posts

LEMMA GlanceTyped ==
  ASSUME ReviewTypeOK, NEW u \in Reviewer, glance[u] # NoGlance
  PROVE  glance[u] \in Glances
BY DEF ReviewTypeOK, Glances

LEMMA ReviewStarts == ReviewInit => ReviewInv
<1>1. SUFFICES ASSUME ReviewInit PROVE ReviewInv
  OBVIOUS
<1> USE ReviewAssumption
<1>2. ReviewTypeOK
  BY <1>1 DEF ReviewInit, ReviewTypeOK, Revision, Unclaimed, Awake, Nothing
<1>3. LockFits
  BY <1>1 DEF ReviewInit, LockFits, Unclaimed, AtStep
<1>4. ASSUME NEW u \in Reviewer PROVE PageFits(u)
  BY <1>1 DEF ReviewInit, PageFits, Nothing
<1>5. QED  BY <1>2, <1>3, <1>4 DEF ReviewInv

\* A page whose view and requests stay as they are.
LEMMA PageStays ==
  ASSUME ReviewTypeOK, NEW u \in Reviewer, PageFits(u), commits' \in Nat, commits <= commits',
         view'[u] = view[u], glance'[u] = glance[u], post'[u] = post[u]
  PROVE  PageFits(u)'
<1>1. commits \in Int /\ view[u].version \in Int
  BY DEF ReviewTypeOK
<1>2. glance[u] # NoGlance => glance[u].version \in Int
  BY GlanceTyped DEF Glances
<1>3. post[u] # NoPost => post[u].version \in Int
  BY PostTyped DEF Posts
<1>4. QED  BY <1>1, <1>2, <1>3 DEF PageFits

-----------------------------------------------------------------------------
(* The store: the wall, expiry, and an action that is committed. *)

LEMMA WallFits ==
  ASSUME ReviewInv, Ingest \/ ClaimExpires \/ \E u \in Reviewer : SnoozeExpires(u)
  PROVE  ReviewInv'
<1> USE ReviewAssumption
<1>1. /\ UNCHANGED <<wallLock, post, glance, view>>
      /\ commits' \in 1 .. MaxCommits + 1 /\ commits <= commits'
  BY DEF ReviewInv, ReviewTypeOK, Ingest, ClaimExpires, SnoozeExpires, Commit
<1>2. \A u \in Reviewer : PageFits(u)'
  BY <1>1, PageStays DEF ReviewInv
<1>3. CASE Ingest
  <2>1. PICK b \in BOOLEAN : pull' = [revision |-> pull.revision + 1, actionable |-> b]
    BY <1>3 DEF Ingest
  <2>2. pull' \in [revision : Revision, actionable : BOOLEAN]
    BY <1>3, <2>1 DEF Ingest, ReviewInv, ReviewTypeOK, Revision
  <2>3. ReviewTypeOK'
    BY <1>1, <1>3, <2>2 DEF Ingest, ReviewInv, ReviewTypeOK
  <2>4. LockFits'
    BY <1>1, <1>3 DEF Ingest, ReviewInv, LockFits, AtStep
  <2>5. QED  BY <1>2, <2>3, <2>4 DEF ReviewInv
<1>4. CASE ClaimExpires
  <2>1. claim' \in [by : Reviewer \cup {NoReviewer}, on : 0 .. MaxRevisions, live : BOOLEAN]
        /\ ~claim'.live
    BY <1>4 DEF ClaimExpires, ReviewInv, ReviewTypeOK
  <2>2. ReviewTypeOK'
    BY <1>1, <1>4, <2>1 DEF ClaimExpires, ReviewInv, ReviewTypeOK
  <2>3. LockFits'
    BY <1>1, <1>4, <2>1 DEF ClaimExpires, ReviewInv, LockFits, AtStep
  <2>4. QED  BY <1>2, <2>2, <2>3 DEF ReviewInv
<1>5. CASE \E u \in Reviewer : SnoozeExpires(u)
  <2>1. PICK u \in Reviewer : SnoozeExpires(u)
    BY <1>5
  <2>2. PICK s \in [on : 0 .. MaxRevisions, live : BOOLEAN] : s = snooze[u]
    BY DEF ReviewInv, ReviewTypeOK
  <2>3. snooze' = [snooze EXCEPT ![u] = [s EXCEPT !.live = FALSE]]
    BY <2>1, <2>2 DEF SnoozeExpires
  <2>4. ReviewTypeOK'
    <3>1. snooze' \in [Reviewer -> [on : 0 .. MaxRevisions, live : BOOLEAN]]
      BY <2>2, <2>3 DEF ReviewInv, ReviewTypeOK
    <3>2. QED  BY <1>1, <2>1, <3>1 DEF SnoozeExpires, ReviewInv, ReviewTypeOK
  <2>5. LockFits'
    BY <1>1, <2>1 DEF SnoozeExpires, ReviewInv, LockFits, AtStep
  <2>6. QED  BY <1>2, <2>4, <2>5 DEF ReviewInv
<1>6. QED  BY <1>3, <1>4, <1>5

-----------------------------------------------------------------------------
(* The action on its way through the store. *)

\* A request that moves on, with or without the lock, and leaves the other requests alone.
LEMMA PostFits ==
  ASSUME ReviewInv, NEW u \in Reviewer, post[u] # NoPost, NEW y \in Posts \cup {NoPost},
         post' = [post EXCEPT ![u] = y], UNCHANGED <<pull, glance, view>>,
         claim' \in [by : Reviewer \cup {NoReviewer}, on : 0 .. MaxRevisions, live : BOOLEAN],
         claim'.live => claim'.by \in Reviewer,
         snooze' \in [Reviewer -> [on : 0 .. MaxRevisions, live : BOOLEAN]],
         commits' \in 1 .. MaxCommits + 1, commits <= commits',
         {wallLock, wallLock'} \subseteq {u, NoReviewer} \/ wallLock' = wallLock,
         y # NoPost =>
           /\ y.version <= commits'
           /\ y.step = "saved" => view[u].version <= y.version
           /\ y.step = "recheck" => wallLock' = u
           /\ y.step = "write" => wallLock' = u /\ y.fingerprint = pull.revision
  PROVE  ReviewInv'
<1> USE ReviewAssumption
<1>1. post'[u] = y /\ \A v \in Reviewer \ {u} : post'[v] = post[v]
  BY DEF ReviewInv, ReviewTypeOK
<1>2. ReviewTypeOK'
  BY DEF ReviewInv, ReviewTypeOK, Posts
<1>3. LockFits'
  <2>1. ASSUME NEW v \in Reviewer
        PROVE  /\ AtStep(v, "recheck")' => wallLock' = v
               /\ AtStep(v, "write")' => wallLock' = v /\ post'[v].fingerprint = pull.revision
    <3>1. CASE v = u
      BY <1>1, <3>1 DEF AtStep
    <3>2. CASE v # u
      BY <1>1, <3>2 DEF ReviewInv, LockFits, AtStep
    <3>3. QED  BY <3>1, <3>2
  <2>2. QED  BY <2>1 DEF LockFits
<1>4. ASSUME NEW v \in Reviewer PROVE PageFits(v)'
  <2>1. CASE v = u
    <3>1. /\ commits \in Int /\ commits' \in Int /\ view[u].version \in Int
          /\ glance[u] # NoGlance => glance[u].version \in Int
      BY GlanceTyped DEF ReviewInv, ReviewTypeOK, Glances
    <3>2. PageFits(u)
      BY DEF ReviewInv
    <3>3. QED  BY <1>1, <2>1, <3>1, <3>2 DEF PageFits
  <2>2. CASE v # u
    <3>1. commits' \in Nat
      OBVIOUS
    <3>2. QED  BY <1>1, <2>2, <3>1, PageStays DEF ReviewInv
  <2>3. QED  BY <2>1, <2>2
<1>5. QED  BY <1>2, <1>3, <1>4 DEF ReviewInv

LEMMA GoesFits ==
  ASSUME ReviewInv, NEW u \in Reviewer, post[u] # NoPost,
         NEW s \in {"lock", "recheck", "write", "conflict", "failed"}, Goes(u, s),
         {wallLock, wallLock'} \subseteq {u, NoReviewer} \/ wallLock' = wallLock,
         s = "recheck" => wallLock' = u,
         s = "write" => wallLock' = u /\ post[u].fingerprint = pull.revision
  PROVE  ReviewInv'
<1>1. PICK p \in Posts : p = post[u]
  BY PostTyped DEF ReviewInv
<1>2. PICK y \in {NoPost, [p EXCEPT !.step = s]} : y = Step(u, s)
  BY <1>1 DEF Step
<1>3. y \in Posts \cup {NoPost}
  BY <1>1, <1>2 DEF Posts
<1>4. p.version <= commits
  BY <1>1 DEF ReviewInv, PageFits
<1>5. y # NoPost =>
        /\ y.version <= commits
        /\ y.step = s /\ s # "saved" /\ y.fingerprint = p.fingerprint
  BY <1>1, <1>2, <1>4 DEF Posts
<1>6. /\ post' = [post EXCEPT ![u] = y]
      /\ UNCHANGED <<pull, claim, snooze, commits, glance, view>>
  BY <1>2 DEF Goes, rows
<1>7. commits <= commits
  BY DEF ReviewInv, ReviewTypeOK
<1>8. QED
  BY <1>1, <1>3, <1>5, <1>6, <1>7, PostFits DEF ReviewInv, ReviewTypeOK, LockFits

LEMMA CheckFits ==
  ASSUME ReviewInv, NEW u \in Reviewer, CheckCurrent(u)
  PROVE  ReviewInv'
<1>1. post[u] # NoPost /\ UNCHANGED wallLock
  BY DEF CheckCurrent, AtStep
<1>2. PICK s \in {"lock", "conflict"} : Goes(u, s)
  BY DEF CheckCurrent
<1>3. QED  BY <1>1, <1>2, GoesFits

LEMMA TakeLockFits ==
  ASSUME ReviewInv, NEW u \in Reviewer, TakeLock(u)
  PROVE  ReviewInv'
BY GoesFits DEF TakeLock, AtStep

LEMMA RecheckFits ==
  ASSUME ReviewInv, NEW u \in Reviewer, RecheckLatest(u)
  PROVE  ReviewInv'
<1>1. post[u] # NoPost /\ wallLock = u
  BY DEF RecheckLatest, AtStep, ReviewInv, LockFits
<1>2. CASE Valid(u)
  BY <1>1, <1>2, GoesFits DEF RecheckLatest, Valid
<1>3. CASE ~Valid(u)
  BY <1>1, <1>3, GoesFits DEF RecheckLatest
<1>4. QED  BY <1>2, <1>3

LEMMA BreaksFits ==
  ASSUME ReviewInv, NEW u \in Reviewer, Breaks(u)
  PROVE  ReviewInv'
BY GoesFits DEF Breaks

\* A write ends the lock; what it leaves of the claims and snoozes has its type.
LEMMA WriteFits ==
  ASSUME ReviewInv, NEW u \in Reviewer, WriteAction(u)
  PROVE  ReviewInv'
<1> USE ReviewAssumption
<1>1. PICK p \in Posts : p = post[u]
  BY PostTyped DEF ReviewInv, WriteAction, AtStep
<1>2. /\ p # NoPost /\ wallLock = u /\ wallLock' = NoReviewer
      /\ UNCHANGED <<pull, glance, view>>
      /\ p.version <= commits /\ commits \in 1 .. MaxCommits + 1
  <2>1. post[u] # NoPost /\ wallLock = u /\ wallLock' = NoReviewer
    BY DEF WriteAction, AtStep, ReviewInv, LockFits
  <2>2. p.version <= commits
    BY <1>1, <2>1 DEF ReviewInv, PageFits
  <2>3. QED  BY <1>1, <2>1, <2>2 DEF WriteAction, ReviewInv, ReviewTypeOK
<1>3. CASE Refused(u)
  <2>1. PICK y \in {NoPost, [p EXCEPT !.step = "conflict"]} : y = Step(u, "conflict")
    BY <1>1 DEF Step
  <2>2. y \in Posts \cup {NoPost}
    BY <1>1, <2>1 DEF Posts
  <2>3. y # NoPost => y.version <= commits /\ y.step = "conflict"
    BY <1>1, <1>2, <2>1 DEF Posts
  <2>4. /\ post' = [post EXCEPT ![u] = y]
        /\ UNCHANGED <<claim, snooze, commits>>
    BY <1>3, <2>1 DEF WriteAction
  <2>5. /\ claim' \in [by : Reviewer \cup {NoReviewer}, on : 0 .. MaxRevisions, live : BOOLEAN]
        /\ claim'.live => claim'.by \in Reviewer
        /\ snooze' \in [Reviewer -> [on : 0 .. MaxRevisions, live : BOOLEAN]]
        /\ commits' \in 1 .. MaxCommits + 1 /\ commits <= commits'
    BY <1>2, <2>4 DEF ReviewInv, ReviewTypeOK, LockFits
  <2>6. QED
    BY <1>1, <1>2, <2>2, <2>3, <2>4, <2>5, PostFits
<1>4. CASE ~Refused(u)
  <2> DEFINE y == [p EXCEPT !.step = "reread"]
  <2>1. y \in Posts /\ y.version = p.version /\ y.step = "reread"
    BY <1>1 DEF Posts
  <2>2. /\ post' = [post EXCEPT ![u] = y] /\ Written(u)
        /\ commits' = commits + 1 /\ commits <= MaxCommits
    BY <1>1, <1>4 DEF WriteAction, Commit
  <2>3. /\ claim' \in [by : Reviewer \cup {NoReviewer}, on : 0 .. MaxRevisions, live : BOOLEAN]
        /\ claim'.live => claim'.by \in Reviewer
        /\ snooze' \in [Reviewer -> [on : 0 .. MaxRevisions, live : BOOLEAN]]
    <3>1. /\ p.action \in Action /\ p.fingerprint \in Revision
          /\ p.fingerprint \in 0 .. MaxRevisions
      BY DEF Posts, Revision
    <3>2. CASE p.action = "claim"
      <4>1. claim' = [by |-> u, on |-> p.fingerprint, live |-> TRUE] /\ UNCHANGED snooze
        BY <1>1, <2>2, <3>2 DEF Written
      <4>2. QED  BY <3>1, <4>1 DEF ReviewInv, ReviewTypeOK
    <3>3. CASE p.action = "release"
      <4>1. claim' = Unclaimed /\ UNCHANGED snooze
        BY <1>1, <2>2, <3>3 DEF Written
      <4>2. QED  BY <4>1 DEF ReviewInv, ReviewTypeOK, Unclaimed
    <3>4. CASE p.action = "snooze"
      <4>1. /\ snooze' = [snooze EXCEPT ![u] = [on |-> p.fingerprint, live |-> TRUE]]
            /\ UNCHANGED claim
        BY <1>1, <2>2, <3>4 DEF Written
      <4>2. QED  BY <3>1, <4>1 DEF ReviewInv, ReviewTypeOK, LockFits
    <3>5. CASE p.action = "unsnooze"
      <4>1. /\ snooze' = [snooze EXCEPT ![u] = IF snooze[u].on = p.fingerprint THEN Awake ELSE snooze[u]]
            /\ UNCHANGED claim
        BY <1>1, <2>2, <3>5 DEF Written
      <4>2. QED  BY <4>1 DEF ReviewInv, ReviewTypeOK, LockFits, Awake
    <3>6. QED  BY <3>1, <3>2, <3>3, <3>4, <3>5 DEF Action
  <2>4. /\ commits' \in 1 .. MaxCommits + 1 /\ commits <= commits'
        /\ y.version <= commits'
    BY <1>2, <2>1, <2>2 DEF Posts
  <2> HIDE DEF y
  <2>5. QED
    BY <1>1, <1>2, <2>1, <2>2, <2>3, <2>4, PostFits
<1>5. QED  BY <1>3, <1>4

LEMMA RereadFits ==
  ASSUME ReviewInv, NEW u \in Reviewer, Reread(u)
  PROVE  ReviewInv'
<1>1. PICK p \in Posts : p = post[u]
  BY PostTyped DEF ReviewInv, Reread, AtStep
<1>2. PICK y \in {NoPost} \cup {[p EXCEPT !.version = commits, !.step = s] : s \in {"saved", "conflict"}} :
        post' = [post EXCEPT ![u] = y]
  BY <1>1 DEF Reread
<1>3. commits \in 0 .. MaxCommits + 1 /\ commits \in 1 .. MaxCommits + 1 /\ view[u].version <= commits
  BY ReviewAssumption DEF ReviewInv, ReviewTypeOK, PageFits
<1>4. y \in Posts \cup {NoPost}
  BY <1>2, <1>3 DEF Posts
<1>5. y # NoPost => y.version = commits /\ y.step \in {"saved", "conflict"}
  BY <1>2 DEF Posts
<1>6. /\ post[u] # NoPost
      /\ UNCHANGED <<pull, claim, snooze, wallLock, commits, glance, view>>
  BY DEF Reread, AtStep, rows
<1>7. commits <= commits
  BY <1>3
<1>8. QED
  BY <1>2, <1>3, <1>4, <1>5, <1>6, <1>7, PostFits DEF ReviewInv, ReviewTypeOK, LockFits

-----------------------------------------------------------------------------
(* The page. *)

\* A step of one page: what it shows (x), its refresh (g) and its action (y).
LEMMA PageStepFits ==
  ASSUME ReviewInv, NEW u \in Reviewer, UNCHANGED <<pull, claim, snooze, wallLock, commits>>,
         NEW x \in [version : 0 .. MaxCommits + 1, fingerprint : 0 .. MaxRevisions],
         NEW g \in Glances \cup {NoGlance}, NEW y \in Posts \cup {NoPost},
         view' = [view EXCEPT ![u] = x], glance' = [glance EXCEPT ![u] = g],
         post' = [post EXCEPT ![u] = y],
         x.version <= commits,
         g # NoGlance =>
           /\ g.version <= commits
           /\ g.fresh => y = NoPost
           /\ g.fresh /\ g.step = "read" => x.version <= g.version,
         y # NoPost =>
           /\ y.version <= commits
           /\ y.step = "saved" => x.version <= y.version
           /\ y.step \in {"recheck", "write"} =>
                AtStep(u, y.step) /\ y.fingerprint = post[u].fingerprint
  PROVE  ReviewInv'
<1>1. /\ post'[u] = y /\ glance'[u] = g /\ view'[u] = x
      /\ \A v \in Reviewer \ {u} :
           post'[v] = post[v] /\ glance'[v] = glance[v] /\ view'[v] = view[v]
  BY DEF ReviewInv, ReviewTypeOK
<1>2. ReviewTypeOK'
  <2>1. /\ view' \in [Reviewer -> [version : 0 .. MaxCommits + 1, fingerprint : 0 .. MaxRevisions]]
        /\ glance' \in [Reviewer -> Glances \cup {NoGlance}]
        /\ post' \in [Reviewer -> Posts \cup {NoPost}]
    BY DEF ReviewInv, ReviewTypeOK, Posts, Glances
  <2>2. QED  BY <2>1 DEF ReviewInv, ReviewTypeOK, Posts, Glances
<1>3. LockFits'
  <2>1. ASSUME NEW v \in Reviewer
        PROVE  /\ AtStep(v, "recheck")' => wallLock' = v
               /\ AtStep(v, "write")' => wallLock' = v /\ post'[v].fingerprint = pull'.revision
    <3>1. CASE v = u
      BY <1>1, <3>1 DEF ReviewInv, LockFits, AtStep
    <3>2. CASE v # u
      BY <1>1, <3>2 DEF ReviewInv, LockFits, AtStep
    <3>3. QED  BY <3>1, <3>2
  <2>2. QED  BY <2>1 DEF ReviewInv, LockFits
<1>4. ASSUME NEW v \in Reviewer PROVE PageFits(v)'
  <2>1. CASE v = u
    BY <1>1, <2>1 DEF PageFits
  <2>2. CASE v # u
    BY <1>1, <2>2, PageStays, ReviewAssumption DEF ReviewInv, ReviewTypeOK
  <2>3. QED  BY <2>1, <2>2
<1>5. QED  BY <1>2, <1>3, <1>4 DEF ReviewInv

\* What every step of a page may use of its page.
LEMMA PageTyped ==
  ASSUME ReviewInv, NEW u \in Reviewer
  PROVE  /\ view[u] \in [version : 0 .. MaxCommits + 1, fingerprint : 0 .. MaxRevisions]
         /\ Nothing \in [version : 0 .. MaxCommits + 1, fingerprint : 0 .. MaxRevisions]
         /\ Nothing.version <= commits /\ view[u].version <= commits
         /\ commits \in 0 .. MaxCommits + 1 /\ commits <= commits
         /\ glance[u] \in Glances \cup {NoGlance} /\ post[u] \in Posts \cup {NoPost}
         /\ view = [view EXCEPT ![u] = view[u]]
         /\ glance = [glance EXCEPT ![u] = glance[u]]
         /\ post = [post EXCEPT ![u] = post[u]]
<1>1. view[u].version <= commits
  BY DEF ReviewInv, PageFits
<1>2. commits \in 0 .. MaxCommits + 1 /\ commits <= commits /\ Nothing.version <= commits
  BY DEF ReviewInv, ReviewTypeOK, Nothing
<1>3. Nothing \in [version : 0 .. MaxCommits + 1, fingerprint : 0 .. MaxRevisions]
  BY ReviewAssumption DEF Nothing
<1>4. /\ glance \in [Reviewer -> Glances \cup {NoGlance}]
      /\ post \in [Reviewer -> Posts \cup {NoPost}]
      /\ view \in [Reviewer -> [version : 0 .. MaxCommits + 1, fingerprint : 0 .. MaxRevisions]]
  BY DEF ReviewInv, ReviewTypeOK, Posts, Glances
<1>5. QED  BY <1>1, <1>2, <1>3, <1>4

LEMMA ActFits ==
  ASSUME ReviewInv, NEW u \in Reviewer, NEW a \in Action, Act(u, a)
  PROVE  ReviewInv'
<1> USE ReviewAssumption
<1>1. PICK f \in Revision :
        post' = [post EXCEPT ![u] = [step |-> "current", action |-> a, fresh |-> u \in Watched,
                                     version |-> 0, fingerprint |-> f]]
  <2>1. /\ view[u].fingerprint \in 0 .. MaxRevisions
        /\ pull.revision \in 1 .. MaxRevisions
    BY DEF ReviewInv, ReviewTypeOK, Revision
  <2>2. (IF u \in Watched THEN {view[u].fingerprint} \ {0} ELSE 1 .. pull.revision) \subseteq Revision
    BY <2>1 DEF Revision
  <2>3. QED  BY <2>2 DEF Act
<1> DEFINE y == [step |-> "current", action |-> a, fresh |-> u \in Watched,
                 version |-> 0, fingerprint |-> f]
           g == IF glance[u] = NoGlance THEN NoGlance ELSE [glance[u] EXCEPT !.fresh = FALSE]
<1>2. y \in Posts /\ y.version = 0 /\ y.step = "current"
  BY DEF Posts
<1>3. glance' = [glance EXCEPT ![u] = g]
  BY DEF Act, Outrun
<1>4. g \in Glances \cup {NoGlance} /\ (g # NoGlance => ~g.fresh /\ g.version <= commits)
  <2>1. CASE glance[u] = NoGlance
    BY <2>1
  <2>2. CASE glance[u] # NoGlance
    <3>1. PICK h \in Glances : h = glance[u]
      BY <2>2, PageTyped
    <3>2. h.version <= commits
      BY <2>2, <3>1 DEF ReviewInv, PageFits
    <3>3. g = [h EXCEPT !.fresh = FALSE]
      BY <2>2, <3>1
    <3>4. QED  BY <3>1, <3>2, <3>3 DEF Glances
  <2>3. QED  BY <2>1, <2>2
<1>5. /\ UNCHANGED <<pull, claim, snooze, wallLock, commits>>
      /\ view' = [view EXCEPT ![u] = view[u]]
      /\ y.version <= commits
  BY <1>2, PageTyped DEF Act, rows
<1> HIDE DEF y, g
<1>6. QED  BY <1>1, <1>2, <1>3, <1>4, <1>5, PageTyped, PageStepFits DEF y

LEMMA GlanceFits ==
  ASSUME ReviewInv, NEW u \in Reviewer, Glance(u) \/ ReadState(u)
  PROVE  ReviewInv' /\ UNCHANGED view
<1>1. /\ UNCHANGED <<pull, claim, snooze, wallLock, commits, post, view>>
  BY DEF Glance, ReadState, rows
<1>2. CASE Glance(u)
  <2> DEFINE g == [step |-> "sent", fresh |-> TRUE, version |-> 0, fingerprint |-> 0]
  <2>1. /\ g \in Glances /\ g.version <= commits /\ g.step = "sent"
        /\ glance' = [glance EXCEPT ![u] = g]
    BY <1>2, PageTyped, ReviewAssumption DEF Glance, Glances
  <2>2. post[u] = NoPost
    BY <1>2 DEF Glance
  <2> HIDE DEF g
  <2>3. QED  BY <1>1, <2>1, <2>2, PageTyped, PageStepFits
<1>3. CASE ReadState(u)
  <2>1. PICK h \in Glances : h = glance[u]
    BY <1>3, PageTyped DEF ReadState
  <2> DEFINE g == [h EXCEPT !.step = "read", !.version = commits, !.fingerprint = pull.revision]
  <2>2. pull.revision \in 0 .. MaxRevisions /\ commits \in 0 .. MaxCommits + 1
    BY ReviewAssumption DEF ReviewInv, ReviewTypeOK, Revision
  <2>3. /\ g \in Glances /\ g.version = commits /\ g.fresh = h.fresh
        /\ glance' = [glance EXCEPT ![u] = g]
    BY <1>3, <2>1, <2>2 DEF ReadState, Glances, ReviewInv, ReviewTypeOK
  <2>4. h.fresh => post[u] = NoPost
    BY <1>3, <2>1 DEF ReadState, ReviewInv, PageFits
  <2>5. post[u] # NoPost =>
          /\ post[u].version <= commits
          /\ post[u].step = "saved" => view[u].version <= post[u].version
          /\ AtStep(u, post[u].step)
    BY DEF ReviewInv, PageFits, AtStep
  <2> HIDE DEF g
  <2>6. QED  BY <1>1, <2>3, <2>4, <2>5, PageTyped, PageStepFits
<1>4. QED  BY <1>1, <1>2, <1>3

\* No page goes back to an older state of the list.
MovesOn == \A u \in Reviewer : view'[u] # Nothing => view'[u].version >= view[u].version

LEMMA ViewMovesOn ==
  ASSUME ReviewInv, NEW u \in Reviewer,
         NEW x \in [version : 0 .. MaxCommits + 1, fingerprint : 0 .. MaxRevisions],
         view' = [view EXCEPT ![u] = x], x = Nothing \/ view[u].version <= x.version
  PROVE  MovesOn
<1>1. ASSUME NEW v \in Reviewer, view'[v] # Nothing PROVE view'[v].version >= view[v].version
  <2>1. view[v].version \in Int
    BY PageTyped
  <2>2. view'[v] = IF v = u THEN x ELSE view[v]
    BY DEF ReviewInv, ReviewTypeOK
  <2>3. QED  BY <1>1, <2>1, <2>2
<1>2. QED  BY <1>1 DEF MovesOn

\* A request of the page that stays as it is.
LEMMA PostStands ==
  ASSUME ReviewInv, NEW u \in Reviewer, post[u] # NoPost
  PROVE  /\ post[u].version <= commits
         /\ post[u].step = "saved" => view[u].version <= post[u].version
         /\ AtStep(u, post[u].step)
BY DEF ReviewInv, PageFits, AtStep

LEMMA ShowsFits ==
  ASSUME ReviewInv, NEW u \in Reviewer, Shows(u)
  PROVE  ReviewInv' /\ MovesOn
<1>1. PICK h \in Glances : h = glance[u]
  BY PageTyped DEF Shows
<1>2. /\ UNCHANGED <<pull, claim, snooze, wallLock, commits, post>>
      /\ h # NoGlance /\ h.step = "read" /\ h.version <= commits
      /\ h.fresh => post[u] = NoPost /\ view[u].version <= h.version
      /\ glance' = [glance EXCEPT ![u] = NoGlance]
  BY <1>1 DEF Shows, rows, ReviewInv, PageFits
<1>3. CASE h.fresh
  <2> DEFINE x == [version |-> h.version, fingerprint |-> h.fingerprint]
  <2>1. /\ x \in [version : 0 .. MaxCommits + 1, fingerprint : 0 .. MaxRevisions]
        /\ x.version = h.version
    BY DEF Glances
  <2>2. view' = [view EXCEPT ![u] = x]
    BY <1>1, <1>3 DEF Shows, Latest
  <2> HIDE DEF x
  <2>3. MovesOn
    BY <1>2, <1>3, <2>1, <2>2, ViewMovesOn
  <2>4. QED  BY <1>2, <1>3, <2>1, <2>2, <2>3, PageTyped, PageStepFits
<1>4. CASE ~h.fresh
  <2>1. view' = [view EXCEPT ![u] = view[u]]
    BY <1>1, <1>4, PageTyped DEF Shows, Latest
  <2>2. view[u].version <= view[u].version
    BY PageTyped
  <2>3. MovesOn
    BY <2>1, <2>2, PageTyped, ViewMovesOn
  <2>4. QED  BY <1>2, <2>1, <2>3, PageTyped, PostStands, PageStepFits
<1>5. QED  BY <1>3, <1>4

LEMMA GlanceFailsFits ==
  ASSUME ReviewInv, NEW u \in Reviewer, GlanceFails(u)
  PROVE  ReviewInv' /\ MovesOn
<1>1. /\ UNCHANGED <<pull, claim, snooze, wallLock, commits, post>>
      /\ glance' = [glance EXCEPT ![u] = NoGlance]
      /\ Latest(glance[u]) => post[u] = NoPost
  BY DEF GlanceFails, rows, ReviewInv, PageFits, Latest
<1>2. CASE Latest(glance[u])
  <2>1. view' = [view EXCEPT ![u] = Nothing]
    BY <1>2 DEF GlanceFails
  <2>2. MovesOn
    BY <2>1, PageTyped, ViewMovesOn
  <2>3. QED  BY <1>1, <1>2, <2>1, <2>2, PageTyped, PageStepFits
<1>3. CASE ~Latest(glance[u])
  <2>1. view' = [view EXCEPT ![u] = view[u]]
    BY <1>3, PageTyped DEF GlanceFails
  <2>2. view[u].version <= view[u].version
    BY PageTyped
  <2>3. MovesOn
    BY <2>1, <2>2, PageTyped, ViewMovesOn
  <2>4. QED  BY <1>1, <2>1, <2>3, PageTyped, PostStands, PageStepFits
<1>4. QED  BY <1>2, <1>3

LEMMA AnsweredFits ==
  ASSUME ReviewInv, NEW u \in Reviewer, Answered(u)
  PROVE  ReviewInv' /\ MovesOn
<1>1. PICK p \in Posts : p = post[u]
  BY PageTyped DEF Answered
<1>2. /\ UNCHANGED <<pull, claim, snooze, wallLock, commits>>
      /\ post' = [post EXCEPT ![u] = NoPost]
      /\ p # NoPost /\ p.version <= commits
      /\ p.step = "saved" => view[u].version <= p.version
  BY <1>1, PostStands DEF Answered, rows
<1>3. PICK g \in {glance[u], NoGlance} : glance' = [glance EXCEPT ![u] = g]
  BY PageTyped DEF Answered
<1>4. /\ g \in Glances \cup {NoGlance}
      /\ g # NoGlance => g.version <= commits /\ ~g.fresh
  BY <1>1, <1>2, <1>3, PageTyped DEF ReviewInv, PageFits
<1>5. PICK x \in {view[u], Nothing, [version |-> p.version, fingerprint |-> p.fingerprint]} :
        /\ view' = [view EXCEPT ![u] = x]
        /\ x \in {view[u], Nothing} \/ p.step = "saved"
  BY <1>1 DEF Answered
<1>6. /\ x \in [version : 0 .. MaxCommits + 1, fingerprint : 0 .. MaxRevisions]
      /\ x.version <= commits /\ (x = Nothing \/ view[u].version <= x.version)
  <2>1. /\ p.version \in 0 .. MaxCommits + 1 /\ p.fingerprint \in 0 .. MaxRevisions
    BY ReviewAssumption DEF Posts, Revision
  <2>2. view[u].version <= view[u].version
    BY PageTyped
  <2>3. QED  BY <1>2, <1>5, <2>1, <2>2, PageTyped
<1>7. MovesOn
  BY <1>5, <1>6, ViewMovesOn
<1>8. QED  BY <1>2, <1>3, <1>4, <1>5, <1>6, <1>7, PageStepFits

LEMMA OtherListFits ==
  ASSUME ReviewInv, NEW u \in Reviewer, OtherList(u)
  PROVE  ReviewInv' /\ MovesOn
<1>1. /\ UNCHANGED <<pull, claim, snooze, wallLock, commits>>
      /\ view' = [view EXCEPT ![u] = Nothing]
      /\ glance' = [glance EXCEPT ![u] = NoGlance]
  BY DEF OtherList, rows
<1>2. MovesOn
  BY <1>1, PageTyped, ViewMovesOn
<1>3. CASE post[u] = NoPost
  <2>1. post' = [post EXCEPT ![u] = NoPost]
    BY <1>3 DEF OtherList
  <2>2. QED  BY <1>1, <1>2, <2>1, PageTyped, PageStepFits
<1>4. CASE post[u] # NoPost
  <2>1. PICK p \in Posts : p = post[u]
    BY <1>4, PageTyped
  <2> DEFINE y == [p EXCEPT !.fresh = FALSE]
  <2>2. /\ y \in Posts /\ y.version = p.version /\ y.step = p.step
        /\ y.fingerprint = p.fingerprint
    BY DEF Posts
  <2>3. post' = [post EXCEPT ![u] = y]
    BY <1>4, <2>1 DEF OtherList
  <2>4. y.version <= commits /\ AtStep(u, y.step) /\ Nothing.version <= y.version
    BY <1>4, <2>1, <2>2, PostStands DEF Posts, Nothing
  <2> HIDE DEF y
  <2>5. QED  BY <1>1, <1>2, <2>1, <2>2, <2>3, <2>4, PageTyped, PageStepFits
<1>5. QED  BY <1>3, <1>4

-----------------------------------------------------------------------------
LEMMA ReviewGoesOn ==
  ASSUME ReviewInv, [ReviewNext]_reviewVars
  PROVE  ReviewInv' /\ MovesOn
<1>1. ASSUME UNCHANGED view PROVE MovesOn
  BY <1>1, PageTyped DEF MovesOn
<1>2. CASE UNCHANGED reviewVars
  <2>1. UNCHANGED <<pull, claim, snooze, wallLock, commits, post, glance, view>>
    BY <1>2 DEF reviewVars
  <2>2. QED
    BY <1>1, <2>1 DEF ReviewInv, ReviewTypeOK, LockFits, PageFits, AtStep
<1>3. CASE Ingest \/ ClaimExpires \/ \E u \in Reviewer : SnoozeExpires(u)
  BY <1>1, <1>3, WallFits DEF Ingest, ClaimExpires, SnoozeExpires
<1>4. ASSUME NEW u \in Reviewer,
             \/ CheckCurrent(u) \/ TakeLock(u) \/ RecheckLatest(u)
             \/ WriteAction(u) \/ Reread(u) \/ Breaks(u)
      PROVE  ReviewInv' /\ UNCHANGED view
  BY <1>4, CheckFits, TakeLockFits, RecheckFits, WriteFits, RereadFits, BreaksFits
     DEF CheckCurrent, TakeLock, RecheckLatest, WriteAction, Reread, Breaks, Goes
<1>5. ASSUME NEW u \in Reviewer, Glance(u) \/ ReadState(u) \/ \E a \in Action : Act(u, a)
      PROVE  ReviewInv' /\ UNCHANGED view
  BY <1>5, GlanceFits, ActFits DEF Act
<1>6. ASSUME NEW u \in Reviewer, Shows(u) \/ GlanceFails(u) \/ Answered(u) \/ OtherList(u)
      PROVE  ReviewInv' /\ MovesOn
  BY <1>6, ShowsFits, GlanceFailsFits, AnsweredFits, OtherListFits
<1>7. QED  BY <1>1, <1>2, <1>3, <1>4, <1>5, <1>6 DEF ReviewNext

\* A live claim on the pull request as it stands passes to nobody else.
LEMMA ClaimPasses ==
  ASSUME ReviewInv, [ReviewNext]_reviewVars, claim.live, claim.on = pull.revision, claim'.live
  PROVE  claim'.by = claim.by
<1>1. CASE UNCHANGED claim
  BY <1>1
<1>2. ASSUME NEW u \in Reviewer, WriteAction(u), ~Refused(u) PROVE claim'.by = claim.by
  <2>1. /\ AtStep(u, "write") /\ post[u].fingerprint = pull.revision
        /\ claim.by \in Reviewer /\ Written(u)
    BY <1>2 DEF WriteAction, ReviewInv, LockFits
  <2>2. post[u].action \in Action
    BY <2>1, PostTyped DEF ReviewInv, AtStep, Posts
  <2>3. CASE post[u].action = "claim"
    <3>1. Claimable(u) /\ claim' = [by |-> u, on |-> post[u].fingerprint, live |-> TRUE]
      BY <2>1, <2>3 DEF Written
    <3>2. claim.by \in {u, NoReviewer}
      BY <2>1, <3>1 DEF Claimable
    <3>3. QED  BY <2>1, <3>1, <3>2, ReviewAssumption
  <2>4. CASE post[u].action = "release"
    BY <2>1, <2>4 DEF Written, Unclaimed
  <2>5. CASE post[u].action \in {"snooze", "unsnooze"}
    BY <2>1, <2>5 DEF Written
  <2>6. QED  BY <2>2, <2>3, <2>4, <2>5 DEF Action
<1>3. ASSUME NEW u \in Reviewer, WriteAction(u), Refused(u) PROVE UNCHANGED claim
  BY <1>3 DEF WriteAction
<1>4. CASE ClaimExpires
  BY <1>4 DEF ClaimExpires, ReviewInv, ReviewTypeOK
<1>5. CASE Ingest
  BY <1>5 DEF Ingest
<1>6. ASSUME NEW u \in Reviewer,
             \/ SnoozeExpires(u) \/ CheckCurrent(u) \/ TakeLock(u) \/ RecheckLatest(u)
             \/ Reread(u) \/ Breaks(u)
             \/ Glance(u) \/ ReadState(u) \/ Shows(u) \/ GlanceFails(u) \/ Answered(u)
             \/ OtherList(u) \/ \E a \in Action : Act(u, a)
      PROVE  UNCHANGED claim
  BY <1>6 DEF SnoozeExpires, CheckCurrent, TakeLock, RecheckLatest, Reread, Breaks, Glance,
              ReadState, Shows, GlanceFails, Answered, OtherList, Act, Goes, rows
<1>7. CASE UNCHANGED reviewVars
  BY <1>7 DEF reviewVars
<1>8. QED  BY <1>1, <1>2, <1>3, <1>4, <1>5, <1>6, <1>7 DEF ReviewNext

\* Requests, locks and pages always fit together.
THEOREM ReviewInvariance == ReviewSpec => []ReviewInv
<1>1. ReviewInit => ReviewInv
  BY ReviewStarts
<1>2. ReviewInv /\ [ReviewNext]_reviewVars => ReviewInv'
  BY ReviewGoesOn
<1>3. QED  BY <1>1, <1>2, PTL DEF ReviewSpec

\* Nobody takes over a live claim on the pull request as it stands, and no page goes back to
\* an older state of the list.
THEOREM ReviewsAreSafe == ReviewSpec => ReviewsSafe
<1>1. ReviewInv /\ [ReviewNext]_reviewVars =>
        [(claim.live /\ claim.on = pull.revision /\ claim'.live /\ claim'.by # claim.by)
         => FALSE]_reviewVars
  BY ClaimPasses
<1>2. ReviewInv /\ [ReviewNext]_reviewVars =>
        [\A u \in Reviewer : view'[u] # Nothing => view'[u].version >= view[u].version]_reviewVars
  BY ReviewGoesOn DEF MovesOn
<1>3. ReviewSpec => []ReviewInv
  BY ReviewInvariance
<1>4. QED  BY <1>1, <1>2, <1>3, PTL DEF ReviewSpec, ReviewsSafe, ClaimsHold, PageMovesOn

-----------------------------------------------------------------------------
(* The store of activity (Activity). *)

Transactions ==
  [step : {"deliver", "lock", "read", "write"}, report : Report,
   delivery : Delivery \cup {NoDelivery}, restricted : BOOLEAN, found : Stored \cup {Absent}]

\* One transaction at a time is past the installation's lock, and what it read is still so.
HolderFits ==
  /\ orgLock = {} \/ \E t \in Writer : orgLock = {t}
  /\ \A t \in Writer :
       /\ InStep(t, "read") \/ InStep(t, "write") => orgLock = {t}
       /\ InStep(t, "write") => writer[t].found = event[writer[t].report.id]

\* What is announced is stored, and once; evidence is of merges.
EventsFit ==
  \A i \in Id :
    /\ announced[i] <= 1
    /\ announced[i] # 0 => event[i] # Absent
    /\ event[i].evidence # 0 => i \in MergedPull

ActivityInv ==
  /\ ActivityTypeOK
  /\ HolderFits
  /\ EventsFit

LEMMA TransactionTyped ==
  ASSUME ActivityTypeOK, NEW t \in Writer, writer[t] # Free
  PROVE  writer[t] \in Transactions
BY DEF ActivityTypeOK, Transactions

LEMMA ReportTyped ==
  ASSUME NEW r \in Report
  PROVE  r.id \in Id /\ r.at \in Happened /\ r.author \in BOOLEAN
<1>1. 1 \in Happened
  BY ActivityAssumption DEF Happened
<1>2. CASE r \in [id : Issue, at : Happened, author : {FALSE}]
  BY <1>2 DEF Id
<1>3. CASE r \in [id : MergedPull, at : {1}, author : {FALSE}]
  BY <1>1, <1>3 DEF Id
<1>4. CASE r \in [id : Review, at : {1}, author : BOOLEAN]
  BY <1>1, <1>4 DEF Id
<1>5. QED  BY <1>2, <1>3, <1>4 DEF Report

LEMMA ActivityStarts == ActivityInit => ActivityInv
<1>1. SUFFICES ASSUME ActivityInit PROVE ActivityInv
  OBVIOUS
<1> USE ActivityAssumption
<1>2. ActivityTypeOK
  <2>1. told \in [Delivery -> Report]
    BY <1>1 DEF ActivityInit
  <2>2. Cardinality({}) <= 1
    BY FS_EmptySet
  <2>3. QED  BY <1>1, <2>1, <2>2 DEF ActivityInit, ActivityTypeOK
<1>3. HolderFits
  BY <1>1 DEF ActivityInit, HolderFits, InStep
<1>4. EventsFit
  BY <1>1 DEF ActivityInit, EventsFit, Absent
<1>5. QED  BY <1>2, <1>3, <1>4 DEF ActivityInv

\* A transaction t that moves on to y, taking or leaving the lock, and stores nothing.
LEMMA WriterFits ==
  ASSUME ActivityInv, NEW t \in Writer, NEW y \in Transactions \cup {Free},
         writer' = [writer EXCEPT ![t] = y],
         UNCHANGED <<told, accepted, event, signals, announced>>,
         \/ orgLock' = orgLock
         \/ orgLock = {} /\ orgLock' = {t}
         \/ orgLock' = orgLock \ {t},
         y # Free => /\ y.step \in {"read", "write"} => orgLock' = {t}
                     /\ y.step = "write" => y.found = event[y.report.id]
  PROVE  ActivityInv'
<1>1. writer'[t] = y /\ \A u \in Writer \ {t} : writer'[u] = writer[u]
  BY DEF ActivityInv, ActivityTypeOK
<1>2. orgLock' = {} \/ \E u \in Writer : orgLock' = {u}
  BY DEF ActivityInv, HolderFits
<1>3. ActivityTypeOK'
  <2>1. Cardinality({}) <= 1 /\ \A u \in Writer : Cardinality({u}) <= 1
    BY FS_EmptySet, FS_Singleton
  <2>2. orgLock' \subseteq Writer /\ Cardinality(orgLock') <= 1
    BY <1>2, <2>1
  <2>3. writer' \in [Writer -> Transactions \cup {Free}]
    BY DEF ActivityInv, ActivityTypeOK, Transactions
  <2>4. QED  BY <2>2, <2>3 DEF ActivityInv, ActivityTypeOK, Transactions
<1>4. HolderFits'
  <2>1. ASSUME NEW u \in Writer
        PROVE  /\ InStep(u, "read")' \/ InStep(u, "write")' => orgLock' = {u}
               /\ InStep(u, "write")' => writer'[u].found = event'[writer'[u].report.id]
    <3>1. CASE u = t
      BY <1>1, <3>1 DEF InStep
    <3>2. CASE u # t
      BY <1>1, <3>2 DEF ActivityInv, HolderFits, InStep
    <3>3. QED  BY <3>1, <3>2
  <2>2. QED  BY <1>2, <2>1 DEF HolderFits
<1>5. EventsFit'
  BY DEF ActivityInv, EventsFit
<1>6. QED  BY <1>3, <1>4, <1>5 DEF ActivityInv

LEMMA BeginFits ==
  ASSUME ActivityInv, NEW t \in Writer, NEW rep \in Report,
         NEW d \in Delivery \cup {NoDelivery}, NEW restricted \in BOOLEAN,
         Begin(t, rep, d, restricted), UNCHANGED <<told, accepted, event, signals, orgLock, announced>>
  PROVE  ActivityInv'
<1> DEFINE y == [step |-> IF d = NoDelivery THEN "lock" ELSE "deliver", report |-> rep,
                 delivery |-> d, restricted |-> restricted, found |-> Absent]
<1>1. y \in Transactions /\ y.step \notin {"read", "write"}
  BY DEF Transactions
<1>2. writer' = [writer EXCEPT ![t] = y]
  BY DEF Begin
<1> HIDE DEF y
<1>3. QED  BY <1>1, <1>2, WriterFits

LEMMA MergeFits ==
  ASSUME ActivityInv, NEW t \in Writer,
         AcceptDelivery(t) \/ LockOrganization(t) \/ ReadExisting(t) \/ Rollback(t)
  PROVE  ActivityInv'
<1>1. PICK p \in Transactions : p = writer[t] /\ p # Free
  BY TransactionTyped DEF ActivityInv, AcceptDelivery, LockOrganization, ReadExisting, Rollback, InStep
<1>2. UNCHANGED <<told, accepted, event, signals, announced>>
  BY DEF AcceptDelivery, LockOrganization, ReadExisting, Rollback
<1>3. CASE AcceptDelivery(t) /\ p.delivery \in accepted
  BY <1>1, <1>2, <1>3, WriterFits DEF AcceptDelivery
<1>4. CASE AcceptDelivery(t) /\ p.delivery \notin accepted
  <2> DEFINE y == [p EXCEPT !.step = "lock"]
  <2>1. y \in Transactions /\ y.step = "lock" /\ writer' = [writer EXCEPT ![t] = y]
    BY <1>1, <1>4 DEF AcceptDelivery, Moves, Transactions
  <2> HIDE DEF y
  <2>2. QED  BY <1>2, <1>4, <2>1, WriterFits DEF AcceptDelivery
<1>5. CASE LockOrganization(t)
  <2> DEFINE y == [p EXCEPT !.step = "read"]
  <2>1. y \in Transactions /\ y.step = "read" /\ writer' = [writer EXCEPT ![t] = y]
    BY <1>1, <1>5 DEF LockOrganization, Moves, Transactions
  <2> HIDE DEF y
  <2>2. QED  BY <1>2, <1>5, <2>1, WriterFits DEF LockOrganization, HolderAfter
<1>6. CASE ReadExisting(t)
  <2>1. p.report.id \in Id /\ event[p.report.id] \in Stored \cup {Absent}
    BY <1>1, ReportTyped DEF Transactions, ActivityInv, ActivityTypeOK
  <2> DEFINE y == [p EXCEPT !.step = "write", !.found = event[p.report.id]]
  <2>2. /\ y \in Transactions /\ y.step = "write" /\ y.found = event[y.report.id]
        /\ writer' = [writer EXCEPT ![t] = y]
    BY <1>1, <1>6, <2>1 DEF ReadExisting, Transactions, ActivityInv, ActivityTypeOK
  <2>3. orgLock' = {t} /\ orgLock' = orgLock
    BY <1>6 DEF ReadExisting, ActivityInv, HolderFits
  <2> HIDE DEF y
  <2>4. QED  BY <1>2, <2>2, <2>3, WriterFits
<1>7. CASE Rollback(t)
  BY <1>2, <1>7, WriterFits DEF Rollback
<1>8. QED  BY <1>3, <1>4, <1>5, <1>6, <1>7, <1>1

-----------------------------------------------------------------------------
(* What is chosen between what is stored and what is told. *)

\* What a later report of the same change may not take back.
Keeps(i, old, new) ==
  /\ new.restricted \/ ~old.restricted
  /\ old.evidence # 0 => new.evidence = old.evidence
  /\ i \in Review => new.author \/ ~old.author
  /\ i \in Issue => new.at <= old.at

LEMMA SelectedKeeps ==
  ASSUME NEW r \in Report, NEW old \in Stored \cup {Absent}, NEW prefer \in BOOLEAN,
         old.evidence # 0 => r.id \in MergedPull
  PROVE  /\ Selected(old, r, prefer) \in Stored
         /\ Selected(old, r, prefer).evidence = old.evidence
         /\ old # Absent /\ r.id \in Review => Selected(old, r, prefer).author \/ ~old.author
         /\ old # Absent /\ r.id \in Issue => Selected(old, r, prefer).at <= old.at
<1> USE ActivityAssumption
<1>1. /\ Incoming(r) \in Stored /\ Incoming(r).evidence = 0
      /\ Incoming(r).at = r.at /\ Incoming(r).author = r.author
  BY ReportTyped DEF Incoming, Stored
<1>2. CASE old = Absent
  BY <1>1, <1>2 DEF Selected, Absent
<1>3. CASE old # Absent /\ r.id \in Issue
  <2>1. /\ old \in Stored /\ old.at \in Int /\ r.at \in Int /\ old.evidence = 0
        /\ r.id \notin Review
    BY <1>3, ReportTyped DEF Stored, Happened
  <2>2. Selected(old, r, prefer) = IF old.at <= r.at THEN old ELSE Incoming(r)
    BY <1>3 DEF Selected
  <2>3. QED  BY <1>1, <1>3, <2>1, <2>2
<1>4. CASE old # Absent /\ r.id \notin Issue /\ prefer
  <2>1. Selected(old, r, prefer) = old
    BY <1>4 DEF Selected
  <2>2. QED  BY <1>4, <2>1 DEF Stored
<1>5. CASE old # Absent /\ r.id \notin Issue /\ ~prefer
  <2> DEFINE new == [Incoming(r) EXCEPT !.evidence = old.evidence, !.author = r.author \/ old.author]
  <2>1. Selected(old, r, prefer) = new
    BY <1>5 DEF Selected
  <2>2. old \in Stored /\ old.evidence \in 0 .. MaxSignals + 1 /\ old.author \in BOOLEAN /\ r.author \in BOOLEAN
    BY <1>5, ReportTyped DEF Stored
  <2>3. new \in Stored /\ new.evidence = old.evidence
    BY <1>1, <2>2 DEF Stored
  <2>4. new.author = (r.author \/ old.author)
    BY <1>1 DEF Stored
  <2> HIDE DEF new
  <2>5. QED  BY <1>5, <2>1, <2>3, <2>4
<1>6. QED  BY <1>2, <1>3, <1>4, <1>5

\* Only a merge that was not stored before is given evidence.
LEMMA CapturedKeeps ==
  ASSUME ActivityInv, NEW t \in Writer, NEW x \in Stored, x.evidence = 0 \/ writer[t].found # Absent
  PROVE  /\ Captured(t, x) \in Stored
         /\ Captured(t, x).author = x.author /\ Captured(t, x).at = x.at
         /\ writer[t].found # Absent => Captured(t, x).evidence = x.evidence
         /\ writer[t].found = Absent /\ Captured(t, x).evidence # 0 => writer[t].report.id \in MergedPull
<1>1. signals + 1 \in 0 .. MaxSignals + 1
  BY ActivityAssumption DEF ActivityInv, ActivityTypeOK
<1>2. [x EXCEPT !.evidence = signals + 1] \in Stored
  BY <1>1 DEF Stored
<1>3. CASE /\ writer[t].delivery # NoDelivery /\ writer[t].report.id \in MergedPull
           /\ writer[t].found = Absent
  <2>1. Captured(t, x) = [x EXCEPT !.evidence = signals + 1]
    BY <1>3 DEF Captured
  <2>2. QED  BY <1>2, <1>3, <2>1 DEF Stored
<1>4. CASE ~(/\ writer[t].delivery # NoDelivery /\ writer[t].report.id \in MergedPull
             /\ writer[t].found = Absent)
  <2>1. Captured(t, x) = x
    BY <1>4 DEF Captured
  <2>2. QED  BY <2>1
<1>5. QED  BY <1>3, <1>4

LEMMA StoreEventFits ==
  ASSUME ActivityInv, NEW t \in Writer, Write(t)
  PROVE  ActivityInv' /\ \A i \in Id : event[i] # Absent => Keeps(i, event[i], event'[i])
<1> USE ActivityAssumption
<1>1. PICK p \in Transactions : p = writer[t] /\ p # Free
  BY TransactionTyped DEF ActivityInv, Write, InStep
<1> DEFINE id  == p.report.id
           x   == Captured(t, Selected(p.found, p.report, p.delivery = NoDelivery))
           new == [x EXCEPT !.restricted = p.restricted \/ event[id].restricted]
<1>2. /\ p.report \in Report /\ id \in Id /\ p.found = event[id] /\ orgLock = {t}
      /\ p.found \in Stored \cup {Absent} /\ p.restricted \in BOOLEAN
      /\ p.delivery \in Delivery \cup {NoDelivery}
  BY <1>1, ReportTyped DEF Transactions, Write, ActivityInv, HolderFits
<1>3. /\ event' = [event EXCEPT ![id] = new]
      /\ announced' = [announced EXCEPT ![id] =
           IF p.delivery # NoDelivery /\ p.found = Absent THEN announced[id] + 1 ELSE announced[id]]
      /\ accepted' = accepted \cup ({p.delivery} \ {NoDelivery})
      /\ orgLock' = {} /\ writer' = [writer EXCEPT ![t] = Free]
      /\ UNCHANGED <<told, signals>>
  BY <1>1, <1>2 DEF Write
<1> DEFINE s == Selected(p.found, p.report, p.delivery = NoDelivery)
<1>4. /\ s \in Stored /\ s.evidence = p.found.evidence
      /\ p.found # Absent /\ id \in Review => s.author \/ ~p.found.author
      /\ p.found # Absent /\ id \in Issue => s.at <= p.found.at
  <2>1. p.found.evidence # 0 => id \in MergedPull
    BY <1>2 DEF ActivityInv, EventsFit
  <2>2. (p.delivery = NoDelivery) \in BOOLEAN
    OBVIOUS
  <2>3. QED  BY <1>2, <2>1, <2>2, SelectedKeeps
<1>5. s.evidence = 0 \/ writer[t].found # Absent
  BY <1>1, <1>4 DEF Absent
<1>6. /\ x \in Stored /\ x.author = s.author /\ x.at = s.at
      /\ p.found # Absent => x.evidence = p.found.evidence
      /\ p.found = Absent /\ x.evidence # 0 => id \in MergedPull
  <2>1. s \in Stored
    BY <1>4
  <2> HIDE DEF s
  <2>2. /\ Captured(t, s) \in Stored /\ Captured(t, s).author = s.author /\ Captured(t, s).at = s.at
        /\ p.found # Absent => Captured(t, s).evidence = s.evidence
        /\ p.found = Absent /\ Captured(t, s).evidence # 0 => id \in MergedPull
    BY <1>1, <1>5, <2>1, CapturedKeeps
  <2>3. x = Captured(t, s)
    BY DEF s
  <2> HIDE DEF x
  <2>4. QED  BY <1>4, <2>2, <2>3
<1> HIDE DEF x, s
<1>7. event[id].restricted \in BOOLEAN
  <2>1. CASE event[id] \in Stored
    BY <2>1 DEF Stored
  <2>2. CASE event[id] = Absent
    BY <2>2 DEF Absent
  <2>3. QED  BY <1>2, <2>1, <2>2
<1>8. /\ new \in Stored /\ new.author = x.author /\ new.at = x.at /\ new.evidence = x.evidence
      /\ new.restricted = (p.restricted \/ event[id].restricted)
  BY <1>2, <1>6, <1>7 DEF Stored
<1> HIDE DEF new
<1>9. /\ event'[id] = new /\ event'[id] # Absent
      /\ \A i \in Id \ {id} : event'[i] = event[i]
  BY <1>2, <1>3, <1>8 DEF ActivityInv, ActivityTypeOK, Stored, Absent, Happened
<1>10. \A i \in Id : event[i] # Absent => Keeps(i, event[i], event'[i])
  <2>1. SUFFICES ASSUME NEW i \in Id, event[i] # Absent PROVE Keeps(i, event[i], event'[i])
    OBVIOUS
  <2>2. CASE i = id
    BY <1>2, <1>4, <1>6, <1>8, <1>9, <2>1, <2>2 DEF Keeps
  <2>3. CASE i # id
    <3>1. event[i] \in Stored /\ event'[i] = event[i]
      BY <1>9, <2>1, <2>3 DEF ActivityInv, ActivityTypeOK
    <3>2. event[i].restricted \in BOOLEAN /\ event[i].author \in BOOLEAN /\ event[i].at \in Int
      BY <3>1 DEF Stored, Happened
    <3>3. QED  BY <3>1, <3>2 DEF Keeps
  <2>4. QED  BY <2>2, <2>3
<1>11. ActivityTypeOK'
  <2>1. event' \in [Id -> Stored \cup {Absent}]
    BY <1>3, <1>8 DEF ActivityInv, ActivityTypeOK
  <2>2. announced' \in [Id -> Nat]
    BY <1>2, <1>3 DEF ActivityInv, ActivityTypeOK
  <2>3. orgLock' \subseteq Writer /\ Cardinality(orgLock') <= 1
    BY <1>3, FS_EmptySet
  <2>4. accepted' \in SUBSET Delivery
    BY <1>2, <1>3 DEF ActivityInv, ActivityTypeOK
  <2>5. QED  BY <1>3, <2>1, <2>2, <2>3, <2>4 DEF ActivityInv, ActivityTypeOK
<1>12. HolderFits'
  <2>1. ASSUME NEW u \in Writer PROVE ~InStep(u, "read")' /\ ~InStep(u, "write")'
    BY <1>2, <1>3 DEF ActivityInv, ActivityTypeOK, HolderFits, InStep
  <2>2. QED  BY <1>3, <2>1 DEF HolderFits
<1>13. EventsFit'
  <2>1. SUFFICES ASSUME NEW i \in Id
                 PROVE  /\ announced'[i] <= 1
                        /\ announced'[i] # 0 => event'[i] # Absent
                        /\ event'[i].evidence # 0 => i \in MergedPull
    BY DEF EventsFit
  <2>2. /\ announced[i] \in Nat /\ announced[i] <= 1
        /\ announced[i] # 0 => event[i] # Absent
        /\ event[i].evidence # 0 => i \in MergedPull
    BY DEF ActivityInv, ActivityTypeOK, EventsFit
  <2>3. CASE i = id
    <3>1. announced'[i] \in {announced[i]} \cup (IF p.found = Absent THEN {announced[i] + 1} ELSE {})
      BY <1>2, <1>3, <2>3 DEF ActivityInv, ActivityTypeOK
    <3>2. p.found = Absent => announced[i] = 0
      BY <1>2, <2>2, <2>3
    <3>3. event'[i].evidence # 0 => i \in MergedPull
      BY <1>2, <1>6, <1>8, <1>9, <2>2, <2>3
    <3>4. QED  BY <1>9, <2>2, <2>3, <3>1, <3>2, <3>3
  <2>4. CASE i # id
    <3>1. announced'[i] = announced[i]
      BY <1>2, <1>3, <2>4 DEF ActivityInv, ActivityTypeOK
    <3>2. QED  BY <1>9, <2>2, <2>4, <3>1
  <2>5. QED  BY <2>3, <2>4
<1>14. QED  BY <1>10, <1>11, <1>12, <1>13 DEF ActivityInv

-----------------------------------------------------------------------------
LEMMA ActivityGoesOn ==
  ASSUME ActivityInv, [ActivityNext]_activityVars
  PROVE  ActivityInv' /\ \A i \in Id : event[i] # Absent => Keeps(i, event[i], event'[i])
<1>1. ASSUME UNCHANGED event PROVE \A i \in Id : event[i] # Absent => Keeps(i, event[i], event'[i])
  <2>1. SUFFICES ASSUME NEW i \in Id, event[i] # Absent PROVE Keeps(i, event[i], event'[i])
    OBVIOUS
  <2>2. event[i].restricted \in BOOLEAN /\ event[i].author \in BOOLEAN /\ event[i].at \in Int
    BY <2>1 DEF ActivityInv, ActivityTypeOK, Stored, Happened
  <2>3. QED  BY <1>1, <2>2 DEF Keeps
<1>2. CASE UNCHANGED activityVars
  <2>1. UNCHANGED <<told, accepted, event, signals, orgLock, writer, announced>>
    BY <1>2 DEF activityVars
  <2>2. QED
    BY <1>1, <2>1 DEF ActivityInv, ActivityTypeOK, HolderFits, EventsFit, InStep
<1>3. CASE WallStores
  <2>1. /\ signals' \in 0 .. MaxSignals
        /\ UNCHANGED <<told, accepted, event, orgLock, writer, announced>>
    BY <1>3, ActivityAssumption DEF WallStores, ActivityInv, ActivityTypeOK
  <2>2. QED
    BY <1>1, <2>1 DEF ActivityInv, ActivityTypeOK, HolderFits, EventsFit, InStep
<1>4. ASSUME NEW t \in Writer, NEW d \in Delivery, Webhook(t, d)
      PROVE  ActivityInv' /\ UNCHANGED event
  <2>1. told[d] \in Report
    BY DEF ActivityInv, ActivityTypeOK
  <2>2. QED  BY <1>4, <2>1, BeginFits DEF Webhook
<1>5. ASSUME NEW t \in Writer, NEW r \in Report, NEW b \in BOOLEAN, Imported(t, r, b)
      PROVE  ActivityInv' /\ UNCHANGED event
  BY <1>5, BeginFits DEF Imported
<1>6. ASSUME NEW t \in Writer,
             AcceptDelivery(t) \/ LockOrganization(t) \/ ReadExisting(t) \/ Rollback(t)
      PROVE  ActivityInv' /\ UNCHANGED event
  BY <1>6, MergeFits DEF AcceptDelivery, LockOrganization, ReadExisting, Rollback
<1>7. ASSUME NEW t \in Writer, Write(t)
      PROVE  ActivityInv' /\ \A i \in Id : event[i] # Absent => Keeps(i, event[i], event'[i])
  BY <1>7, StoreEventFits
<1>8. QED  BY <1>1, <1>2, <1>3, <1>4, <1>5, <1>6, <1>7 DEF ActivityNext

\* Transactions, the lock and what is stored and announced always fit together.
THEOREM ActivityInvariance == ActivitySpec => []ActivityInv
<1>1. ActivityInit => ActivityInv
  BY ActivityStarts
<1>2. ActivityInv /\ [ActivityNext]_activityVars => ActivityInv'
  BY ActivityGoesOn
<1>3. QED  BY <1>1, <1>2, PTL DEF ActivitySpec

\* A change that comes several ways at once is announced once, and no later report of it
\* takes back its evidence, its author, its first closing or its restriction.
THEOREM ActivityIsSafe == ActivitySpec => ActivitySafe
<1>1. ActivityInv => AnnouncedOnce
  BY DEF ActivityInv, EventsFit, AnnouncedOnce
<1>2. ActivityInv /\ [ActivityNext]_activityVars =>
        [\A i \in Id : event[i] # Absent =>
           /\ event'[i].restricted \/ ~event[i].restricted
           /\ event[i].evidence # 0 => event'[i].evidence = event[i].evidence
           /\ i \in Review => event'[i].author \/ ~event[i].author
           /\ i \in Issue => event'[i].at <= event[i].at]_activityVars
  BY ActivityGoesOn DEF Keeps
<1>3. ActivitySpec => []ActivityInv
  BY ActivityInvariance
<1>4. QED  BY <1>1, <1>2, <1>3, PTL DEF ActivitySpec, ActivitySafe, CreditStands

-----------------------------------------------------------------------------
(* The ids of changes (Activity). *)

\* The id is the change's own, but for an opening that was told without its time.
OwnId(c, id, whole, at) ==
  CASE c.of = "pull" /\ c.is = "merged" -> id = [of |-> "pull", is |-> "merged", at |-> 0]
    [] c.of = "pull" /\ c.is # "merged" ->
         id = [of |-> "pull", is |-> "opened", at |-> id.at] /\ at # 0 /\ (whole => id.at = at)
    [] c.of = "push" -> id = [of |-> "push", is |-> c.is, at |-> 0]
    [] OTHER -> id = [of |-> c.of, is |-> "once", at |-> 0]

IdsFit ==
  /\ \A e \in recorded : /\ e.of \in Counted /\ e.whole \in BOOLEAN
                         /\ e.id.at \in 0 .. MaxMoment /\ OwnId(e.of, e.id, e.whole, opened)
  /\ change \in {c \in Changes : c.of \in {"pull", "review"} => opened # 0} \cup {NoChange}

EventIdsInv ==
  /\ moment \in 1 .. MaxMoment /\ opened \in 0 .. MaxMoment
  /\ IdsFit

Words == {"opened", "closed", "merged", "reopened", "created", "submitted", "edited", "dismissed",
          "published", ""}
Tales(c) ==
  [kind : {c.of}, action : Words, flag : BOOLEAN, source : Source,
   head : {IF c.of = "push" THEN c.is ELSE "none"},
   created : {IF c.of = "pull" THEN opened ELSE moment}, whole : {TRUE}]

\* What a payload says of a change.
LEMMA TellingOfChange ==
  ASSUME NEW c \in Changes, NEW source \in Source, source = "import" => c \in ByImport,
         NEW q \in Tellings(c, source)
  PROVE  /\ q \in Tales(c)
         /\ c.of = "pull" => /\ q.action \in {"opened", "closed", "merged", "reopened"}
                             /\ q.action = "opened" <=> c.is = "opened"
                             /\ q.action = "merged" => c.is = "merged"
                             /\ q.action = "closed" /\ q.flag => c.is = "merged"
                             /\ c.is = "merged" => q.action = "merged" \/ (q.action = "closed" /\ q.flag)
         /\ c.of = "issue" => (q.action = "closed" /\ q.flag => c.is = "completed")
         /\ c.of = "review" => (q.action \in {"created", "submitted"} /\ q.flag => c.is = "submitted")
         /\ c.of = "push" => (q.flag => c.is # "deleted")
         /\ c.of = "release" => (q.flag => c.is = "published")
<1>0. /\ (c.is = "completed") \in BOOLEAN /\ (c.is # "dismissed") \in BOOLEAN
      /\ (c.is # "deleted") \in BOOLEAN /\ (c.is = "published") \in BOOLEAN
  OBVIOUS
<1>1. CASE c.of = "pull"
  <2>1. c.is \in {"opened", "closed", "merged", "reopened"}
    BY <1>1 DEF Changes
  <2>2. CASE c.is = "merged"
    <3>1. q = Tell(c, source, "closed", TRUE) \/ q = Tell(c, source, "merged", FALSE)
      BY <1>1, <2>2 DEF Tellings
    <3>2. CASE q = Tell(c, source, "closed", TRUE)
      BY <1>1, <2>2, <3>2 DEF Tell, Tales, Words
    <3>3. CASE q = Tell(c, source, "merged", FALSE)
      BY <1>1, <2>2, <3>3 DEF Tell, Tales, Words
    <3>4. QED  BY <3>1, <3>2, <3>3
  <2>3. CASE c.is # "merged"
    <3>1. q = Tell(c, source, c.is, FALSE)
      BY <1>1, <2>3 DEF Tellings
    <3>2. QED  BY <1>1, <2>1, <2>3, <3>1 DEF Tell, Tales, Words
  <2>4. QED  BY <2>2, <2>3
<1>2. CASE c.of = "issue"
  <2>1. c.is \in {"completed", "not planned", "reopened"}
    BY <1>2 DEF Changes
  <2>2. CASE c.is # "reopened"
    <3>1. q = Tell(c, source, "closed", c.is = "completed")
      BY <1>2, <2>2 DEF Tellings
    <3>2. QED  BY <1>0, <1>2, <2>2, <3>1 DEF Tell, Tales, Words
  <2>3. CASE c.is = "reopened"
    <3>1. q = Tell(c, source, c.is, FALSE)
      BY <1>2, <2>3 DEF Tellings
    <3>2. QED  BY <1>2, <2>3, <3>1 DEF Tell, Tales, Words
  <2>4. QED  BY <2>2, <2>3
<1>3. CASE c.of = "review"
  <2>1. c.is \in {"submitted", "edited", "dismissed"} /\ (c.is = "edited" => source # "import")
    BY <1>3 DEF Changes, ByImport, Counted
  <2>2. CASE c.is = "submitted" \/ source = "import"
    <3>1. q = Tell(c, source, IF source = "rest" THEN "created" ELSE "submitted", c.is # "dismissed")
      BY <1>3, <2>2 DEF Tellings
    <3>2. QED  BY <1>0, <1>3, <2>1, <2>2, <3>1 DEF Tell, Tales, Words
  <2>3. CASE ~(c.is = "submitted" \/ source = "import")
    <3>1. q = Tell(c, source, c.is, FALSE)
      BY <1>3, <2>3 DEF Tellings
    <3>2. QED  BY <1>3, <2>1, <2>3, <3>1 DEF Tell, Tales, Words
  <2>4. QED  BY <2>2, <2>3
<1>4. CASE c.of = "push"
  <2>1. q = Tell(c, source, "", c.is # "deleted")
    BY <1>4 DEF Tellings
  <2>2. QED  BY <1>0, <1>4, <2>1 DEF Tell, Tales, Words
<1>5. CASE c.of = "release"
  <2>1. q = Tell(c, source, "published", c.is = "published")
    BY <1>5 DEF Tellings
  <2>2. QED  BY <1>0, <1>5, <2>1 DEF Tell, Tales, Words
<1>6. QED  BY <1>1, <1>2, <1>3, <1>4, <1>5 DEF Changes

\* What a payload says of a change that is made an event of.
LEMMA PayloadOfChange ==
  ASSUME NEW c \in Changes, NEW source \in Source, source = "import" => c \in ByImport,
         NEW q \in Payloads(c, source), NEW p, p = InWebhookWords(q), Makes(p)
  PROVE  /\ c \in Counted
         /\ p.kind = c.of /\ p.whole \in BOOLEAN
         /\ c.of = "pull" => /\ IsMerge(p) <=> c.is = "merged"
                             /\ p.created = IF p.whole THEN opened ELSE 0
         /\ p.created \in {0, opened, moment}
         /\ c.of = "push" => p.head = c.is
<1>1. PICK t \in Tellings(c, source) : q = t \/ q = Trimmed(t)
  BY DEF Payloads
<1>2. t \in Tales(c)
  BY TellingOfChange
<1>3. /\ p.kind = c.of /\ p.head = t.head
      /\ p.action = t.action \/ (t.kind = "review" /\ t.action = "created" /\ p.action = "submitted")
      /\ \/ p.created = t.created /\ p.whole = TRUE
         \/ p.created = 0 /\ p.whole = FALSE
      /\ p.flag => t.flag
  <2> DEFINE flagged == t.flag /\ t.kind # "pull"
  <2>1. flagged \in BOOLEAN /\ (flagged => t.flag)
    OBVIOUS
  <2>2. q = t \/ q = [t EXCEPT !.created = 0, !.whole = FALSE, !.flag = flagged]
    BY <1>1 DEF Trimmed
  <2> HIDE DEF flagged
  <2>3. /\ q.kind = t.kind /\ q.head = t.head /\ q.action = t.action
        /\ \/ q.created = t.created /\ q.whole = TRUE /\ q.flag = t.flag
           \/ q.created = 0 /\ q.whole = FALSE /\ q.flag = flagged
        /\ DOMAIN q = DOMAIN t
    BY <1>2, <2>1, <2>2 DEF Tales
  <2>4. p = q \/ (q.kind = "review" /\ q.action = "created" /\ p = [q EXCEPT !.action = "submitted"])
    BY DEF InWebhookWords
  <2>5. /\ p.kind = q.kind /\ p.head = q.head /\ p.created = q.created /\ p.whole = q.whole /\ p.flag = q.flag
        /\ p.action = q.action \/ (q.kind = "review" /\ q.action = "created" /\ p.action = "submitted")
    BY <1>2, <2>3, <2>4 DEF Tales
  <2>6. p.flag => t.flag
    BY <2>1, <2>3, <2>5
  <2>7. p.kind = t.kind /\ t.kind = c.of /\ p.head = t.head
    BY <1>2, <2>3, <2>5 DEF Tales
  <2>8. \/ p.created = t.created /\ p.whole = TRUE
        \/ p.created = 0 /\ p.whole = FALSE
    BY <2>3, <2>5
  <2>9. p.action = t.action \/ (t.kind = "review" /\ t.action = "created" /\ p.action = "submitted")
    BY <2>3, <2>5
  <2>10. QED  BY <2>6, <2>7, <2>8, <2>9
<1>4. t.flag \in BOOLEAN /\ t.kind = c.of /\ t.head = IF c.of = "push" THEN c.is ELSE "none"
  BY <1>2 DEF Tales
<1>5. t.created = IF c.of = "pull" THEN opened ELSE moment
  BY <1>2 DEF Tales
<1>6. p.flag => t.flag
  BY <1>3
<1>7. /\ p.whole \in BOOLEAN /\ p.created \in {0, opened, moment}
      /\ c.of = "pull" => p.created = IF p.whole THEN opened ELSE 0
      /\ c.of = "push" => p.head = c.is
  BY <1>3, <1>4, <1>5
<1>8. c \in Counted /\ (c.of = "pull" => (IsMerge(p) <=> c.is = "merged"))
  <2>1. CASE c.of = "pull"
    <3>1. /\ p.action = t.action
          /\ t.action \in {"opened", "closed", "merged", "reopened"}
          /\ t.action = "opened" <=> c.is = "opened"
          /\ t.action = "merged" => c.is = "merged"
          /\ t.action = "closed" /\ t.flag => c.is = "merged"
      BY <1>3, <1>4, <2>1, TellingOfChange
    <3>2. IsMerge(p) \/ p.action = "opened"
      BY <1>3, <2>1 DEF Makes
    <3>3. c.is \in {"opened", "merged"}
      BY <1>6, <3>1, <3>2 DEF IsMerge
    <3>4. IsMerge(p) <=> c.is = "merged"
      BY <1>3, <1>6, <2>1, <3>1, <3>2, <3>3 DEF IsMerge
    <3>5. QED  BY <3>3, <3>4 DEF Counted
  <2>2. CASE c.of = "issue"
    BY <1>3, <1>4, <1>6, <2>2, TellingOfChange DEF Makes, Counted
  <2>3. CASE c.of = "review"
    BY <1>3, <1>4, <1>6, <2>3, TellingOfChange DEF Makes, Counted
  <2>4. CASE c.of = "push"
    BY <1>3, <1>4, <1>6, <2>4, TellingOfChange DEF Makes, Counted
  <2>5. CASE c.of = "release"
    BY <1>3, <1>4, <1>6, <2>5, TellingOfChange DEF Makes, Counted
  <2>6. QED  BY <2>1, <2>2, <2>3, <2>4, <2>5 DEF Changes
<1>9. QED  BY <1>3, <1>7, <1>8

\* No change is told but of a pull request that was opened.
LEMMA IdFits ==
  ASSUME EventIdsInv, NEW c \in Changes, NEW source \in Source, source = "import" => c \in ByImport,
         c.of \in {"pull", "review"} => opened # 0,
         NEW q \in Payloads(c, source), NEW p, p = InWebhookWords(q), Makes(p)
  PROVE  /\ c \in Counted /\ p.whole \in BOOLEAN
         /\ IdOf(p, moment).at \in 0 .. MaxMoment
         /\ OwnId(c, IdOf(p, moment), p.whole, opened)
<1> USE EventIdsAssumption
<1>1. /\ c \in Counted
      /\ p.kind = c.of /\ p.whole \in BOOLEAN
      /\ c.of = "pull" => /\ IsMerge(p) <=> c.is = "merged"
                          /\ p.created = IF p.whole THEN opened ELSE 0
      /\ p.created \in {0, opened, moment}
      /\ c.of = "push" => p.head = c.is
  BY PayloadOfChange
<1>2. c.of # "pull" => ~IsMerge(p)
  BY <1>1 DEF IsMerge
<1>3. TimeOf(p, moment) \in 1 .. MaxMoment /\ (p.created # 0 => TimeOf(p, moment) = p.created)
  BY <1>1 DEF TimeOf, EventIdsInv
<1>4. CASE c.of = "pull" /\ c.is = "merged"
  <2>1. IdOf(p, moment) = [of |-> "pull", is |-> "merged", at |-> 0]
    BY <1>1, <1>4 DEF IdOf
  <2>2. QED  BY <1>1, <1>4, <2>1 DEF OwnId, EventIdsInv
<1>5. CASE c.of = "pull" /\ c.is # "merged"
  <2>1. IdOf(p, moment) = [of |-> "pull", is |-> "opened", at |-> TimeOf(p, moment)]
    BY <1>1, <1>5 DEF IdOf
  <2>2. p.whole => TimeOf(p, moment) = opened
    BY <1>1, <1>3, <1>5
  <2>3. opened # 0
    BY <1>5
  <2>4. QED  BY <1>1, <1>3, <1>5, <2>1, <2>2, <2>3 DEF OwnId
<1>6. CASE c.of = "push"
  <2>1. IdOf(p, moment) = [of |-> "push", is |-> c.is, at |-> 0]
    BY <1>1, <1>2, <1>6 DEF IdOf
  <2>2. QED  BY <1>1, <1>6, <2>1 DEF OwnId, EventIdsInv
<1>7. CASE c.of \notin {"pull", "push"}
  <2>1. IdOf(p, moment) = [of |-> c.of, is |-> "once", at |-> 0]
    BY <1>1, <1>2, <1>7 DEF IdOf
  <2>2. QED  BY <1>1, <1>7, <2>1 DEF OwnId, EventIdsInv
<1>8. QED  BY <1>4, <1>5, <1>6, <1>7

LEMMA IdsStart == EventIdsInit => EventIdsInv
BY EventIdsAssumption DEF EventIdsInit, EventIdsInv, IdsFit

LEMMA IdsGoOn == EventIdsInv /\ [EventIdsNext]_idVars => EventIdsInv'
<1>1. SUFFICES ASSUME EventIdsInv, [EventIdsNext]_idVars PROVE EventIdsInv'
  OBVIOUS
<1> USE EventIdsAssumption
<1>2. CASE UNCHANGED idVars
  BY <1>1, <1>2 DEF idVars, EventIdsInv, IdsFit
<1>3. CASE MomentPasses
  BY <1>1, <1>3 DEF MomentPasses, EventIdsInv, IdsFit
<1>4. ASSUME NEW c \in Changes, HappensThere(c) PROVE EventIdsInv'
  <2>1. moment' = moment /\ recorded' = recorded /\ change' = c
    BY <1>4 DEF HappensThere
  <2>2. CASE c.is = "opened"
    <3>1. c.of = "pull"
      BY <2>2 DEF Changes
    <3>2. opened = 0 /\ opened' = moment
      BY <1>4, <2>2, <3>1 DEF HappensThere
    <3>3. \A e \in recorded : OwnId(e.of, e.id, e.whole, opened')
      <4>1. SUFFICES ASSUME NEW e \in recorded PROVE OwnId(e.of, e.id, e.whole, opened')
        OBVIOUS
      <4>2. OwnId(e.of, e.id, e.whole, 0)
        BY <1>1, <3>2 DEF EventIdsInv, IdsFit
      <4>3. QED  BY <4>2 DEF OwnId
    <3>4. opened' # 0 /\ opened' \in 0 .. MaxMoment
      BY <1>1, <3>2 DEF EventIdsInv
    <3>5. QED  BY <1>1, <2>1, <3>3, <3>4 DEF EventIdsInv, IdsFit
  <2>3. CASE c.is # "opened"
    <3>1. opened' = opened /\ (c.of \in {"pull", "review"} => opened # 0)
      BY <1>4, <2>3 DEF HappensThere
    <3>2. QED  BY <1>1, <2>1, <3>1 DEF EventIdsInv, IdsFit
  <2>4. QED  BY <2>2, <2>3
<1>5. ASSUME NEW source \in Source, Recorded(source) PROVE EventIdsInv'
  <2>1. /\ change \in Changes /\ (source = "import" => change \in ByImport)
        /\ change.of \in {"pull", "review"} => opened # 0
        /\ UNCHANGED <<moment, opened, change>>
    BY <1>1, <1>5 DEF Recorded, EventIdsInv, IdsFit
  <2>2. PICK q \in Payloads(change, source) :
          recorded' = IF Makes(InWebhookWords(q))
                      THEN recorded \cup {[id |-> IdOf(InWebhookWords(q), moment), of |-> change,
                                           whole |-> InWebhookWords(q).whole]}
                      ELSE recorded
    BY <1>5 DEF Recorded
  <2> DEFINE p == InWebhookWords(q)
             new == [id |-> IdOf(p, moment), of |-> change, whole |-> p.whole]
  <2>3. CASE Makes(p)
    <3>1. /\ change \in Counted /\ p.whole \in BOOLEAN
          /\ IdOf(p, moment).at \in 0 .. MaxMoment
          /\ OwnId(change, IdOf(p, moment), p.whole, opened)
      <4> HIDE DEF p
      <4>1. p = InWebhookWords(q)
        BY DEF p
      <4>2. QED  BY <1>1, <2>1, <2>3, <4>1, IdFits
    <3>2. recorded' = recorded \cup {new}
      BY <2>2, <2>3
    <3>3. /\ new.of \in Counted /\ new.whole \in BOOLEAN /\ new.id.at \in 0 .. MaxMoment
          /\ OwnId(new.of, new.id, new.whole, opened)
      BY <3>1
    <3> HIDE DEF new
    <3>4. QED  BY <1>1, <2>1, <3>2, <3>3 DEF EventIdsInv, IdsFit
  <2>4. CASE ~Makes(p)
    BY <1>1, <2>1, <2>2, <2>4 DEF EventIdsInv, IdsFit
  <2>5. QED  BY <2>3, <2>4
<1>6. QED  BY <1>1, <1>2, <1>3, <1>4, <1>5 DEF EventIdsNext

\* Two changes have two ids.
LEMMA IdsApart ==
  ASSUME EventIdsInv PROVE OneIdEach
<1>1. \A e \in recorded : e.of \in Counted
  BY DEF EventIdsInv, IdsFit
<1>2. ASSUME NEW e \in recorded, NEW f \in recorded
      PROVE  e.of = f.of <=>
               e.id = f.id \/ (e.of.is = "opened" /\ f.of.is = "opened" /\ ~(e.whole /\ f.whole))
  <2>1. /\ e.of \in Counted /\ OwnId(e.of, e.id, e.whole, opened)
        /\ f.of \in Counted /\ OwnId(f.of, f.id, f.whole, opened)
    BY DEF EventIdsInv, IdsFit
  <2>2. \A c \in Counted :
          /\ c = [of |-> c.of, is |-> c.is]
          /\ c.is = "opened" => c.of = "pull"
          /\ c.of \in {"pull", "issue", "review", "push", "release"}
          /\ c.of = "pull" => c.is \in {"opened", "merged"}
          /\ c.of = "issue" => c.is = "completed"
          /\ c.of = "review" => c.is = "submitted"
          /\ c.of = "release" => c.is = "published"
    <3>1. SUFFICES ASSUME NEW c \in Counted
          PROVE  /\ c = [of |-> c.of, is |-> c.is]
                 /\ c.is = "opened" => c.of = "pull"
                 /\ c.of \in {"pull", "issue", "review", "push", "release"}
                 /\ c.of = "pull" => c.is \in {"opened", "merged"}
                 /\ c.of = "issue" => c.is = "completed"
                 /\ c.of = "review" => c.is = "submitted"
                 /\ c.of = "release" => c.is = "published"
      OBVIOUS
    <3>2. \/ c.is \in {"opened", "merged", "completed", "submitted", "published"}
          \/ c.of = "push" /\ c.is # "deleted"
      BY DEF Counted
    <3>3. CASE c \in [of : {"pull"}, is : {"opened", "closed", "merged", "reopened"}]
      BY <3>2, <3>3
    <3>4. CASE c \in [of : {"issue"}, is : {"completed", "not planned", "reopened"}]
      BY <3>2, <3>4
    <3>5. CASE c \in [of : {"review"}, is : {"submitted", "edited", "dismissed"}]
      BY <3>2, <3>5
    <3>6. CASE c \in [of : {"push"}, is : PushedHead \cup {"deleted"}]
      BY <3>6, EventIdsAssumption
    <3>7. CASE c \in [of : {"release"}, is : {"drafted", "published"}]
      BY <3>2, <3>7
    <3>8. QED  BY <3>3, <3>4, <3>5, <3>6, <3>7 DEF Counted, Changes
  <2>3. e.id.of = e.of.of /\ f.id.of = f.of.of
    BY <2>1, <2>2 DEF OwnId
  <2>4. CASE e.of.of # f.of.of
    BY <2>1, <2>2, <2>3, <2>4
  <2>5. CASE e.of.of = "pull" /\ f.of.of = "pull"
    <3>1. CASE e.of.is = "merged" /\ f.of.is = "merged"
      BY <2>1, <2>2, <2>5, <3>1 DEF OwnId
    <3>2. CASE e.of.is # f.of.is
      BY <2>1, <2>2, <2>5, <3>2 DEF OwnId
    <3>3. CASE e.of.is = "opened" /\ f.of.is = "opened"
      <4>1. e.of = f.of
        BY <2>1, <2>2, <2>5, <3>3
      <4>2. e.whole /\ f.whole => e.id = f.id
        BY <2>1, <2>5, <3>3 DEF OwnId
      <4>3. QED  BY <3>3, <4>1, <4>2
    <3>4. QED  BY <2>1, <2>2, <2>5, <3>1, <3>2, <3>3
  <2>6. CASE e.of.of = "push" /\ f.of.of = "push"
    <3>1. e.of = f.of <=> e.of.is = f.of.is
      BY <2>1, <2>2, <2>6
    <3>2. e.id = f.id <=> e.of.is = f.of.is
      BY <2>1, <2>6 DEF OwnId
    <3>3. QED  BY <2>1, <2>2, <2>6, <3>1, <3>2
  <2>7. CASE e.of.of = f.of.of /\ e.of.of \in {"issue", "review", "release"}
    BY <2>1, <2>2, <2>7 DEF OwnId
  <2>8. QED  BY <2>1, <2>2, <2>4, <2>5, <2>6, <2>7
<1>3. QED  BY <1>1, <1>2 DEF OneIdEach

\* The ids of the events made so far are the changes' own.
THEOREM EventIdsInvariance == EventIdsSpec => []EventIdsInv
<1>1. EventIdsInit => EventIdsInv
  BY IdsStart
<1>2. EventIdsInv /\ [EventIdsNext]_idVars => EventIdsInv'
  BY IdsGoOn
<1>3. QED  BY <1>1, <1>2, PTL DEF EventIdsSpec

\* A change has one id, whichever ways it is told and how often, and no other change has it.
THEOREM IdsAreOwn == EventIdsSpec => []OneIdEach
<1>1. EventIdsInv => OneIdEach
  BY IdsApart
<1>2. QED  BY <1>1, EventIdsInvariance, PTL

-----------------------------------------------------------------------------
(* The engineering wall (WallSignals). *)

Requests ==
  [step : {"merge", "lock", "read", "write", "answer"}, hook : WallHook,
   last : SUBSET (Signal \cup {Missing}), own : Signal \cup {Missing}]

\* k is a run that was observed last.
IsNewest(signals1, k) == signals1[k] # Missing /\ \A i \in Key : signals1[i].at <= signals1[k].at
NothingShown(signals1) == \A k \in Key : signals1[k] = Missing

\* One request at a time is past the repository's lock, with a delivery not applied yet;
\* what it read is still so.
LockKept ==
  /\ wallHolder = {} \/ \E h \in Serving : wallHolder = {h}
  /\ \A h \in Serving :
       /\ Serves(h, "read") \/ Serves(h, "write") =>
            wallHolder = {h} /\ serving[h].hook \notin wallAccepted
       /\ Serves(h, "write") =>
            /\ serving[h].own = signal[report[serving[h].hook].key]
            /\ \/ serving[h].last = {} /\ NothingShown(signal)
               \/ \E k \in Key : IsNewest(signal, k) /\ serving[h].last = {signal[k]}

\* A request went through the transactions before its step.
StepsTaken ==
  \A h \in Serving :
    /\ serving[h] # AtRest /\ ~Serves(h, "merge") => serving[h].hook \in hookAccepted
    /\ Serves(h, "answer") => serving[h].hook \in wallAccepted

\* All deliveries report one kind of thing.
OneKind == \A d, e \in WallHook : report[d].kind = report[e].kind

\* A signal is one that was told, and of the signals there are one is the newest.
SignalsTold ==
  /\ \A k \in Key : signal[k] # Missing => \E d \in wallAccepted : report[d].key = k
  /\ NothingShown(signal) \/ \E k \in Key : IsNewest(signal, k)

\* ShowsLatest, delivery by delivery.
ShowsLatestOf(reports, S, f) ==
  \A k \in Key : (\E d \in S : reports[d].key = k) =>
    \E d \in S :
      /\ reports[d].key = k
      /\ \/ /\ f[k].at = reports[d].at /\ f[k].result = reports[d].result
            /\ \A e \in S : reports[e].key = k => reports[e].at <= reports[d].at
         \/ reports[d].kind = "review" /\ reports[d].result = "dismissed" /\ f[k].result = "dismissed"

WallInv ==
  /\ WallTypeOK
  /\ LockKept
  /\ StepsTaken
  /\ OneKind
  /\ SignalsTold
  /\ ShowsLatestOf(report, wallAccepted, signal)
  /\ AnsweredIsStored

LEMMA WallStarts == WallInit => WallInv
<1>1. SUFFICES ASSUME WallInit PROVE WallInv
  OBVIOUS
<1>2. WallTypeOK
  <2>1. report \in [WallHook -> UNION {Update(k) : k \in Kind}]
    BY <1>1 DEF WallInit
  <2>2. Cardinality({}) <= 1
    BY FS_EmptySet
  <2>3. QED  BY <1>1, <2>1, <2>2 DEF WallInit, WallTypeOK
<1>3. LockKept /\ StepsTaken /\ SignalsTold
  BY <1>1 DEF WallInit, LockKept, StepsTaken, SignalsTold, Serves, NothingShown
<1>4. OneKind
  BY <1>1 DEF WallInit, OneKind, Update
<1>5. ShowsLatestOf(report, wallAccepted, signal) /\ AnsweredIsStored
  BY <1>1 DEF WallInit, ShowsLatestOf, AnsweredIsStored
<1>6. QED  BY <1>2, <1>3, <1>4, <1>5 DEF WallInv

LEMMA RequestTyped ==
  ASSUME WallTypeOK, NEW h \in Serving, serving[h] # AtRest
  PROVE  serving[h] \in Requests
BY DEF WallTypeOK, Requests

LEMMA UpdateTyped ==
  ASSUME WallTypeOK, NEW d \in WallHook
  PROVE  /\ report[d].kind \in Kind /\ report[d].key \in Key
         /\ report[d].at \in Observed /\ report[d].result \in Result(report[d].kind)
<1>1. PICK k \in Kind : report[d] \in Update(k)
  BY DEF WallTypeOK
<1>2. QED  BY <1>1 DEF Update

\* A request h that moves on to y, taking or leaving the lock; no signal changes.
LEMMA RequestFits ==
  ASSUME WallInv, NEW h \in Serving, NEW y \in Requests \cup {AtRest},
         serving' = [serving EXCEPT ![h] = y],
         UNCHANGED <<report, wallAccepted, signal, news>>,
         hookAccepted' \in SUBSET WallHook, hookAccepted \subseteq hookAccepted',
         answered' \subseteq hookAccepted' \cap wallAccepted,
         \/ wallHolder' = wallHolder
         \/ wallHolder = {} /\ wallHolder' = {h}
         \/ wallHolder' = wallHolder \ {h},
         y # AtRest =>
           /\ y.step \in {"read", "write"} => wallHolder' = {h} /\ y.hook \notin wallAccepted
           /\ y.step = "write" =>
                /\ y.own = signal[report[y.hook].key]
                /\ \/ y.last = {} /\ NothingShown(signal)
                   \/ \E k \in Key : IsNewest(signal, k) /\ y.last = {signal[k]}
           /\ y.step # "merge" => y.hook \in hookAccepted'
           /\ y.step = "answer" => y.hook \in wallAccepted
  PROVE  WallInv'
<1>1. serving'[h] = y /\ \A i \in Serving \ {h} : serving'[i] = serving[i]
  BY DEF WallInv, WallTypeOK
<1>2. wallHolder' = {} \/ \E i \in Serving : wallHolder' = {i}
  BY DEF WallInv, LockKept
<1>3. WallTypeOK'
  <2>1. Cardinality({}) <= 1 /\ \A i \in Serving : Cardinality({i}) <= 1
    BY FS_EmptySet, FS_Singleton
  <2>2. wallHolder' \subseteq Serving /\ Cardinality(wallHolder') <= 1
    BY <1>2, <2>1
  <2>3. serving' \in [Serving -> Requests \cup {AtRest}]
    BY DEF WallInv, WallTypeOK, Requests
  <2>4. answered' \in SUBSET WallHook
    BY DEF WallInv, WallTypeOK
  <2>5. UNCHANGED <<report, wallAccepted, signal, news>>
    OBVIOUS
  <2>6. QED
    BY <2>2, <2>3, <2>4, <2>5 DEF WallInv, WallTypeOK, Requests
<1>4. LockKept'
  <2>1. SUFFICES ASSUME NEW i \in Serving
        PROVE  /\ Serves(i, "read")' \/ Serves(i, "write")' =>
                    wallHolder' = {i} /\ serving'[i].hook \notin wallAccepted
               /\ Serves(i, "write")' =>
                    /\ serving'[i].own = signal[report[serving'[i].hook].key]
                    /\ \/ serving'[i].last = {} /\ NothingShown(signal)
                       \/ \E k \in Key : IsNewest(signal, k) /\ serving'[i].last = {signal[k]}
    BY <1>2 DEF LockKept, NothingShown, IsNewest
  <2>2. CASE i = h
    BY <1>1, <2>2 DEF Serves
  <2>3. CASE i # h
    BY <1>1, <2>3 DEF WallInv, LockKept, Serves
  <2>4. QED  BY <2>2, <2>3
<1>5. StepsTaken'
  <2>1. SUFFICES ASSUME NEW i \in Serving
        PROVE  /\ serving'[i] # AtRest /\ ~Serves(i, "merge")' => serving'[i].hook \in hookAccepted'
               /\ Serves(i, "answer")' => serving'[i].hook \in wallAccepted
    BY DEF StepsTaken
  <2>2. CASE i = h
    BY <1>1, <2>2 DEF Serves
  <2>3. CASE i # h
    BY <1>1, <2>3 DEF WallInv, StepsTaken, Serves
  <2>4. QED  BY <2>2, <2>3
<1>6. OneKind' /\ SignalsTold'
  BY DEF WallInv, OneKind, SignalsTold, NothingShown, IsNewest
<1>7. ShowsLatestOf(report', wallAccepted', signal') /\ AnsweredIsStored'
  BY DEF WallInv, AnsweredIsStored
<1>8. QED  BY <1>3, <1>4, <1>5, <1>6, <1>7 DEF WallInv

LEMMA RequestGoesOn ==
  ASSUME WallInv, NEW h \in Serving,
         \/ \E d \in WallHook : Receive(h, d)
         \/ MergeActivity(h) \/ LockWall(h) \/ ReadSignals(h) \/ Answer(h) \/ Abort(h)
  PROVE  WallInv' /\ UNCHANGED <<wallAccepted, news>>
<1>1. ASSUME NEW d \in WallHook, Receive(h, d)
      PROVE  WallInv' /\ UNCHANGED <<wallAccepted, news>>
  <2> DEFINE y == [step |-> "merge", hook |-> d, last |-> {}, own |-> Missing]
  <2>1. /\ y \in Requests /\ y.step = "merge"
        /\ serving' = [serving EXCEPT ![h] = y]
    BY <1>1 DEF Receive, Requests
  <2> HIDE DEF y
  <2>2. answered \subseteq hookAccepted \cap wallAccepted /\ hookAccepted \in SUBSET WallHook
    BY DEF WallInv, AnsweredIsStored, WallTypeOK
  <2>3. QED  BY <1>1, <2>1, <2>2, RequestFits DEF Receive
<1>2. CASE Abort(h)
  <2>1. answered \subseteq hookAccepted \cap wallAccepted /\ hookAccepted \in SUBSET WallHook
    BY DEF WallInv, AnsweredIsStored, WallTypeOK
  <2>2. QED  BY <1>2, <2>1, RequestFits DEF Abort
<1>3. ASSUME MergeActivity(h) \/ LockWall(h) \/ ReadSignals(h) \/ Answer(h)
      PROVE  WallInv' /\ UNCHANGED <<wallAccepted, news>>
  <2>1. PICK p \in Requests : p = serving[h] /\ p # AtRest
    BY <1>3, RequestTyped DEF WallInv, MergeActivity, LockWall, ReadSignals, Answer, Serves
  <2>2. /\ answered \subseteq hookAccepted \cap wallAccepted /\ hookAccepted \in SUBSET WallHook
        /\ p.hook \in WallHook
    BY <2>1 DEF WallInv, AnsweredIsStored, WallTypeOK, Requests
  <2>3. p.step # "merge" => p.hook \in hookAccepted
    BY <2>1 DEF WallInv, StepsTaken, Serves
  <2>4. CASE MergeActivity(h)
    <3> DEFINE y == [p EXCEPT !.step = "lock"]
    <3>1. /\ y \in Requests /\ y.step = "lock" /\ y.hook = p.hook
          /\ serving' = [serving EXCEPT ![h] = y]
      BY <2>1, <2>4 DEF MergeActivity, Proceed, AfterMerge, Requests
    <3> HIDE DEF y
    <3>2. /\ hookAccepted' = hookAccepted \cup {p.hook}
          /\ UNCHANGED <<report, wallAccepted, signal, news, answered, wallHolder>>
      BY <2>1, <2>4 DEF MergeActivity
    <3>3. QED  BY <2>2, <3>1, <3>2, RequestFits
  <2>5. CASE LockWall(h) /\ p.hook \in wallAccepted
    <3> DEFINE y == [p EXCEPT !.step = "answer"]
    <3>1. /\ y \in Requests /\ y.step = "answer" /\ y.hook = p.hook
          /\ serving' = [serving EXCEPT ![h] = y]
          /\ UNCHANGED <<report, wallAccepted, signal, news, answered, wallHolder, hookAccepted>>
      BY <2>1, <2>5 DEF LockWall, Proceed, Requests
    <3> HIDE DEF y
    <3>2. p.hook \in hookAccepted
      BY <2>1, <2>3, <2>5 DEF LockWall, Serves
    <3>3. QED  BY <2>2, <2>5, <3>1, <3>2, RequestFits
  <2>6. CASE LockWall(h) /\ p.hook \notin wallAccepted
    <3> DEFINE y == [p EXCEPT !.step = "read"]
    <3>1. /\ y \in Requests /\ y.step = "read" /\ y.hook = p.hook
          /\ serving' = [serving EXCEPT ![h] = y]
      BY <2>1, <2>6 DEF LockWall, Proceed, Requests
    <3> HIDE DEF y
    <3>2. p.hook \in hookAccepted /\ wallHolder = {} /\ wallHolder' = {h}
      BY <2>1, <2>3, <2>6 DEF LockWall, Serves, LockFree
    <3>3. UNCHANGED <<report, wallAccepted, signal, news, answered, hookAccepted>>
      BY <2>6 DEF LockWall
    <3>4. QED  BY <2>2, <2>6, <3>1, <3>2, <3>3, RequestFits
  <2>7. CASE ReadSignals(h)
    <3>1. PICK last \in IF Newest = {} THEN {{}} ELSE {{x} : x \in Newest} :
            serving' = [serving EXCEPT ![h].step = "write", ![h].last = last,
                                       ![h].own = signal[report[serving[h].hook].key]]
      BY <2>7 DEF ReadSignals
    <3>2. \/ last = {} /\ NothingShown(signal)
          \/ \E k \in Key : IsNewest(signal, k) /\ last = {signal[k]}
      <4>1. CASE Newest = {}
        BY <3>1, <4>1 DEF Newest, WallInv, SignalsTold, IsNewest
      <4>2. CASE Newest # {}
        BY <3>1, <4>2 DEF Newest, IsNewest
      <4>3. QED  BY <4>1, <4>2
    <3>3. last \in SUBSET (Signal \cup {Missing}) /\ signal[report[p.hook].key] \in Signal \cup {Missing}
      BY <2>2, <3>2, UpdateTyped DEF WallInv, WallTypeOK
    <3> DEFINE y == [p EXCEPT !.step = "write", !.last = last, !.own = signal[report[p.hook].key]]
    <3>4. serving' = [serving EXCEPT ![h] = y]
      BY <2>1, <3>1
    <3>5. /\ y \in Requests /\ y.step = "write" /\ y.hook = p.hook
          /\ y.own = signal[report[p.hook].key] /\ y.last = last
      BY <3>3 DEF Requests
    <3> HIDE DEF y
    <3>6. /\ p.hook \in hookAccepted /\ p.hook \notin wallAccepted
          /\ wallHolder = {h} /\ wallHolder' = {h}
      BY <2>1, <2>3, <2>7 DEF ReadSignals, Serves, WallInv, LockKept
    <3>7. UNCHANGED <<report, wallAccepted, signal, news, answered, hookAccepted>>
      BY <2>7 DEF ReadSignals
    <3>8. QED  BY <2>2, <3>2, <3>4, <3>5, <3>6, <3>7, RequestFits
  <2>8. CASE Answer(h)
    <3>1. p.hook \in hookAccepted /\ p.hook \in wallAccepted
      BY <2>1, <2>3, <2>8 DEF Answer, Serves, WallInv, StepsTaken
    <3>2. /\ answered' = answered \cup {p.hook} /\ serving' = [serving EXCEPT ![h] = AtRest]
          /\ UNCHANGED <<report, wallAccepted, signal, news, wallHolder, hookAccepted>>
      BY <2>1, <2>8 DEF Answer
    <3>3. QED  BY <2>2, <3>1, <3>2, RequestFits
  <2>9. QED
    BY <1>3, <2>4, <2>5, <2>6, <2>7, <2>8
       DEF MergeActivity, LockWall, ReadSignals, Answer
<1>4. QED  BY <1>1, <1>2, <1>3 DEF Receive, Abort

LEMMA LatestShown ==
  ASSUME ShowsLatestOf(report, wallAccepted, signal)
  PROVE  ShowsLatest
<1>1. ASSUME NEW k \in Key, NEW applied, applied = {report[d] : d \in {e \in wallAccepted : report[e].key = k}},
             applied # {}
      PROVE  \/ \E u \in applied : /\ signal[k].at = u.at /\ signal[k].result = u.result
                                /\ \A v \in applied : v.at <= u.at
             \/ \E u \in applied : u.kind = "review" /\ u.result = "dismissed" /\ signal[k].result = "dismissed"
  <2>1. PICK d \in wallAccepted :
      /\ report[d].key = k
      /\ \/ /\ signal[k].at = report[d].at /\ signal[k].result = report[d].result
            /\ \A e \in wallAccepted : report[e].key = k => report[e].at <= report[d].at
         \/ report[d].kind = "review" /\ report[d].result = "dismissed" /\ signal[k].result = "dismissed"
    BY <1>1 DEF ShowsLatestOf
  <2>2. report[d] \in applied
    BY <1>1, <2>1
  <2>3. \A v \in applied : \E e \in wallAccepted : report[e].key = k /\ v = report[e]
    BY <1>1
  <2>4. QED  BY <2>1, <2>2, <2>3
<1>2. QED  BY <1>1 DEF ShowsLatest

\* What is written of a report is a signal, as new as the report.
LEMMA ValueTyped ==
  ASSUME WallInv, NEW d \in WallHook, NEW last, NEW own,
         \/ last = {}
         \/ \E k \in Key : IsNewest(signal, k) /\ last = {signal[k]}
  PROVE  /\ Value(report[d], last, own) \in Signal
         /\ Value(report[d], last, own).at = report[d].at
         /\ Value(report[d], last, own).result = report[d].result
<1> DEFINE u == report[d]
<1>1. u.kind \in Kind /\ u.at \in Observed /\ u.result \in Result(u.kind)
  BY UpdateTyped DEF WallInv
<1>2. u.result \in UNION {Result(k) : k \in Kind}
  BY <1>1
<1>3. Previous(u, last) \in {"none", "passing", "failing", "succeeded"}
  <2>1. CASE \E x \in last : ~Superseded(u, last)
    <3>1. PICK k \in Key : IsNewest(signal, k) /\ last = {signal[k]}
      BY <2>1
    <3>2. signal[k] \in Signal
      BY <3>1 DEF WallInv, WallTypeOK, IsNewest
    <3>3. Previous(u, last) = SettledOf(signal[k].result, signal[k].settled)
      BY <2>1, <3>1 DEF Previous
    <3>4. QED  BY <3>2, <3>3 DEF SettledOf, Signal
  <2>2. CASE ~ \E x \in last : ~Superseded(u, last)
    BY <2>2 DEF Previous
  <2>3. QED  BY <2>1, <2>2
<1>4. Value(u, last, own).settled \in {"none", "passing", "failing", "succeeded"}
  <2>1. CASE u.kind = "pipeline"
    <3>1. u.result # "inactive"
      BY <1>1, <2>1 DEF Result
    <3>2. Value(u, last, own).settled = SettledOf(u.result, Previous(u, last))
      BY <2>1, <3>1 DEF Value
    <3>3. QED  BY <1>3, <3>2 DEF SettledOf
  <2>2. CASE u.kind # "pipeline"
    BY <2>2 DEF Value
  <2>3. QED  BY <2>1, <2>2
<1>5. /\ Value(u, last, own).at = u.at /\ Value(u, last, own).result = u.result
      /\ Value(u, last, own) = [at |-> u.at, result |-> u.result,
                                settled |-> Value(u, last, own).settled]
  BY DEF Value
<1>6. QED  BY <1>1, <1>2, <1>4, <1>5 DEF Signal

\* A delivery that is written leaves the wall with a latest observation.
LEMMA LatestStays ==
  ASSUME WallInv, NEW d \in WallHook, d \notin wallAccepted,
         NEW f, f \in [Key -> Signal \cup {Missing}],
         \/ /\ ~Writable(report[d], signal[report[d].key]) /\ f = signal
         \/ /\ Writable(report[d], signal[report[d].key])
            /\ \A k \in Key \ {report[d].key} : f[k] = signal[k]
            /\ f[report[d].key] # Missing
            /\ f[report[d].key].at = report[d].at /\ f[report[d].key].result = report[d].result
  PROVE  /\ ShowsLatestOf(report, wallAccepted \cup {d}, f)
         /\ \A k \in Key : f[k] # Missing => \E e \in wallAccepted \cup {d} : report[e].key = k
         /\ \E k \in Key : IsNewest(f, k)
<1> DEFINE u == report[d]
           S == wallAccepted \cup {d}
<1>1. u.kind \in Kind /\ u.key \in Key /\ u.at \in Observed /\ u.result \in Result(u.kind)
  BY UpdateTyped DEF WallInv
<1>2. \A e \in WallHook : report[e].at \in Nat /\ report[e].at >= 1 /\ report[e].kind = u.kind
  BY UpdateTyped DEF WallInv, OneKind, Observed
<1>3. S \in SUBSET WallHook
  BY DEF WallInv, WallTypeOK
<1>4. \A k \in Key : signal[k].at \in Nat /\ (signal[k] # Missing => signal[k].at >= 1)
  BY WallAssumption DEF WallInv, WallTypeOK, Signal, Missing, Observed
<1>5. \A k \in Key : f[k].at \in Nat
  BY WallAssumption DEF Signal, Missing, Observed
<1>6. \A k \in Key \ {u.key} : f[k] = signal[k]
  OBVIOUS
<1>7. ShowsLatestOf(report, wallAccepted, signal) /\ SignalsTold
  BY DEF WallInv
<1>8. ~Writable(u, signal[u.key]) => signal[u.key] # Missing
  BY <1>1 DEF Writable, Missing, Observed
<1>9. ShowsLatestOf(report, S, f)
  <2>1. SUFFICES ASSUME NEW k \in Key, NEW c \in S, report[c].key = k
        PROVE  \E e \in S :
      /\ report[e].key = k
      /\ \/ /\ f[k].at = report[e].at /\ f[k].result = report[e].result
            /\ \A g \in S : report[g].key = k => report[g].at <= report[e].at
         \/ report[e].kind = "review" /\ report[e].result = "dismissed" /\ f[k].result = "dismissed"
    BY DEF ShowsLatestOf
  <2>2. CASE k # u.key
    BY <1>6, <1>7, <2>1, <2>2 DEF ShowsLatestOf
  <2>3. CASE k = u.key /\ ~ \E e \in wallAccepted : report[e].key = k
    <3>1. signal[k] = Missing
      BY <1>7, <2>3 DEF SignalsTold
    <3>2. Writable(u, signal[k])
      BY <1>8, <2>3, <3>1
    <3>3. QED  BY <1>2, <1>3, <2>3, <3>2
  <2>4. CASE k = u.key /\ \E e \in wallAccepted : report[e].key = k
    <3>1. PICK e \in wallAccepted :
      /\ report[e].key = k
      /\ \/ /\ signal[k].at = report[e].at /\ signal[k].result = report[e].result
            /\ \A g \in wallAccepted : report[g].key = k => report[g].at <= report[e].at
         \/ report[e].kind = "review" /\ report[e].result = "dismissed" /\ signal[k].result = "dismissed"
      BY <1>7, <2>4 DEF ShowsLatestOf
    <3>2. e \in WallHook /\ report[e].result \in Result(report[e].kind) /\ report[e].kind = u.kind
      BY <1>2, <1>3, UpdateTyped DEF WallInv
    <3>3. CASE Writable(u, signal[k])
      <4>1. signal[k].at <= u.at /\ f[k].at = u.at /\ f[k].result = u.result
        BY <2>4, <3>3 DEF Writable
      <4>2. CASE report[e].kind = "review" /\ report[e].result = "dismissed" /\ signal[k].result = "dismissed"
        <5>1. u.result = "dismissed" /\ u.kind = "review"
          BY <3>2, <3>3, <4>2 DEF Writable
        <5>2. QED  BY <2>4, <4>1, <5>1
      <4>3. CASE /\ signal[k].at = report[e].at
                 /\ \A g \in wallAccepted : report[g].key = k => report[g].at <= report[e].at
        <5>1. \A g \in S : report[g].key = k => report[g].at <= u.at
          BY <1>2, <1>3, <4>1, <4>3, <3>2
        <5>2. QED  BY <2>4, <4>1, <5>1
      <4>4. QED  BY <3>1, <4>2, <4>3
    <3>4. CASE ~Writable(u, signal[k])
      <4>1. f = signal
        BY <2>4, <3>4
      <4>2. CASE report[e].kind = "review" /\ report[e].result = "dismissed" /\ signal[k].result = "dismissed"
        BY <3>1, <4>1, <4>2
      <4>3. CASE /\ signal[k].at = report[e].at /\ signal[k].result = report[e].result
                 /\ \A g \in wallAccepted : report[g].key = k => report[g].at <= report[e].at
        <5>1. CASE u.at <= signal[k].at
          <6>1. \A g \in S : report[g].key = k => report[g].at <= report[e].at
            BY <4>3, <5>1
          <6>2. QED  BY <3>1, <4>1, <4>3, <6>1
        <5>2. CASE ~(u.at <= signal[k].at)
          <6>1. u.kind = "review" /\ signal[k].result = "dismissed"
            BY <1>2, <1>4, <3>4, <5>2 DEF Writable
          <6>2. QED  BY <3>1, <3>2, <4>1, <4>3, <6>1
        <5>3. QED  BY <5>1, <5>2
      <4>4. QED  BY <3>1, <4>2, <4>3
    <3>5. QED  BY <3>3, <3>4
  <2>5. QED  BY <2>2, <2>3, <2>4
<1>10. \A k \in Key : f[k] # Missing => \E e \in S : report[e].key = k
  BY <1>1, <1>6, <1>7 DEF SignalsTold
<1>11. \E k \in Key : IsNewest(f, k)
  <2>1. CASE NothingShown(signal)
    <3>1. f[u.key] # Missing /\ \A k \in Key \ {u.key} : f[k].at = 0
      BY <1>1, <1>6, <1>8, <2>1 DEF NothingShown, Missing
    <3>2. QED  BY <1>1, <1>5, <3>1 DEF IsNewest
  <2>2. ASSUME NEW k \in Key, IsNewest(signal, k) PROVE \E j \in Key : IsNewest(f, j)
    <3>1. CASE ~Writable(u, signal[u.key])
      BY <2>2, <3>1
    <3>2. CASE Writable(u, signal[u.key]) /\ u.at >= signal[k].at
      <4>1. IsNewest(f, u.key)
        <5>1. \A i \in Key : f[i].at <= f[u.key].at
          <6>1. SUFFICES ASSUME NEW i \in Key PROVE f[i].at <= f[u.key].at
            OBVIOUS
          <6>2. signal[i].at <= signal[k].at
            BY <2>2 DEF IsNewest
          <6>3. f[u.key].at = u.at /\ u.at \in Nat
            BY <1>2, <3>2
          <6>4. CASE i = u.key
            BY <6>3, <6>4
          <6>5. CASE i # u.key
            BY <1>4, <1>6, <3>2, <6>2, <6>3, <6>5
          <6>6. QED  BY <6>4, <6>5
        <5>2. QED  BY <3>2, <5>1 DEF IsNewest
      <4>2. QED  BY <1>1, <4>1
    <3>3. CASE Writable(u, signal[u.key]) /\ u.at < signal[k].at
      <4>1. k # u.key
        BY <1>2, <1>4, <3>3 DEF Writable
      <4>2. f[k] = signal[k] /\ f[k] # Missing
        BY <1>6, <2>2, <4>1 DEF IsNewest
      <4>3. \A i \in Key : f[i].at <= f[k].at
        BY <1>2, <1>4, <1>6, <2>2, <3>3, <4>2 DEF IsNewest
      <4>4. QED  BY <4>2, <4>3 DEF IsNewest
    <3>4. QED  BY <1>1, <1>2, <1>4, <3>1, <3>2, <3>3
  <2>3. QED  BY <1>7, <2>1, <2>2 DEF SignalsTold
<1>12. QED  BY <1>9, <1>10, <1>11

LEMMA ApplyFits ==
  ASSUME WallInv, NEW h \in Serving, ApplySignals(h)
  PROVE  /\ WallInv'
         /\ \A n \in news' \ news : \E d \in wallAccepted' \ wallAccepted :
              /\ report[d].key = n.key /\ report[d].result = n.result
              /\ report[d].kind = "pipeline" => \A k \in Key : signal[k].at <= report[d].at
<1>1. PICK p \in Requests : p = serving[h] /\ p # AtRest /\ p.step = "write"
  BY RequestTyped DEF WallInv, ApplySignals, Serves
<1> DEFINE d == p.hook
           u == report[d]
           v == Value(u, p.last, p.own)
<1>2. /\ d \in WallHook /\ d \notin wallAccepted /\ d \in hookAccepted /\ wallHolder = {h}
      /\ p.own = signal[u.key]
      /\ \/ p.last = {} /\ NothingShown(signal)
         \/ \E k \in Key : IsNewest(signal, k) /\ p.last = {signal[k]}
  BY <1>1 DEF Requests, WallInv, LockKept, StepsTaken, Serves
<1>3. u.kind \in Kind /\ u.key \in Key /\ u.at \in Observed /\ u.result \in Result(u.kind)
  BY <1>2, UpdateTyped DEF WallInv
<1>4. v \in Signal /\ v.at = u.at /\ v.result = u.result
  <2>1. p.last = {} \/ \E k \in Key : IsNewest(signal, k) /\ p.last = {signal[k]}
    BY <1>2
  <2>2. d \in WallHook
    BY <1>2
  <2> HIDE DEF d
  <2>3. QED  BY <2>1, <2>2, ValueTyped
<1>5. /\ wallAccepted' = wallAccepted \cup {d} /\ wallHolder' = {}
      /\ serving' = [serving EXCEPT ![h].step = "answer"]
      /\ UNCHANGED <<report, hookAccepted, answered>>
      /\ \/ ~Writable(u, signal[u.key]) /\ UNCHANGED <<signal, news>>
         \/ /\ Writable(u, signal[u.key])
            /\ signal' = [signal EXCEPT ![u.key] = v]
            /\ news' = IF Superseded(u, p.last) THEN news
                       ELSE news \cup {[key |-> u.key, result |-> r] : r \in News(u, p.last, p.own)}
  BY <1>1, <1>2 DEF ApplySignals, Proceed
<1> DEFINE y == [p EXCEPT !.step = "answer"]
<1>6. serving' = [serving EXCEPT ![h] = y] /\ y \in Requests /\ y.step = "answer" /\ y.hook = d
  BY <1>1, <1>5 DEF Requests
<1> HIDE DEF v, y
<1>7. News(u, p.last, p.own) \subseteq {u.result} \cap {"passing", "failing", "successful"}
  <2>1. CASE u.kind = "pipeline"
    BY <2>1 DEF News
  <2>2. CASE u.kind = "deployment"
    BY <2>2 DEF News
  <2>3. CASE u.kind \notin {"pipeline", "deployment"}
    BY <2>3 DEF News
  <2>4. QED  BY <2>1, <2>2, <2>3
<1>8. signal' \in [Key -> Signal \cup {Missing}]
  BY <1>3, <1>4, <1>5 DEF WallInv, WallTypeOK
<1>9. v # Missing
  BY <1>3, <1>4 DEF Missing, Observed
<1>10. \/ ~Writable(u, signal[u.key]) /\ signal' = signal
       \/ /\ Writable(u, signal[u.key])
          /\ \A k \in Key \ {u.key} : signal'[k] = signal[k]
          /\ signal'[u.key] # Missing
          /\ signal'[u.key].at = u.at /\ signal'[u.key].result = u.result
  BY <1>3, <1>4, <1>5, <1>9 DEF WallInv, WallTypeOK
<1>11. /\ ShowsLatestOf(report, wallAccepted \cup {d}, signal')
       /\ \A k \in Key : signal'[k] # Missing => \E e \in wallAccepted \cup {d} : report[e].key = k
       /\ \E k \in Key : IsNewest(signal', k)
  <2> DEFINE f == signal'
  <2>1. /\ f \in [Key -> Signal \cup {Missing}]
        /\ \/ ~Writable(u, signal[u.key]) /\ f = signal
           \/ /\ Writable(u, signal[u.key])
              /\ \A k \in Key \ {u.key} : f[k] = signal[k]
              /\ f[u.key] # Missing
              /\ f[u.key].at = u.at /\ f[u.key].result = u.result
    BY <1>8, <1>10
  <2> HIDE DEF f
  <2>2. /\ ShowsLatestOf(report, wallAccepted \cup {d}, f)
        /\ \A k \in Key : f[k] # Missing => \E e \in wallAccepted \cup {d} : report[e].key = k
        /\ \E k \in Key : IsNewest(f, k)
    BY <1>2, <2>1, LatestStays
  <2>3. QED  BY <2>2 DEF f
<1>12. serving'[h] = y /\ \A i \in Serving \ {h} : serving'[i] = serving[i]
  BY <1>6 DEF WallInv, WallTypeOK
<1>13. WallTypeOK'
  <2>1. wallHolder' \subseteq Serving /\ Cardinality(wallHolder') <= 1
    BY <1>5, FS_EmptySet
  <2>2. serving' \in [Serving -> Requests \cup {AtRest}]
    BY <1>6 DEF WallInv, WallTypeOK, Requests
  <2>3. news' \in SUBSET [key : Key, result : {"passing", "failing", "successful"}]
    BY <1>3, <1>5, <1>7 DEF WallInv, WallTypeOK
  <2>4. wallAccepted' \in SUBSET WallHook
    BY <1>2, <1>5 DEF WallInv, WallTypeOK
  <2>5. QED  BY <1>5, <1>8, <2>1, <2>2, <2>3, <2>4 DEF WallInv, WallTypeOK, Requests
<1>14. LockKept'
  <2>1. ASSUME NEW i \in Serving PROVE ~Serves(i, "read")' /\ ~Serves(i, "write")'
    <3>1. CASE i = h
      BY <1>6, <1>12, <3>1 DEF Serves
    <3>2. CASE i # h
      BY <1>2, <1>12, <3>2 DEF WallInv, LockKept, Serves
    <3>3. QED  BY <3>1, <3>2
  <2>2. QED  BY <1>5, <2>1 DEF LockKept
<1>15. StepsTaken'
  BY <1>2, <1>5, <1>6, <1>12 DEF WallInv, StepsTaken, Serves
<1>16. OneKind' /\ AnsweredIsStored'
  BY <1>5 DEF WallInv, OneKind, AnsweredIsStored
<1>17. SignalsTold'
  BY <1>5, <1>11 DEF SignalsTold, IsNewest
<1>18. WallInv'
  BY <1>5, <1>11, <1>13, <1>14, <1>15, <1>16, <1>17 DEF WallInv
<1>19. ASSUME NEW n \in news' \ news
       PROVE  \E e \in wallAccepted' \ wallAccepted :
                /\ report[e].key = n.key /\ report[e].result = n.result
                /\ report[e].kind = "pipeline" => \A k \in Key : signal[k].at <= report[e].at
  <2>1. ~Superseded(u, p.last) /\ n.key = u.key /\ n.result = u.result
    BY <1>5, <1>7, <1>19
  <2>2. ASSUME u.kind = "pipeline", NEW k \in Key PROVE signal[k].at <= u.at
    <3>1. signal[k].at \in Nat /\ u.at \in Nat
      BY <1>3, WallAssumption DEF WallInv, WallTypeOK, Signal, Missing, Observed
    <3>2. CASE NothingShown(signal)
      BY <3>1, <3>2 DEF NothingShown, Missing
    <3>3. ASSUME NEW j \in Key, IsNewest(signal, j), p.last = {signal[j]}
          PROVE  signal[k].at <= u.at
      <4>1. signal[j].at \in Nat
        BY WallAssumption DEF WallInv, WallTypeOK, Signal, Missing, Observed
      <4>2. ~(signal[j].at > u.at)
        BY <2>1, <2>2, <3>3 DEF Superseded
      <4>3. QED  BY <3>1, <3>3, <4>1, <4>2 DEF IsNewest
    <3>4. QED  BY <1>2, <3>2, <3>3
  <2>3. d \in wallAccepted' \ wallAccepted
    BY <1>2, <1>5
  <2>4. QED  BY <2>1, <2>2, <2>3
<1>20. QED  BY <1>18, <1>19

LEMMA WallGoesOn ==
  ASSUME WallInv, [WallNext]_wallVars
  PROVE  /\ WallInv'
         /\ \A n \in news' \ news : \E d \in wallAccepted' \ wallAccepted :
              /\ report[d].key = n.key /\ report[d].result = n.result
              /\ report[d].kind = "pipeline" => \A k \in Key : signal[k].at <= report[d].at
<1>1. CASE UNCHANGED wallVars
  <2>1. UNCHANGED <<report, hookAccepted, wallAccepted, signal, wallHolder, serving, answered, news>>
    BY <1>1 DEF wallVars
  <2>2. WallTypeOK' /\ OneKind' /\ SignalsTold' /\ AnsweredIsStored'
    BY <2>1 DEF WallInv, WallTypeOK, OneKind, SignalsTold, NothingShown, IsNewest, AnsweredIsStored
  <2>3. LockKept' /\ StepsTaken'
    BY <2>1 DEF WallInv, LockKept, StepsTaken, Serves, NothingShown, IsNewest
  <2>4. QED  BY <2>1, <2>2, <2>3 DEF WallInv
<1>2. ASSUME NEW h \in Serving, ApplySignals(h)
      PROVE  /\ WallInv'
             /\ \A n \in news' \ news : \E d \in wallAccepted' \ wallAccepted :
                  /\ report[d].key = n.key /\ report[d].result = n.result
                  /\ report[d].kind = "pipeline" => \A k \in Key : signal[k].at <= report[d].at
  BY <1>2, ApplyFits
<1>3. ASSUME NEW h \in Serving,
             \/ \E d \in WallHook : Receive(h, d)
             \/ MergeActivity(h) \/ LockWall(h) \/ ReadSignals(h) \/ Answer(h) \/ Abort(h)
      PROVE  WallInv' /\ UNCHANGED <<wallAccepted, news>>
  BY <1>3, RequestGoesOn
<1>4. QED  BY <1>1, <1>2, <1>3 DEF WallNext

\* Requests, the lock and the signals of the wall always fit together.
THEOREM WallInvariance == WallSpec => []WallInv
<1>1. WallInit => WallInv
  BY WallStarts
<1>2. WallInv /\ [WallNext]_wallVars => WallInv'
  BY WallGoesOn
<1>3. QED  BY <1>1, <1>2, PTL DEF WallSpec

\* The wall shows a latest observation whatever the order of arrival, GitHub is told of
\* success only when everything is stored, and no news comes from an older run.
THEOREM WallIsSafe == WallSpec => WallSafe
<1>1. WallInv => ShowsLatest /\ AnsweredIsStored
  <2>1. SUFFICES ASSUME WallInv PROVE ShowsLatest /\ AnsweredIsStored
    OBVIOUS
  <2>2. QED  BY <2>1, LatestShown DEF WallInv
<1>2. WallInv /\ [WallNext]_wallVars =>
        [\A n \in news' \ news : \E d \in wallAccepted' \ wallAccepted :
           /\ report[d].key = n.key /\ report[d].result = n.result
           /\ report[d].kind = "pipeline" => \A k \in Key : signal[k].at <= report[d].at]_wallVars
  BY WallGoesOn
<1>3. WallSpec => []WallInv
  BY WallInvariance
<1>4. QED  BY <1>1, <1>2, <1>3, PTL DEF WallSpec, WallSafe, NewsIsFresh

-----------------------------------------------------------------------------
(* What GitHub tells of one thing (WallSignals). *)

Statuses ==
  {"queued", "requested", "in_progress", "completed", "pending", "success", "error", "failure",
   "inactive", "approved", "dismissed", "open", "closed", "merged", ""}
Shown ==
  {"queued", "running", "passing", "failing", "cancelled", "neutral", "successful", "inactive"} \cup Statuses

Reported ==
  [kind : {"check_run", "workflow_run", "status", "deployment", "deployment_status",
           "pull_request", "pull_request_review"},
   status : Statuses, conclusion : Conclusions \cup {""},
   began : Instant, ended : Instant, changed : Instant, made : Instant]

\* When it is observed if it says when.
OwnTime(p) == IF p.ended # 0 THEN p.ended ELSE FirstOf(p.changed, p.began)

\* Nothing tells of a time to come, and what has a time of its own has the time it was made.
PayloadFits(p) ==
  /\ p \in Reported
  /\ p.made # 0 /\ p.began <= p.made /\ p.ended <= p.made /\ p.changed <= p.made
  /\ p.kind # "pull_request_review" =>
       /\ Tells(p) /\ HasTime(p) => OwnTime(p) = p.made
       /\ ResultOf(p) # "dismissed"
  /\ p.kind = "pull_request" => p.status \in {"open", "closed", "merged"}
  /\ p.kind = "pull_request_review" =>
       p.status \in {"approved", "dismissed"} /\ p.ended = 0 /\ p.changed = 0

\* The life of a review: it is approved and then dismissed.
ReviewLife ==
  \A i \in 1 .. Len(life) :
    /\ life[i].kind = "pull_request_review" <=> life[1].kind = "pull_request_review"
    /\ life[i].kind = "pull_request_review" =>
         /\ life[i].status = IF i = 1 THEN "approved" ELSE "dismissed"
         /\ i <= 2 /\ life[i].began = life[1].began

\* The row is a newest of what came, and a dismissal stands.
RowFits ==
  (\A i \in came : HasTime(life[i])) =>
    \/ came = {} /\ shownRow = NoSignal
    \/ /\ shownRow.result = "dismissed"
       /\ \E i \in came : ResultOf(life[i]) = "dismissed"
    \/ /\ \A i \in came : ResultOf(life[i]) # "dismissed"
       /\ \E j \in came :
            /\ shownRow.at = OwnTime(life[j]) /\ shownRow.result = ResultOf(life[j])
            /\ \A i \in came : OwnTime(life[i]) <= OwnTime(life[j])

ReportsInv ==
  /\ instant \in 1 .. MaxInstant
  /\ life \in Seq(Reported) /\ Len(life) <= MaxSteps
  /\ \A i \in 1 .. Len(life) : PayloadFits(life[i]) /\ life[i].made <= instant
  /\ ReviewLife
  /\ came \subseteq 1 .. Len(life)
  /\ shownRow \in [at : Instant, result : Shown \cup {"none"}]
  /\ shownRow.result \in {ResultOf(life[i]) : i \in came} \cup {"none"}
  /\ RowFits

LEMMA Results ==
  ASSUME NEW p \in Reported
  PROVE  /\ ResultOf(p) \in Shown
         /\ p.kind \notin {"pull_request", "pull_request_review"} => ResultOf(p) # "dismissed"
         /\ p.kind \in {"pull_request", "pull_request_review"} => ResultOf(p) = p.status
<1>1. CASE p.kind \in {"check_run", "workflow_run", "status"}
  <2>1. ResultOf(p) = PipelineStatus(p.status, p.conclusion)
    BY <1>1 DEF ResultOf
  <2>2. PipelineStatus(p.status, p.conclusion) \in
          {"queued", "running", "passing", "failing", "cancelled", "neutral"}
    BY DEF PipelineStatus
  <2>3. QED  BY <1>1, <2>1, <2>2 DEF Shown
<1>2. CASE p.kind = "deployment"
  BY <1>2 DEF ResultOf, Shown
<1>3. CASE p.kind = "deployment_status"
  <2>1. ResultOf(p) = DeploymentStatusOf(p.status)
    BY <1>3 DEF ResultOf
  <2>2. DeploymentStatusOf(p.status) \in {"running", "successful", "failing", "inactive"}
    BY DEF DeploymentStatusOf
  <2>3. QED  BY <1>3, <2>1, <2>2 DEF Shown
<1>4. CASE p.kind \in {"pull_request", "pull_request_review"}
  <2>1. ResultOf(p) = p.status
    BY <1>4 DEF ResultOf
  <2>2. QED  BY <1>4, <2>1 DEF Reported, Shown
<1>5. QED  BY <1>1, <1>2, <1>3, <1>4 DEF Reported

LEMMA Now ==
  ASSUME instant \in 1 .. MaxInstant
  PROVE  0 \in Instant /\ instant \in Instant /\ instant # 0 /\ 0 <= instant /\ instant <= instant
BY WallReportsAssumption DEF Instant

LEMMA Earlier ==
  ASSUME NEW x \in Instant, NEW y \in Instant, NEW z \in 1 .. MaxInstant, x <= y, y <= z
  PROVE  x <= z
BY WallReportsAssumption DEF Instant

\* A report with these fields.
Says(p, kind, status, conclusion, began, ended, changed, made) ==
  /\ p \in Reported
  /\ p.kind = kind /\ p.status = status /\ p.conclusion = conclusion
  /\ p.began = began /\ p.ended = ended /\ p.changed = changed /\ p.made = made

LEMMA PayloadSays ==
  ASSUME instant \in Instant,
         NEW kind \in {"check_run", "workflow_run", "status", "deployment", "deployment_status",
                       "pull_request", "pull_request_review"},
         NEW status \in Statuses, NEW conclusion \in Conclusions \cup {""},
         NEW began \in Instant, NEW ended \in Instant, NEW changed \in Instant
  PROVE  Says(Payload(kind, status, conclusion, began, ended, changed),
              kind, status, conclusion, began, ended, changed, instant)
BY DEF Payload, Reported, Says

\* What a new report has to be so that it fits (PayloadFits).
NewFits(p) ==
  /\ p \in Reported /\ p.made = instant
  /\ p.began <= instant /\ p.ended <= instant /\ p.changed <= instant
  /\ p.kind # "pull_request_review" /\ Tells(p) => OwnTime(p) = instant
  /\ p.kind = "pull_request" => p.status \in {"open", "closed", "merged"}
  /\ p.kind = "pull_request_review" =>
       p.status \in {"approved", "dismissed"} /\ p.ended = 0 /\ p.changed = 0

LEMMA NewFitting ==
  ASSUME instant \in 1 .. MaxInstant, NEW p, NewFits(p)
  PROVE  PayloadFits(p)
<1>1. p \in Reported
  BY DEF NewFits
<1>2. p.kind # "pull_request_review" => ResultOf(p) # "dismissed"
  BY <1>1, Results DEF NewFits
<1>3. instant # 0
  BY Now
<1>4. QED  BY <1>1, <1>2, <1>3 DEF NewFits, PayloadFits

\* What a check that has not ended tells.
LEMMA Silent ==
  ASSUME instant \in 1 .. MaxInstant, NEW status \in Statuses \ {"completed"}, NEW b \in Instant,
         b <= instant, NEW p, Says(p, "check_run", status, "", b, 0, 0, instant)
  PROVE  NewFits(p)
<1>1. ~Tells(p)
  BY DEF Says, Tells
<1>2. 0 <= instant
  BY Now
<1>3. QED  BY <1>1, <1>2 DEF Says, NewFits

\* What tells of a change, a start or an end that is now.
LEMMA Timed ==
  ASSUME instant \in 1 .. MaxInstant,
         NEW kind \in {"check_run", "workflow_run", "status", "deployment", "deployment_status", "pull_request"},
         NEW status \in Statuses, NEW conclusion \in Conclusions \cup {""},
         kind = "pull_request" => status \in {"open", "closed", "merged"},
         NEW b \in Instant, NEW e \in {0, instant}, NEW c \in {0, instant},
         b <= instant, e = instant \/ c = instant \/ b = instant,
         NEW p, Says(p, kind, status, conclusion, b, e, c, instant)
  PROVE  NewFits(p)
<1>1. 0 <= instant /\ instant # 0 /\ instant <= instant
  BY Now
<1>2. OwnTime(p) = instant
  BY <1>1 DEF Says, OwnTime, FirstOf
<1>3. p \in Reported /\ p.made = instant /\ p.began <= instant /\ p.ended <= instant /\ p.changed <= instant
  <2>1. e <= instant /\ c <= instant
    BY <1>1
  <2>2. QED  BY <2>1 DEF Says
<1>4. p.kind # "pull_request_review" /\ (p.kind = "pull_request" => p.status \in {"open", "closed", "merged"})
  BY DEF Says
<1>5. QED  BY <1>2, <1>3, <1>4 DEF NewFits

\* What tells of a review.
LEMMA Reviewed ==
  ASSUME instant \in 1 .. MaxInstant, NEW status \in {"approved", "dismissed"},
         NEW b \in Instant, b <= instant,
         NEW p, Says(p, "pull_request_review", status, "", b, 0, 0, instant)
  PROVE  NewFits(p)
<1>1. 0 <= instant
  BY Now
<1>2. QED  BY <1>1 DEF Says, NewFits

LEMMA BirthFits ==
  ASSUME instant \in 1 .. MaxInstant, NEW p \in Births
  PROVE  /\ PayloadFits(p) /\ p.made = instant
         /\ p.kind = "pull_request_review" => p.status = "approved"
<1>0. /\ 0 \in Instant /\ instant \in Instant /\ instant # 0 /\ 0 <= instant /\ instant <= instant
      /\ {"queued", "requested", "pending", "", "open", "approved"} \subseteq Statuses
      /\ "" \in Conclusions \cup {""}
  BY Now DEF Statuses
<1>1. PICK b \in {0, instant} :
        \/ p = Payload("check_run", "queued", "", b, 0, 0)
        \/ p = Payload("workflow_run", "requested", "", instant, 0, instant)
        \/ p = Payload("status", "pending", "", instant, 0, b)
        \/ p = Payload("deployment", "", "", 0, 0, instant)
        \/ p = Payload("pull_request", "open", "", instant, 0, instant)
        \/ p = Payload("pull_request_review", "approved", "", instant, 0, 0)
  BY DEF Births
<1>2. b \in Instant /\ b <= instant
  BY <1>0, <1>1
<1>3. NewFits(p) /\ (p.kind = "pull_request_review" => p.status = "approved")
  <2>1. CASE p = Payload("check_run", "queued", "", b, 0, 0)
    <3>1. Says(p, "check_run", "queued", "", b, 0, 0, instant)
      BY <1>0, <1>2, <2>1, PayloadSays
    <3>2. NewFits(p)
      BY <1>0, <1>2, <3>1, Silent
    <3>3. QED  BY <3>1, <3>2 DEF Says
  <2>2. CASE p = Payload("workflow_run", "requested", "", instant, 0, instant)
    <3>1. Says(p, "workflow_run", "requested", "", instant, 0, instant, instant)
      BY <1>0, <2>2, PayloadSays
    <3>2. NewFits(p)
      BY <1>0, <3>1, Timed
    <3>3. QED  BY <3>1, <3>2 DEF Says
  <2>3. CASE p = Payload("status", "pending", "", instant, 0, b)
    <3>1. Says(p, "status", "pending", "", instant, 0, b, instant)
      BY <1>0, <1>2, <2>3, PayloadSays
    <3>2. NewFits(p)
      BY <1>0, <1>1, <3>1, Timed
    <3>3. QED  BY <3>1, <3>2 DEF Says
  <2>4. CASE p = Payload("deployment", "", "", 0, 0, instant)
    <3>1. Says(p, "deployment", "", "", 0, 0, instant, instant)
      BY <1>0, <2>4, PayloadSays
    <3>2. NewFits(p)
      BY <1>0, <3>1, Timed
    <3>3. QED  BY <3>1, <3>2 DEF Says
  <2>5. CASE p = Payload("pull_request", "open", "", instant, 0, instant)
    <3>1. Says(p, "pull_request", "open", "", instant, 0, instant, instant)
      BY <1>0, <2>5, PayloadSays
    <3>2. NewFits(p)
      BY <1>0, <3>1, Timed
    <3>3. QED  BY <3>1, <3>2 DEF Says
  <2>6. CASE p = Payload("pull_request_review", "approved", "", instant, 0, 0)
    <3>1. Says(p, "pull_request_review", "approved", "", instant, 0, 0, instant)
      BY <1>0, <2>6, PayloadSays
    <3>2. NewFits(p)
      BY <1>0, <3>1, Reviewed
    <3>3. QED  BY <3>1, <3>2 DEF Says
  <2>7. QED  BY <1>1, <2>1, <2>2, <2>3, <2>4, <2>5, <2>6
<1>4. PayloadFits(p)
  BY <1>3, NewFitting
<1>5. QED  BY <1>3, <1>4 DEF NewFits

LEMMA StepFits ==
  ASSUME instant \in 1 .. MaxInstant, NEW q, PayloadFits(q), q.made <= instant, NEW p \in StepsAfter(q)
  PROVE  /\ PayloadFits(p) /\ p.made = instant
         /\ p.kind = "pull_request_review" <=> q.kind = "pull_request_review"
         /\ p.kind = "pull_request_review" =>
              q.status = "approved" /\ p.status = "dismissed" /\ p.began = q.began
<1> DEFINE Follows ==
      /\ NewFits(p)
      /\ p.kind = "pull_request_review" <=> q.kind = "pull_request_review"
      /\ p.kind = "pull_request_review" =>
           q.status = "approved" /\ p.status = "dismissed" /\ p.began = q.began
<1>0. /\ 0 \in Instant /\ instant \in Instant /\ instant # 0 /\ 0 <= instant /\ instant <= instant
      /\ {"in_progress", "completed", "requested", "pending", "success", "error", "failure",
          "inactive", "open", "closed", "merged", "dismissed"} \subseteq Statuses
      /\ "" \in Conclusions \cup {""} /\ Conclusions \subseteq Conclusions \cup {""}
  BY Now DEF Statuses
<1>1. q \in Reported /\ q.began \in Instant /\ q.began <= instant
  <2>1. q \in Reported /\ q.began <= q.made
    BY DEF PayloadFits
  <2>2. q.began \in Instant /\ q.made \in Instant
    BY <2>1 DEF Reported
  <2>3. QED  BY <2>1, <2>2, Earlier
<1> SUFFICES Follows
  <2>1. ASSUME Follows PROVE PayloadFits(p)
    BY <2>1, NewFitting
  <2>2. QED  BY <2>1 DEF NewFits
<1>2. CASE q.kind = "check_run"
  <2>1. CASE q.status = "queued"
    <3>1. p = Payload("check_run", "in_progress", "", q.began, 0, 0)
      BY <1>2, <2>1 DEF StepsAfter
    <3>2. Says(p, "check_run", "in_progress", "", q.began, 0, 0, instant)
      BY <1>0, <1>1, <3>1, PayloadSays
    <3>3. NewFits(p)
      BY <1>0, <1>1, <3>2, Silent
    <3>4. QED  BY <1>2, <3>2, <3>3 DEF Says
  <2>2. CASE q.status = "in_progress"
    <3>1. PICK c \in Conclusions : p = Payload("check_run", "completed", c, q.began, instant, 0)
      BY <1>2, <2>2 DEF StepsAfter
    <3>2. Says(p, "check_run", "completed", c, q.began, instant, 0, instant)
      BY <1>0, <1>1, <3>1, PayloadSays
    <3>3. NewFits(p)
      BY <1>0, <1>1, <3>2, Timed
    <3>4. QED  BY <1>2, <3>2, <3>3 DEF Says
  <2>3. CASE q.status \notin {"queued", "in_progress"}
    BY <1>2, <2>3 DEF StepsAfter
  <2>4. QED  BY <2>1, <2>2, <2>3
<1>3. CASE q.kind = "workflow_run"
  <2>1. \/ p = Payload("workflow_run", "requested", "", instant, 0, instant)
        \/ \E c \in Conclusions : p = Payload("workflow_run", "completed", c, q.began, 0, instant)
        \/ p = Payload("workflow_run", "in_progress", "", q.began, 0, instant)
    BY <1>3 DEF StepsAfter
  <2>2. PICK s \in Statuses, c \in Conclusions \cup {""}, b \in Instant :
          b <= instant /\ p = Payload("workflow_run", s, c, b, 0, instant)
    BY <1>0, <1>1, <2>1
  <2>3. Says(p, "workflow_run", s, c, b, 0, instant, instant)
    BY <1>0, <2>2, PayloadSays
  <2>4. NewFits(p)
    <3>1. b <= instant
      BY <2>2
    <3>2. QED  BY <1>0, <2>3, <3>1, Timed
  <2>5. QED  BY <1>3, <2>3, <2>4 DEF Says
<1>4. CASE q.kind = "status"
  <2>1. PICK s \in {"pending", "success", "error"}, c \in {0, instant} :
          p = Payload("status", s, "", instant, 0, c)
    BY <1>4 DEF StepsAfter
  <2>2. Says(p, "status", s, "", instant, 0, c, instant)
    BY <1>0, <2>1, PayloadSays
  <2>3. NewFits(p)
    <3>1. s \in Statuses
      BY <1>0, <2>1
    <3>2. QED  BY <1>0, <2>2, <3>1, Timed
  <2>4. QED  BY <1>4, <2>2, <2>3 DEF Says
<1>5. CASE q.kind \in {"deployment", "deployment_status"}
  <2>1. PICK s \in {"in_progress", "success", "failure", "inactive"} :
          p = Payload("deployment_status", s, "", 0, 0, instant)
    BY <1>5 DEF StepsAfter
  <2>2. Says(p, "deployment_status", s, "", 0, 0, instant, instant)
    BY <1>0, <2>1, PayloadSays
  <2>3. NewFits(p)
    <3>1. s \in Statuses
      BY <1>0, <2>1
    <3>2. QED  BY <1>0, <2>2, <3>1, Timed
  <2>4. QED  BY <1>5, <2>2, <2>3 DEF Says
<1>6. CASE q.kind = "pull_request"
  <2>1. PICK s \in {"open", "closed", "merged"} : p = Payload("pull_request", s, "", q.began, 0, instant)
    BY <1>6 DEF StepsAfter
  <2>2. Says(p, "pull_request", s, "", q.began, 0, instant, instant)
    BY <1>0, <1>1, <2>1, PayloadSays
  <2>3. NewFits(p)
    BY <1>0, <1>1, <2>1, <2>2, Timed
  <2>4. QED  BY <1>6, <2>2, <2>3 DEF Says
<1>7. CASE q.kind = "pull_request_review"
  <2>1. q.status = "approved" /\ p = Payload("pull_request_review", "dismissed", "", q.began, 0, 0)
    BY <1>7 DEF StepsAfter
  <2>2. Says(p, "pull_request_review", "dismissed", "", q.began, 0, 0, instant)
    BY <1>0, <1>1, <2>1, PayloadSays
  <2>3. NewFits(p)
    BY <1>0, <1>1, <2>2, Reviewed
  <2>4. QED  BY <1>7, <2>1, <2>2, <2>3 DEF Says
<1>8. q.kind \in {"check_run", "workflow_run", "status", "deployment", "deployment_status",
                  "pull_request", "pull_request_review"}
  BY <1>1 DEF Reported
<1>9. QED  BY <1>2, <1>3, <1>4, <1>5, <1>6, <1>7, <1>8

-----------------------------------------------------------------------------
\* The report that GitHub adds.
LEMMA ReportsGrow ==
  ASSUME ReportsInv, GitHubReports
  PROVE  ReportsInv'
<1>1. /\ instant \in 1 .. MaxInstant /\ life \in Seq(Reported) /\ Len(life) \in Nat
      /\ instant' = instant /\ came' = came /\ shownRow' = shownRow /\ Len(life) < MaxSteps
      /\ \A i \in 1 .. Len(life) : PayloadFits(life[i]) /\ life[i].made <= instant
      /\ came \subseteq 1 .. Len(life)
  BY DEF ReportsInv, GitHubReports
<1>2. PICK p \in IF life = <<>> THEN Births ELSE StepsAfter(life[Len(life)]) : life' = Append(life, p)
  BY DEF GitHubReports
<1>3. /\ PayloadFits(p) /\ p.made = instant
      /\ life = <<>> => (p.kind = "pull_request_review" => p.status = "approved")
      /\ life # <<>> =>
           /\ p.kind = "pull_request_review" <=> life[Len(life)].kind = "pull_request_review"
           /\ p.kind = "pull_request_review" =>
                /\ life[Len(life)].status = "approved" /\ p.status = "dismissed"
                /\ p.began = life[Len(life)].began
  <2>1. CASE life = <<>>
    BY <1>1, <1>2, <2>1, BirthFits
  <2>2. CASE life # <<>>
    <3>1. Len(life) \in 1 .. Len(life)
      BY <1>1, <2>2
    <3>2. PayloadFits(life[Len(life)]) /\ life[Len(life)].made <= instant
      BY <1>1, <3>1
    <3>3. p \in StepsAfter(life[Len(life)])
      BY <1>2, <2>2
    <3>4. QED  BY <1>1, <2>2, <3>2, <3>3, StepFits
  <2>3. QED  BY <2>1, <2>2
<1>4. /\ life' \in Seq(Reported) /\ Len(life') = Len(life) + 1
      /\ life'[Len(life) + 1] = p /\ \A i \in 1 .. Len(life) : life'[i] = life[i]
  BY <1>1, <1>2, <1>3 DEF PayloadFits
<1>5. Len(life') <= MaxSteps
  BY <1>1, <1>4, WallReportsAssumption
<1>6. \A i \in 1 .. Len(life') : PayloadFits(life'[i]) /\ life'[i].made <= instant'
  <2>1. ASSUME NEW i \in 1 .. Len(life') PROVE i \in 1 .. Len(life) \/ i = Len(life) + 1
    BY <1>1, <1>4
  <2>2. p.made <= instant
    BY <1>1, <1>3, Now
  <2>3. QED  BY <1>1, <1>3, <1>4, <2>1, <2>2
<1>7. ReviewLife'
  <2>1. ReviewLife
    BY DEF ReportsInv
  <2> SUFFICES ASSUME NEW i \in 1 .. Len(life')
               PROVE  /\ life'[i].kind = "pull_request_review" <=> life'[1].kind = "pull_request_review"
                      /\ life'[i].kind = "pull_request_review" =>
                           /\ life'[i].status = IF i = 1 THEN "approved" ELSE "dismissed"
                           /\ i <= 2 /\ life'[i].began = life'[1].began
    BY DEF ReviewLife
  <2>2. CASE i \in 1 .. Len(life)
    <3>1. 1 \in 1 .. Len(life) /\ life'[i] = life[i] /\ life'[1] = life[1]
      BY <1>1, <1>4, <2>2
    <3>2. QED  BY <2>1, <2>2, <3>1 DEF ReviewLife
  <2>3. CASE life = <<>>
    <3>1. i = 1
      BY <1>1, <1>4, <2>3
    <3>2. life'[1] = p
      BY <1>4, <2>3
    <3>3. QED  BY <1>3, <2>3, <3>1, <3>2
  <2>4. CASE life # <<>> /\ i = Len(life) + 1
    <3> DEFINE n == Len(life)
    <3>1. n \in 1 .. Len(life) /\ n >= 1 /\ life'[1] = life[1] /\ life'[i] = p /\ i = n + 1 /\ n \in Nat
      BY <1>1, <1>4, <2>4
    <3>2. /\ life[n].kind = "pull_request_review" <=> life[1].kind = "pull_request_review"
          /\ life[n].kind = "pull_request_review" =>
               /\ life[n].status = IF n = 1 THEN "approved" ELSE "dismissed"
               /\ n <= 2 /\ life[n].began = life[1].began
      BY <2>1, <3>1 DEF ReviewLife
    <3>3. /\ p.kind = "pull_request_review" <=> life[n].kind = "pull_request_review"
          /\ p.kind = "pull_request_review" =>
               life[n].status = "approved" /\ p.status = "dismissed" /\ p.began = life[n].began
      BY <1>3, <2>4
    <3> HIDE DEF n
    <3>4. p.kind = "pull_request_review" => n = 1
      BY <3>2, <3>3
    <3>5. QED  BY <3>1, <3>2, <3>3, <3>4
  <2>5. QED  BY <1>1, <1>4, <2>2, <2>3, <2>4
<1>8. /\ came' \subseteq 1 .. Len(life')
      /\ shownRow' \in [at : Instant, result : Shown \cup {"none"}]
      /\ shownRow'.result \in {ResultOf(life'[i]) : i \in came'} \cup {"none"}
  <2>1. \A i \in came : life'[i] = life[i]
    BY <1>1, <1>4
  <2>2. shownRow.result \in {ResultOf(life[i]) : i \in came} \cup {"none"}
    BY DEF ReportsInv
  <2>3. {ResultOf(life'[i]) : i \in came} = {ResultOf(life[i]) : i \in came}
    BY <2>1
  <2>4. QED  BY <1>1, <1>4, <2>2, <2>3 DEF ReportsInv
<1>9. RowFits'
  <2>1. \A i \in came : life'[i] = life[i]
    BY <1>1, <1>4
  <2>2. RowFits
    BY DEF ReportsInv
  <2>3. QED  BY <1>1, <2>1, <2>2 DEF RowFits
<1>10. QED  BY <1>1, <1>4, <1>5, <1>6, <1>7, <1>8, <1>9 DEF ReportsInv

\* Of two observations the later one, and a dismissal over any.
LEMMA KeptRow ==
  ASSUME NEW row \in [at : Instant, result : Shown \cup {"none"}], NEW at \in Instant, NEW result \in Shown
  PROVE  /\ Kept(row, at, result) \in [at : Instant, result : Shown \cup {"none"}]
         /\ Kept(row, at, result) = row \/ Kept(row, at, result) = [at |-> at, result |-> result]
BY DEF Kept

\* The time of observation, of a report that says when.
LEMMA ObservedThen ==
  ASSUME NEW p, PayloadFits(p), NEW now \in 1 .. MaxInstant
  PROVE  /\ ObservedAt(p, now) \in Instant /\ OwnTime(p) \in Instant
         /\ HasTime(p) => ObservedAt(p, now) = OwnTime(p)
         /\ p.made \in Instant /\ OwnTime(p) <= p.made
<1>1. p.began \in Instant /\ p.ended \in Instant /\ p.changed \in Instant /\ p.made \in Instant
  BY DEF PayloadFits, Reported
<1>2. now \in Instant /\ 0 \in Instant
  BY WallReportsAssumption DEF Instant
<1>3. p.began <= p.made /\ p.ended <= p.made /\ p.changed <= p.made
  BY DEF PayloadFits
<1>4. QED  BY <1>1, <1>2, <1>3 DEF ObservedAt, OwnTime, Timestamp, FirstOf, HasTime

\* Only a dismissed review shows dismissed, and then all is about that review.
LEMMA DismissedFits ==
  ASSUME ReportsInv, NEW i \in 1 .. Len(life), ResultOf(life[i]) = "dismissed", NEW j \in 1 .. Len(life)
  PROVE  /\ life[j].kind = "pull_request_review" /\ i = 2
         /\ OwnTime(life[i]) = OwnTime(life[j])
         /\ j = 2 => ResultOf(life[j]) = "dismissed"
<1>1. /\ PayloadFits(life[i]) /\ PayloadFits(life[j]) /\ ReviewLife /\ 1 \in 1 .. Len(life)
  BY DEF ReportsInv
<1>2. life[i].kind = "pull_request_review"
  BY <1>1 DEF PayloadFits
<1>3. life[j].kind = "pull_request_review"
  BY <1>1, <1>2 DEF ReviewLife
<1>4. life[i].status = "dismissed" /\ ResultOf(life[j]) = life[j].status
  BY <1>1, <1>2, <1>3, Results DEF PayloadFits
<1>5. i = 2
  BY <1>1, <1>2, <1>4 DEF ReviewLife
<1>6. j = 2 => life[j].status = "dismissed"
  BY <1>1, <1>3 DEF ReviewLife
<1>7. OwnTime(life[i]) = life[i].began /\ OwnTime(life[j]) = life[j].began
  BY <1>1, <1>2, <1>3 DEF PayloadFits, OwnTime, FirstOf
<1>8. life[i].began = life[1].began /\ life[j].began = life[1].began
  BY <1>1, <1>2, <1>3 DEF ReviewLife
<1>9. QED  BY <1>3, <1>4, <1>5, <1>6, <1>7, <1>8

LEMMA ReportLands ==
  ASSUME ReportsInv, NEW i \in 1 .. MaxSteps, ReportArrives(i)
  PROVE  ReportsInv'
<1> DEFINE at  == ObservedAt(life[i], instant)
           res == ResultOf(life[i])
<1>1. /\ instant \in 1 .. MaxInstant /\ came \subseteq 1 .. Len(life) /\ life \in Seq(Reported)
      /\ shownRow \in [at : Instant, result : Shown \cup {"none"}]
      /\ instant' = instant /\ life' = life /\ came' = came \cup {i}
      /\ shownRow' = Kept(shownRow, at, res)
      /\ i \in 1 .. Len(life) /\ RowFits
      /\ \A k \in 1 .. Len(life) : PayloadFits(life[k])
  BY DEF ReportsInv, ReportArrives
<1>2. /\ at \in Instant /\ res \in Shown /\ OwnTime(life[i]) \in Instant
      /\ HasTime(life[i]) => at = OwnTime(life[i])
  BY <1>1, ObservedThen, Results DEF PayloadFits
<1> HIDE DEF at, res
<1>3. /\ shownRow' \in [at : Instant, result : Shown \cup {"none"}]
      /\ shownRow' = shownRow \/ shownRow' = [at |-> at, result |-> res]
  BY <1>1, <1>2, KeptRow
<1>4. shownRow'.result \in {ResultOf(life'[k]) : k \in came'} \cup {"none"}
  <2>1. shownRow.result \in {ResultOf(life[k]) : k \in came} \cup {"none"}
    BY DEF ReportsInv
  <2>2. res \in {ResultOf(life[k]) : k \in came'}
    BY <1>1 DEF res
  <2>3. QED  BY <1>1, <1>3, <2>1, <2>2
<1>5. RowFits'
  <2> SUFFICES ASSUME \A k \in came' : HasTime(life'[k])
               PROVE  \/ came' = {} /\ shownRow' = NoSignal
                      \/ /\ shownRow'.result = "dismissed"
                         /\ \E k \in came' : ResultOf(life'[k]) = "dismissed"
                      \/ /\ \A k \in came' : ResultOf(life'[k]) # "dismissed"
                         /\ \E j \in came' :
                              /\ shownRow'.at = OwnTime(life'[j]) /\ shownRow'.result = ResultOf(life'[j])
                              /\ \A k \in came' : OwnTime(life'[k]) <= OwnTime(life'[j])
    BY DEF RowFits
  <2>1. /\ \A k \in came : HasTime(life[k])
        /\ at = OwnTime(life[i]) /\ i \in came' /\ life' = life /\ \A k \in came' : k \in came \/ k = i
        /\ \A k \in came' : k \in 1 .. Len(life)
    BY <1>1, <1>2
  <2>2. \A k \in came' : OwnTime(life[k]) \in Instant /\ OwnTime(life[k]) <= OwnTime(life[k])
    <3>1. ASSUME NEW k \in came' PROVE OwnTime(life[k]) \in Instant
      BY <1>1, <2>1, ObservedThen
    <3>2. QED  BY <3>1 DEF Instant
  <2>3. CASE came = {} /\ shownRow = NoSignal
    <3>1. shownRow.at = 0 /\ shownRow.result = "none" /\ 0 <= at
      BY <1>2, <2>3 DEF NoSignal, Instant
    <3>2. shownRow' = [at |-> at, result |-> res]
      BY <1>1, <3>1 DEF Kept
    <3>3. shownRow'.at = at /\ shownRow'.result = res
      BY <3>2
    <3>4. CASE res = "dismissed"
      BY <2>1, <3>3, <3>4 DEF res
    <3>5. CASE res # "dismissed"
      <4>1. \A k \in came' : k = i
        BY <2>1, <2>3
      <4>2. QED  BY <2>1, <2>2, <3>3, <3>5, <4>1 DEF res
    <3>6. QED  BY <3>4, <3>5
  <2>4. CASE shownRow.result = "dismissed" /\ \E k \in came : ResultOf(life[k]) = "dismissed"
    <3>1. shownRow'.result = "dismissed"
      BY <1>1, <2>4 DEF Kept
    <3>2. QED  BY <1>1, <2>1, <2>4, <3>1
  <2>5. ASSUME \A k \in came : ResultOf(life[k]) # "dismissed",
               NEW j \in came, shownRow.at = OwnTime(life[j]), shownRow.result = ResultOf(life[j]),
               \A k \in came : OwnTime(life[k]) <= OwnTime(life[j])
        PROVE  \/ /\ shownRow'.result = "dismissed"
                  /\ \E k \in came' : ResultOf(life'[k]) = "dismissed"
               \/ /\ \A k \in came' : ResultOf(life'[k]) # "dismissed"
                  /\ \E k \in came' :
                       /\ shownRow'.at = OwnTime(life'[k]) /\ shownRow'.result = ResultOf(life'[k])
                       /\ \A h \in came' : OwnTime(life'[h]) <= OwnTime(life'[k])
    <3>0. shownRow.result # "dismissed" /\ j \in came' /\ j \in 1 .. Len(life)
      BY <1>1, <2>5
    <3>1. CASE res = "dismissed"
      <4>1. OwnTime(life[i]) = OwnTime(life[j])
        BY <1>1, <3>0, <3>1, DismissedFits DEF res
      <4>2. shownRow.at <= at
        BY <2>1, <2>2, <2>5, <4>1
      <4>3. shownRow'.result = "dismissed"
        BY <1>1, <3>0, <3>1, <4>2 DEF Kept
      <4>4. QED  BY <2>1, <3>1, <4>3 DEF res
    <3>2. CASE res # "dismissed"
      <4>1. \A k \in came' : ResultOf(life'[k]) # "dismissed"
        BY <2>1, <2>5, <3>2 DEF res
      <4>2. CASE shownRow.at <= at
        <5>1. shownRow'.at = at /\ shownRow'.result = res
          BY <1>1, <3>0, <4>2 DEF Kept
        <5>2. ASSUME NEW h \in came' PROVE OwnTime(life[h]) <= OwnTime(life[i])
          <6>1. CASE h = i
            BY <2>1, <2>2, <6>1
          <6>2. CASE h \in came
            <7> DEFINE x == OwnTime(life[h])
                       y == OwnTime(life[j])
                       z == OwnTime(life[i])
            <7>1. x \in Instant /\ y \in Instant /\ z \in Instant /\ x <= y /\ y <= z
              <8>1. x \in Instant /\ y \in Instant /\ z \in Instant
                BY <2>1, <2>2, <3>0
              <8>2. x <= y
                BY <2>5, <6>2
              <8>3. y <= z
                BY <2>1, <2>5, <4>2
              <8>4. QED  BY <8>1, <8>2, <8>3
            <7> HIDE DEF x, y, z
            <7>2. x <= z
              BY <7>1 DEF Instant
            <7>3. QED  BY <7>2 DEF x, z
          <6>3. QED  BY <2>1, <6>1, <6>2
        <5>3. QED  BY <2>1, <4>1, <5>1, <5>2 DEF res
      <4>3. CASE ~(shownRow.at <= at)
        <5>1. shownRow' = shownRow
          BY <1>1, <4>3 DEF Kept
        <5>2. ASSUME NEW h \in came' PROVE OwnTime(life[h]) <= OwnTime(life[j])
          <6>1. CASE h = i
            <7> DEFINE y == OwnTime(life[j])
                       z == OwnTime(life[i])
            <7>1. y \in Instant /\ z \in Instant /\ ~(y <= z)
              BY <2>1, <2>2, <2>5, <3>0, <4>3
            <7> HIDE DEF y, z
            <7>2. z <= y
              BY <7>1 DEF Instant
            <7>3. QED  BY <6>1, <7>2 DEF y, z
          <6>2. CASE h \in came
            BY <2>5, <6>2
          <6>3. QED  BY <2>1, <6>1, <6>2
        <5>3. QED  BY <2>1, <2>5, <3>0, <4>1, <5>1, <5>2
      <4>4. QED  BY <4>2, <4>3
    <3>3. QED  BY <3>1, <3>2
  <2>6. QED  BY <1>1, <2>1, <2>3, <2>4, <2>5 DEF RowFits
<1>6. ReviewLife'
  BY <1>1 DEF ReviewLife, ReportsInv
<1>7. QED  BY <1>1, <1>3, <1>4, <1>5, <1>6 DEF ReportsInv

\* The steps of all that GitHub tells of one thing, in any order of arrival.
THEOREM ReportsInvariance == WallReportsSpec => []ReportsInv
<1>1. WallReportsInit => ReportsInv
  <2> SUFFICES ASSUME WallReportsInit PROVE ReportsInv
    OBVIOUS
  <2>1. /\ instant \in 1 .. MaxInstant /\ 0 \in Instant
        /\ life \in Seq(Reported) /\ Len(life) = 0 /\ Len(life) <= MaxSteps
        /\ came \subseteq 1 .. Len(life) /\ came = {}
        /\ \A i \in 1 .. Len(life) : FALSE
    BY WallReportsAssumption DEF WallReportsInit, Instant
  <2>2. shownRow \in [at : Instant, result : Shown \cup {"none"}] /\ shownRow.result = "none"
    BY <2>1 DEF WallReportsInit, NoSignal
  <2>3. ReviewLife
    BY <2>1 DEF ReviewLife
  <2>4. RowFits
    BY <2>1 DEF WallReportsInit, RowFits
  <2>5. QED  BY <2>1, <2>2, <2>3, <2>4 DEF ReportsInv
<1>2. ReportsInv /\ [WallReportsNext]_reportVars => ReportsInv'
  <2> SUFFICES ASSUME ReportsInv, [WallReportsNext]_reportVars PROVE ReportsInv'
    OBVIOUS
  <2>1. CASE TimeGoesOn
    <3>1. instant' \in 1 .. MaxInstant /\ instant < instant' /\ UNCHANGED <<life, came, shownRow>>
      BY <2>1, WallReportsAssumption DEF TimeGoesOn, ReportsInv
    <3>2. ASSUME NEW i \in 1 .. Len(life)
          PROVE  PayloadFits(life[i]) /\ life[i].made <= instant'
      <4>1. PayloadFits(life[i]) /\ life[i].made <= instant /\ instant \in 1 .. MaxInstant
        BY DEF ReportsInv
      <4>2. life[i].made \in Instant /\ instant \in Instant
        BY <4>1, Now DEF PayloadFits, Reported
      <4>3. instant <= instant'
        BY <3>1, <4>1, WallReportsAssumption
      <4>4. QED  BY <3>1, <4>1, <4>2, <4>3, Earlier DEF Instant
    <3>3. ReviewLife' /\ RowFits'
      BY <3>1 DEF ReportsInv, ReviewLife, RowFits
    <3>4. QED  BY <3>1, <3>2, <3>3 DEF ReportsInv
  <2>2. CASE GitHubReports
    BY <2>2, ReportsGrow
  <2>3. CASE \E i \in 1 .. MaxSteps : ReportArrives(i)
    BY <2>3, ReportLands
  <2>4. CASE UNCHANGED reportVars
    BY <2>4 DEF reportVars, ReportsInv, ReviewLife, RowFits
  <2>5. QED  BY <2>1, <2>2, <2>3, <2>4 DEF WallReportsNext
<1>3. QED  BY <1>1, <1>2, PTL DEF WallReportsSpec

\* The rows have their types.
THEOREM ReportsTyped == WallReportsSpec => []WallReportsTypeOK
<1>1. ReportsInv => WallReportsTypeOK
  BY DEF ReportsInv, WallReportsTypeOK
<1>2. QED  BY <1>1, ReportsInvariance, PTL

\* GitHub's last word about a thing stands, in whatever order its reports arrived.
THEOREM WallHearsTheLastWord == WallReportsSpec => []LastWordStands
<1>1. ReportsInv => LastWordStands
  <2> DEFINE n == Len(life)
  <2> SUFFICES ASSUME ReportsInv, n \in came, Tells(life[n]), \A i \in 1 .. n : HasTime(life[i]),
                      \A i \in 1 .. n - 1 : life[i].made < life[n].made
               PROVE  shownRow.result = ResultOf(life[n])
    BY DEF LastWordStands
  <2>1. /\ n \in 1 .. n /\ came \subseteq 1 .. n /\ n \in Nat
        /\ \A i \in 1 .. n : PayloadFits(life[i])
        /\ \A i \in came : HasTime(life[i])
    BY DEF ReportsInv
  <2>2. CASE shownRow.result = "dismissed" /\ \E i \in came : ResultOf(life[i]) = "dismissed"
    <3>1. PICK i \in came : ResultOf(life[i]) = "dismissed"
      BY <2>2
    <3>2. i \in 1 .. Len(life) /\ n \in 1 .. Len(life)
      BY <2>1
    <3>3. i = 2 /\ life[n].kind = "pull_request_review" /\ (n = 2 => ResultOf(life[n]) = "dismissed")
      BY <3>1, <3>2, DismissedFits
    <3>4. n <= 2
      BY <3>2, <3>3 DEF ReportsInv, ReviewLife
    <3>5. n = 2
      <4>1. 2 \in 1 .. n /\ n \in Nat
        BY <2>1, <3>2, <3>3
      <4> HIDE DEF n
      <4>2. QED  BY <3>4, <4>1
    <3>6. QED  BY <2>2, <3>3, <3>5
  <2>3. ASSUME \A i \in came : ResultOf(life[i]) # "dismissed",
               NEW j \in came, shownRow.result = ResultOf(life[j]),
               \A i \in came : OwnTime(life[i]) <= OwnTime(life[j])
        PROVE  shownRow.result = ResultOf(life[n])
    <3>1. CASE life[n].kind = "pull_request_review"
      <4>1. life[n].status # "dismissed"
        BY <2>1, <2>3, <3>1, Results DEF PayloadFits
      <4>2. n = 1
        BY <2>1, <3>1, <4>1 DEF ReportsInv, ReviewLife
      <4>3. j = n
        BY <2>1, <4>2
      <4>4. QED  BY <2>3, <4>3
    <3>2. CASE life[n].kind # "pull_request_review"
      <4>1. OwnTime(life[n]) = life[n].made
        BY <2>1, <3>2 DEF PayloadFits
      <4>2. j \in 1 .. n /\ OwnTime(life[n]) <= OwnTime(life[j])
        BY <2>1, <2>3
      <4>3. /\ OwnTime(life[j]) \in Instant /\ life[j].made \in Instant /\ life[n].made \in Instant
            /\ OwnTime(life[j]) <= life[j].made
        BY <2>1, <4>2, ObservedThen DEF ReportsInv
      <4>4. j = n
        <5> SUFFICES ASSUME j # n PROVE FALSE
          OBVIOUS
        <5>1. j \in 1 .. n - 1
          BY <2>1, <4>2
        <5>2. life[j].made < life[n].made
          BY <5>1
        <5>3. QED  BY <4>1, <4>2, <4>3, <5>2 DEF Instant
      <4>5. QED  BY <2>3, <4>4
    <3>3. QED  BY <3>1, <3>2
  <2>4. QED  BY <2>1, <2>2, <2>3 DEF ReportsInv, RowFits
<1>2. QED  BY <1>1, ReportsInvariance, PTL

-----------------------------------------------------------------------------
(* The stores together (MCStores): one of them runs, and the others stay as they are. *)

LEMMA EachPartRuns ==
  StoresSpec =>
    /\ SessionSpec /\ SyncSpec /\ ShareSpec /\ ReviewSpec /\ ActivitySpec
    /\ WorkspaceSpec /\ WallSpec /\ WallReportsSpec /\ EventIdsSpec
<1>1. StoresInit =>
        /\ SessionInit /\ SyncInit /\ ShareInit /\ ReviewInit /\ ActivityInit
        /\ WorkspaceInit /\ WallInit /\ WallReportsInit /\ EventIdsInit
  BY DEF StoresInit
<1>2. [StoresNext]_storesVars =>
        /\ [SessionNext]_sessionVars /\ [SyncNext]_syncVars /\ [ShareNext]_shareVars
        /\ [ReviewNext]_reviewVars /\ [ActivityNext]_activityVars
        /\ [WorkspaceNext]_workspaceVars /\ [WallNext]_wallVars
        /\ [WallReportsNext]_reportVars /\ [EventIdsNext]_idVars
  BY DEF StoresNext, storesVars
<1>3. QED
  BY <1>1, <1>2, PTL DEF StoresSpec, SessionSpec, SyncSpec, ShareSpec, ReviewSpec,
     ActivitySpec, WorkspaceSpec, WallSpec, WallReportsSpec, EventIdsSpec

\* Every variable of every store has its type.
THEOREM StoresTyped == StoresSpec => []StoresTypeOK
<1>1. SessionInv => SessionTypeOK
  BY DEF SessionInv
<1>2. SyncInv => SyncTypeOK
  BY DEF SyncInv
<1>3. ShareInv => ShareTypeOK
  BY DEF ShareInv
<1>4. ReviewInv => ReviewTypeOK
  BY DEF ReviewInv
<1>5. ActivityInv => ActivityTypeOK
  BY DEF ActivityInv
<1>6. WorkspaceInv => WorkspaceTypeOK
  BY DEF WorkspaceInv
<1>7. WallInv => WallTypeOK
  BY DEF WallInv
<1>8. EventIdsInv => EventIdsTypeOK
  BY DEF EventIdsInv, IdsFit, Counted, EventIdsTypeOK
<1>9. /\ SessionTypeOK /\ SyncTypeOK /\ ShareTypeOK /\ ReviewTypeOK /\ ActivityTypeOK
      /\ WorkspaceTypeOK /\ WallTypeOK /\ WallReportsTypeOK /\ EventIdsTypeOK
      => StoresTypeOK
  BY DEF StoresTypeOK
<1>10. QED
  BY <1>1, <1>2, <1>3, <1>4, <1>5, <1>6, <1>7, <1>8, <1>9, EachPartRuns, SessionInvariance,
     SyncInvariance, ShareInvariance, ReviewInvariance, ActivityInvariance,
     WorkspaceInvariance, WallInvariance, ReportsTyped, EventIdsInvariance, PTL

\* Sessions end and connections are made as they should, and a page shows what its reader
\* may see.
THEOREM AccountsAreSafe == StoresSpec => AccountsSafe
<1>1. WorkspacesSafe => (part = "workspaces" => WorkspacesSafe)
  OBVIOUS
<1>2. QED
  BY <1>1, EachPartRuns, SessionsAreSafe, WorkspacesAreSafe, PTL DEF AccountsSafe

\* An import leaves no gap before its mark (SyncRuns).
THEOREM StoresImportSafely == StoresSpec => ImportsSafe
BY EachPartRuns, ImportsAreSafe, PTL

\* A link shows what it and its creator's grant let be read (Shares).
THEOREM StoresShareSafely == StoresSpec => []SharesSafe
BY EachPartRuns, SharesAreSafe, PTL

\* A live claim on a review is one reviewer's, and pages do not go back (ReviewClaims).
THEOREM StoresReviewSafely == StoresSpec => ReviewsSafe
BY EachPartRuns, ReviewsAreSafe, PTL

\* What GitHub reports is one event and announced once, and the latest of it stands.
THEOREM EventsAreSafe == StoresSpec => EventsSafe
<1>1. LastWordStands => (part = "reports" => LastWordStands)
  OBVIOUS
<1>2. OneIdEach => (part = "ids" => OneIdEach)
  OBVIOUS
<1>3. QED
  BY <1>1, <1>2, EachPartRuns, ActivityIsSafe, WallIsSafe, WallHearsTheLastWord, IdsAreOwn, PTL
  DEF EventsSafe
=============================================================================
