----------------------------- MODULE Principals -----------------------------
(***************************************************************************)
(* Requests and streams of one browser as the server knows them (auth.ts,  *)
(* AuthService): the opaque session cookie names a row of the database,    *)
(* the identity provider's cookies a token that the provider verifies and  *)
(* may exchange for a newer one.  Answers come back in any order, with the *)
(* cookies they set, while the browser signs out and in as someone else.   *)
(***************************************************************************)
EXTENDS Naturals, FiniteSets

CONSTANTS
  Person, Nobody,     \* users of the identity provider
  Cookie, NoCookie,   \* session cookies, all distinct
  Asking,             \* requests under way
  MaxTurns            \* bound: requests sent, tokens expired

ASSUME PrincipalAssumption ==
  /\ Nobody \notin Person /\ NoCookie \notin Cookie
  /\ MaxTurns \in Nat

VARIABLES
  rowOf,         \* ship_live_auth_sessions: whose each was, and whether it is there
  provider,      \* the provider's newest token for each, and whether it holds
  held,          \* the browser's cookies
  asking,
  turns

principalVars == <<rowOf, provider, held, asking, turns>>

-----------------------------------------------------------------------------
NoToken == [user |-> Nobody, token |-> 0]

Tokens == [user : Person, token : 0 .. MaxTurns + 1] \cup {NoToken}

Unasked == [at |-> "none"]

\* set: the provider's cookies the answer carries; fresh: history, whether the session
\* was there when the data was read.
RequestUnderWay ==
  [at : {"local", "verify", "check", "read", "recheck", "last", "answered", "open"},
   stream : BOOLEAN, cookie : Cookie \cup {NoCookie}, token : Tokens,
   user : Person \cup {Nobody}, set : Tokens, fresh : BOOLEAN]

PrincipalTypeOK ==
  /\ rowOf \in [Cookie -> [user : Person \cup {Nobody}, live : BOOLEAN]]
  /\ provider \in [Person -> [token : 0 .. MaxTurns + 1, valid : BOOLEAN]]
  /\ held \in [cookie : Cookie \cup {NoCookie}, token : Tokens]
  /\ asking \in [Asking -> RequestUnderWay \cup {Unasked}]
  /\ turns \in 0 .. MaxTurns

PrincipalInit ==
  /\ rowOf = [c \in Cookie |-> [user |-> Nobody, live |-> FALSE]]
  /\ provider = [p \in Person |-> [token |-> 0, valid |-> FALSE]]
  /\ held = [cookie |-> NoCookie, token |-> NoToken]
  /\ asking = [q \in Asking |-> Unasked]
  /\ turns = 0

-----------------------------------------------------------------------------
(* The browser signs in, and out. *)

LiveRow(c) == c # NoCookie /\ rowOf[c].live

\* The callback replaces the session the browser had.
EnterAs(p, c) ==
  /\ rowOf[c].user = Nobody
  /\ rowOf' = [d \in Cookie |->
       IF d = c THEN [user |-> p, live |-> TRUE]
       ELSE IF d = held.cookie THEN [rowOf[d] EXCEPT !.live = FALSE] ELSE rowOf[d]]
  /\ provider[p].token <= MaxTurns
  /\ provider' = [provider EXCEPT ![p] = [token |-> @.token + 1, valid |-> TRUE]]
  /\ held' = [cookie |-> c, token |-> [user |-> p, token |-> provider'[p].token]]
  /\ UNCHANGED <<asking, turns>>

\* Local logout works without the provider, whose tokens may stay valid.
SignOut ==
  /\ LiveRow(held.cookie)
  /\ rowOf' = [rowOf EXCEPT ![held.cookie].live = FALSE]
  /\ held' = [cookie |-> NoCookie, token |-> NoToken]
  /\ \/ UNCHANGED provider
     \/ /\ held.token # NoToken
        /\ provider' = [provider EXCEPT ![held.token.user].valid = FALSE]
  /\ UNCHANGED <<asking, turns>>

SessionOver(c) ==
  /\ turns < MaxTurns /\ turns' = turns + 1
  /\ LiveRow(c)
  /\ rowOf' = [rowOf EXCEPT ![c].live = FALSE]
  /\ UNCHANGED <<provider, held, asking>>

TokenExpires(p) ==
  /\ turns < MaxTurns /\ turns' = turns + 1
  /\ provider[p].valid
  /\ provider' = [provider EXCEPT ![p].valid = FALSE]
  /\ UNCHANGED <<rowOf, held, asking>>

SendRequest(q, stream) ==
  /\ asking[q] = Unasked
  /\ turns < MaxTurns /\ turns' = turns + 1
  /\ asking' = [asking EXCEPT ![q] =
       [at |-> "local", stream |-> stream, cookie |-> held.cookie, token |-> held.token,
        user |-> Nobody, set |-> NoToken, fresh |-> FALSE]]
  /\ UNCHANGED <<rowOf, provider, held>>

-----------------------------------------------------------------------------
(* authenticate *)

Step(q, from, to) == /\ asking[q].at = from /\ asking' = [asking EXCEPT ![q].at = to]

Denied(q) == asking' = [asking EXCEPT ![q] = Unasked]

Local(q) ==
  /\ asking[q].at = "local"
  /\ IF LiveRow(asking[q].cookie)
     THEN asking' = [asking EXCEPT ![q].at = "verify", ![q].user = rowOf[asking[q].cookie].user]
     ELSE Denied(q)
  /\ UNCHANGED <<rowOf, provider, held, turns>>

Verified(t) == t # NoToken /\ provider[t.user] = [token |-> t.token, valid |-> TRUE]

\* The token and the session must be one person's.
SamePerson(q, t) == t.user = asking[q].user

\* getUser, getSession: a token no longer valid is exchanged for a newer one, which the
\* answer's cookies carry; the provider may refuse, and not be there.
Verify(q) ==
  /\ asking[q].at = "verify"
  /\ LET t == asking[q].token
     IN \/ Denied(q) /\ UNCHANGED provider
        \/ /\ Verified(t) /\ SamePerson(q, t)
           /\ Step(q, "verify", "check") /\ UNCHANGED provider
        \/ /\ t # NoToken /\ ~Verified(t) /\ SamePerson(q, t)
           /\ t.token <= MaxTurns
           /\ LET now == provider[t.user].token
                  new == [user |-> t.user, token |-> IF t.token = now THEN now + 1 ELSE now]
              IN /\ provider' = [provider EXCEPT ![t.user] = [token |-> new.token, valid |-> TRUE]]
                 /\ asking' = [asking EXCEPT ![q].at = "check", ![q].token = new, ![q].set = new]
  /\ UNCHANGED <<rowOf, held, turns>>

Check(q) ==
  /\ asking[q].at = "check"
  /\ IF LiveRow(asking[q].cookie) THEN Step(q, "check", "read") ELSE Denied(q)
  /\ UNCHANGED <<rowOf, provider, held, turns>>

-----------------------------------------------------------------------------
(* The handler, and assertActive before its answer or a stream's next one. *)

ReadData(q) ==
  /\ asking[q].at \in {"read", "open"}
  /\ asking' = [asking EXCEPT ![q].at = "recheck", ![q].fresh = LiveRow(asking[q].cookie)]
  /\ UNCHANGED <<rowOf, provider, held, turns>>

\* checkSession, and the token of the first verification: nothing is refreshed here.
AssertActive(q) ==
  /\ asking[q].at = "recheck"
  /\ IF LiveRow(asking[q].cookie) /\ Verified(asking[q].token)
     THEN Step(q, "recheck", "last") ELSE Denied(q)
  /\ UNCHANGED <<rowOf, provider, held, turns>>

LastCheck(q) ==
  /\ asking[q].at = "last"
  /\ IF LiveRow(asking[q].cookie) THEN Step(q, "last", "answered") ELSE Denied(q)
  /\ UNCHANGED <<rowOf, provider, held, turns>>

\* The answer arrives with its cookies; a stream's later ones set none.
AnswerArrives(q) ==
  /\ asking[q].at = "answered"
  /\ held' = IF asking[q].set = NoToken THEN held ELSE [held EXCEPT !.token = asking[q].set]
  /\ IF asking[q].stream
     THEN asking' = [asking EXCEPT ![q].at = "open", ![q].set = NoToken] ELSE Denied(q)
  /\ UNCHANGED <<rowOf, provider, turns>>

PrincipalNext ==
  \/ \E p \in Person : TokenExpires(p) \/ \E c \in Cookie : EnterAs(p, c)
  \/ \E c \in Cookie : SessionOver(c)
  \/ SignOut
  \/ \E q \in Asking :
       \/ \E stream \in BOOLEAN : SendRequest(q, stream)
       \/ Local(q) \/ Verify(q) \/ Check(q) \/ ReadData(q) \/ AssertActive(q) \/ LastCheck(q)
       \/ AnswerArrives(q)

PrincipalSpec == PrincipalInit /\ [][PrincipalNext]_principalVars

-----------------------------------------------------------------------------
(* What is answered was read while its session was there, for the person   *)
(* whose session and whose token the request brought, whatever cookies of  *)
(* someone else a late answer has left in the browser.                     *)
(* (auth.ts authenticate, assertActive, logout)                            *)
PrincipalsSafe ==
  /\ \A q \in Asking : asking[q] # Unasked /\ asking[q].at = "answered" =>
       /\ asking[q].fresh
       /\ asking[q].user = rowOf[asking[q].cookie].user
       /\ asking[q].token.user = asking[q].user
=============================================================================
