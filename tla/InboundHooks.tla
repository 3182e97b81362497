----------------------------- MODULE InboundHooks -----------------------------
(***************************************************************************)
(* A workspace's inbound webhooks (webhook-store.ts and webhook-app.ts):   *)
(* endpoints that members create, rotate and remove, and senders whose     *)
(* posts, repeated until they are answered, become alerts.  A request      *)
(* makes one SQL statement after another, without a transaction.           *)
(***************************************************************************)
EXTENDS Naturals, FiniteSets

CONSTANTS
  Inbound,               \* ids of endpoints that may be created
  Slug, Token,
  Making,                \* requests of members under way
  Posting,               \* requests of senders under way
  Message, NoMessage,    \* ids the mapping finds in what is posted; NoMessage: it finds none
  MaxInbound,            \* MAX_INBOUND (10)
  KeptReceipts,          \* 50 per endpoint
  MaxPosts               \* bound: posts

ASSUME InboundAssumption ==
  /\ NoMessage \notin Message
  /\ {MaxInbound, KeptReceipts} \subseteq Nat \ {0} /\ MaxPosts \in Nat
  /\ IsFiniteSet(Making) /\ IsFiniteSet(Posting)

VARIABLES
  inbound,     \* ship_live_inbound_hooks
  used,        \* tokens issued
  making,      \* requests that counted the endpoints and have not stored theirs
  posting,     \* requests of senders
  posts,
  alerts,      \* alerts stored for an endpoint and a sender's id
  receipts,    \* receipts in each endpoint's log, by when they were made
  postAnswers     \* what senders were told was accepted

inboundVars == <<inbound, used, making, posting, posts, alerts, receipts, postAnswers>>

-----------------------------------------------------------------------------
NotMade == [is |-> "none"]
Dropped == [is |-> "removed"]   \* ids are never given out again

Endpoints == [slug : Slug, token : Token, secret : BOOLEAN]

Alert == Inbound \X (Message \cup {NoMessage})

Postings == [is : {"record", "reject", "stored", "log"}, alert : Alert, ok : BOOLEAN,
             at : Nat, seen : SUBSET (1 .. MaxPosts)]

InboundTypeOK ==
  /\ inbound \in [Inbound -> Endpoints \cup {NotMade, Dropped}]
  /\ used \subseteq Token
  /\ making \subseteq Making
  /\ posting \in [Posting -> Postings \cup {NotMade}]
  /\ posts \in 0 .. MaxPosts
  /\ alerts \in [Alert -> Nat]
  /\ receipts \in [Inbound -> SUBSET (1 .. MaxPosts)]
  /\ postAnswers \subseteq Alert

InboundInit ==
  /\ inbound = [i \in Inbound |-> NotMade]
  /\ used = {}
  /\ making = {}
  /\ posting = [p \in Posting |-> NotMade]
  /\ posts = 0
  /\ alerts = [a \in Alert |-> 0]
  /\ receipts = [i \in Inbound |-> {}]
  /\ postAnswers = {}

Made == {i \in Inbound : inbound[i] \notin {NotMade, Dropped}}

postingVars == <<posting, posts, alerts, postAnswers>>
outbox == <<postingVars, receipts>>
settings == <<inbound, used, making>>

-----------------------------------------------------------------------------
(* Members. *)

\* The count is a statement of its own, before the insert.
CountInbound(c) ==
  /\ c \notin making
  /\ Cardinality(Made) < MaxInbound
  /\ making' = making \cup {c}
  /\ UNCHANGED <<inbound, used, outbox>>

\* Without the unique index of slugs.
AnySlug(slug) == TRUE

SlugFree(slug) == \A j \in Made : inbound[j].slug # slug

\* The index refuses a slug the workspace already has.
CreateInbound(c, i, slug, t, secret) ==
  /\ c \in making /\ making' = making \ {c}
  /\ inbound[i] = NotMade /\ t \notin used
  /\ IF SlugFree(slug)
     THEN /\ inbound' = [inbound EXCEPT ![i] = [slug |-> slug, token |-> t, secret |-> secret]]
          /\ used' = used \cup {t}
     ELSE UNCHANGED <<inbound, used>>
  /\ UNCHANGED outbox

\* An empty secret removes it, a new one replaces it.
UpdateInbound(i, secret) ==
  /\ i \in Made
  /\ inbound' = [inbound EXCEPT ![i] = [@ EXCEPT !.secret = secret]]
  /\ UNCHANGED <<used, making, outbox>>

RotateInbound(i, t) ==
  /\ i \in Made /\ t \notin used
  /\ inbound' = [inbound EXCEPT ![i] = [@ EXCEPT !.token = t]]
  /\ used' = used \cup {t}
  /\ UNCHANGED <<making, outbox>>

\* Its receipts go with it; its alerts stay in the workspace.
RemoveInbound(i) ==
  /\ i \in Made
  /\ inbound' = [inbound EXCEPT ![i] = Dropped]
  /\ receipts' = [receipts EXCEPT ![i] = {}]
  /\ UNCHANGED <<used, making, postingVars>>

-----------------------------------------------------------------------------
(* Posts to an endpoint. *)

\* inboundByToken, the signature, the body and the mapping: a post that fails one of them is
\* rejected, and so is one whose sender does not know the secret.
ReceivePost(p, i, signed, m) ==
  /\ posts < MaxPosts /\ posts' = posts + 1
  /\ posting[p] = NotMade /\ i \in Made
  /\ \E step \in IF inbound[i].secret /\ ~signed THEN {"reject"} ELSE {"reject", "record"} :
       posting' = [posting EXCEPT ![p] =
         [is |-> step, alert |-> <<i, m>>, ok |-> FALSE, at |-> posts + 1, seen |-> {}]]
  /\ UNCHANGED <<settings, alerts, receipts, postAnswers>>

PostingAt(p, steps) == posting[p] # NotMade /\ posting[p].is \in steps

\* Without the sender's id in the key.
StoredAgain(a) == [alerts EXCEPT ![a] = @ + 1]

\* The key holds the sender's id, or a new one when there is none.
Recorded(a) ==
  IF a[2] # NoMessage /\ alerts[a] > 0 THEN alerts ELSE [alerts EXCEPT ![a] = @ + 1]

RecordAlert(p) ==
  /\ PostingAt(p, {"record"})
  /\ alerts' = Recorded(posting[p].alert)
  /\ posting' = [posting EXCEPT ![p].is = "stored"]
  /\ UNCHANGED <<settings, posts, receipts, postAnswers>>

\* receipt is one statement: what it removes it sees when it begins.
BeginReceipt(p) ==
  /\ PostingAt(p, {"reject", "stored"})
  /\ posting' = [posting EXCEPT ![p] = [@ EXCEPT !.is = "log", !.ok = posting[p].is = "stored",
                                                  !.seen = receipts[posting[p].alert[1]]]]
  /\ UNCHANGED <<settings, posts, alerts, receipts, postAnswers>>

\* Those beyond the first 49, the newest first.
Beyond(seen) ==
  {r \in seen : Cardinality({q \in seen : q > r}) >= KeptReceipts - 1}

\* The receipt, the refresh of open pages and the answer.
Receipt(p) ==
  /\ PostingAt(p, {"log"})
  /\ LET i == posting[p].alert[1] IN
     IF i \notin Made          \* the foreign key fails
     THEN UNCHANGED <<receipts, postAnswers>>
     ELSE /\ receipts' = [receipts EXCEPT ![i] = (@ \ Beyond(posting[p].seen)) \cup {posting[p].at}]
          /\ postAnswers' = IF posting[p].ok THEN postAnswers \cup {posting[p].alert} ELSE postAnswers
  /\ posting' = [posting EXCEPT ![p] = NotMade]
  /\ UNCHANGED <<settings, posts, alerts>>

\* The process stops or the sender hangs up; the sender posts again.
PostBreaks(p) ==
  /\ posting[p] # NotMade
  /\ posting' = [posting EXCEPT ![p] = NotMade]
  /\ UNCHANGED <<settings, posts, alerts, receipts, postAnswers>>

-----------------------------------------------------------------------------
InboundNext ==
  \/ \E c \in Making :
       \/ CountInbound(c)
       \/ \E i \in Inbound, s \in Slug, t \in Token, secret \in BOOLEAN :
            CreateInbound(c, i, s, t, secret)
  \/ \E i \in Inbound : \/ (\E secret \in BOOLEAN : UpdateInbound(i, secret))
                         \/ (\E t \in Token : RotateInbound(i, t)) \/ RemoveInbound(i)
  \/ \E p \in Posting :
       \/ (\E i \in Inbound, signed \in BOOLEAN, m \in Message \cup {NoMessage} :
             ReceivePost(p, i, signed, m))
       \/ RecordAlert(p) \/ BeginReceipt(p) \/ Receipt(p) \/ PostBreaks(p)

InboundSpec == InboundInit /\ [][InboundNext]_inboundVars

-----------------------------------------------------------------------------
(* Two endpoints never share a slug or a token; with n requests at once the cap is passed  *)
(* by at most n - 1; and posts that arrive together leave at most one receipt each more    *)
(* than an endpoint's log keeps.                                                           *)
EndpointsApart ==
  /\ \A i, j \in Made : i # j =>
       inbound[i].slug # inbound[j].slug /\ inbound[i].token # inbound[j].token
  /\ Cardinality(Made) <= MaxInbound + Cardinality(Making) - 1
  /\ \A i \in Inbound : Cardinality(receipts[i]) <= KeptReceipts + Cardinality(Posting) - 1

(* A sender that repeats a post until it is answered makes one alert, and one that was     *)
(* told "accepted" has made it.                                                            *)
AlertsOnce ==
  /\ \A i \in Inbound, m \in Message : alerts[<<i, m>>] <= 1
  /\ \A a \in postAnswers : alerts[a] > 0

\* Senders reach one endpoint, and an alert is told once.
InboundSafe == EndpointsApart /\ AlertsOnce
=============================================================================
