------------------------------ MODULE PublicFeed ------------------------------
(***************************************************************************)
(* The single-organization server (app.ts) and its GitHub reader           *)
(* (github.ts): a feed that mixes GitHub's public events with restricted   *)
(* ones received by webhook, which only holders of the dashboard key may   *)
(* see.  Another instance on the same database may start protecting the    *)
(* organization at any time.                                               *)
(***************************************************************************)
EXTENDS Naturals, FiniteSets, Sequences

CONSTANTS
  PubEvent,       \* ids of the organization's events
  PubReader,      \* requests for the feed
  PubStream,      \* live streams
  PubHook,        \* delivery ids of webhooks
  MaxConnections, \* 100
  MaxQueued,      \* 100 events per stream
  PubEnd          \* bound: the clock, in polling intervals

ASSUME PublicFeedAssumption ==
  {MaxConnections, MaxQueued, PubEnd} \subseteq Nat \ {0}

VARIABLES
  setup,         \* what this process is configured with
  protection,    \* ship_live_organizations.protected
  kept,          \* the stored events: none, public, or restricted
  hooked,        \* delivery ids received
  clockP,
  upstream,      \* GitHubFeed: cache, failure and the request under way
  reader,
  stream,
  disclosed      \* what was sent to somebody without the key

publicVars == <<setup, protection, kept, hooked, clockP, upstream, reader, stream, disclosed>>

-----------------------------------------------------------------------------
Unread == [at |-> "none"]

StoredEvents == [PubEvent -> {"none", "public", "restricted"}]

\* cached.nextPollAt and failure.expires: 0 is "never"; gone: the failure is a 404.
Upstream ==
  [cached : BOOLEAN, events : SUBSET PubEvent, poll : Nat, failing : Nat, gone : BOOLEAN,
   pending : BOOLEAN]

PublicTypeOK ==
  /\ setup \in [secret : BOOLEAN, key : BOOLEAN]
  /\ protection \in BOOLEAN
  /\ kept \in StoredEvents
  /\ hooked \subseteq PubHook
  /\ clockP \in 1 .. PubEnd
  /\ upstream \in Upstream
  /\ reader \in [PubReader -> {Unread} \cup
       [at : {"authorize", "saved", "get", "waiting", "merge", "list", "answer"},
        key : BOOLEAN, seen : StoredEvents, feed : SUBSET PubEvent]]
  /\ stream \in [PubStream -> {Unread} \cup
       [at : {"authorize", "open", "before", "get", "after"}, key : BOOLEAN,
        queue : Seq(PubEvent), event : {"none", "public", "restricted"}]]
  /\ disclosed \subseteq {"public", "restricted"}

NoEvents == [e \in PubEvent |-> "none"]

\* createApp: with credentials the organization is protected before the server starts.
PublicInit ==
  /\ setup \in [secret : BOOLEAN, key : BOOLEAN]
  /\ protection \in (IF setup.secret THEN {TRUE} ELSE BOOLEAN)
  /\ kept = NoEvents
  /\ hooked = {}
  /\ clockP = 1
  /\ upstream = [cached |-> FALSE, events |-> {}, poll |-> 0, failing |-> 0, gone |-> FALSE,
                 pending |-> FALSE]
  /\ reader = [r \in PubReader |-> Unread]
  /\ stream = [s \in PubStream |-> Unread]
  /\ disclosed = {}

storeP == <<setup, protection, kept, hooked>>

ClockP ==
  /\ clockP < PubEnd /\ clockP' = clockP + 1
  /\ UNCHANGED <<storeP, upstream, reader, stream, disclosed>>

-----------------------------------------------------------------------------
(* The store. *)

ProtectedFeed == protection \/ setup.secret

KeyShown(key) == ProtectedFeed => setup.key /\ key

\* What listeners of the store hear.
Notified(e) ==
  [s \in PubStream |->
     IF stream[s] = Unread \/ stream[s].at = "authorize" THEN stream[s]
     ELSE IF Len(stream[s].queue) + 1 > MaxQueued THEN Unread
          ELSE [stream[s] EXCEPT !.queue = Append(@, e)]]

EventFirst(e) == kept' = [kept EXCEPT ![e] = "restricted"] /\ UNCHANGED protection

\* merge of a delivery: the flag and the event in one transaction.
StoreRestricted(e) == kept' = [kept EXCEPT ![e] = "restricted"] /\ protection' = TRUE

\* A webhook, to this instance if it is configured for them, or to another one.
WebhookArrives(d, e) ==
  /\ d \notin hooked
  /\ hooked' = hooked \cup {d}
  /\ StoreRestricted(e)
  /\ stream' = Notified(e)
  /\ UNCHANGED <<setup, clockP, upstream, reader, disclosed>>

\* Another instance starts with credentials.
ProtectOrganization ==
  /\ ~protection /\ protection' = TRUE
  /\ UNCHANGED <<setup, kept, hooked, clockP, upstream, reader, stream, disclosed>>

-----------------------------------------------------------------------------
(* GitHubFeed.get and load. *)

CacheFresh == upstream.cached /\ upstream.poll > clockP

Failing == upstream.failing > clockP

\* The answer comes to everyone who waits for it.
TellReaders(next) ==
  reader' = [r \in PubReader |->
    IF reader[r] # Unread /\ reader[r].at = "waiting" THEN next[r] ELSE reader[r]]

\* A fresh answer, or 304 for the one cached.
GitHubAnswers(events) ==
  /\ upstream.pending
  /\ upstream' = [cached |-> TRUE, events |-> events, poll |-> clockP + 1, failing |->
                    IF upstream.cached /\ events = upstream.events THEN upstream.failing ELSE 0,
                  gone |-> upstream.gone, pending |-> FALSE]
  /\ TellReaders([r \in PubReader |-> [reader[r] EXCEPT !.at = "merge", !.feed = events]])
  /\ UNCHANGED <<storeP, clockP, stream, disclosed>>

\* The saved events stand in for GitHub's, unless the organization does not exist.
Fallback(r, gone) ==
  IF reader[r].seen = NoEvents \/ gone THEN Unread ELSE [reader[r] EXCEPT !.at = "answer"]

GitHubFails(gone, wait) ==
  /\ upstream.pending
  /\ upstream' = [upstream EXCEPT !.pending = FALSE, !.failing = clockP + wait, !.gone = gone]
  /\ TellReaders([r \in PubReader |-> IF reader[r] = Unread THEN Unread ELSE Fallback(r, gone)])
  /\ UNCHANGED <<storeP, clockP, stream, disclosed>>

-----------------------------------------------------------------------------
(* GET /api/feed for the configured organization. *)

ReadFeed(r, key) ==
  /\ reader[r] = Unread
  /\ reader' = [reader EXCEPT ![r] =
       [at |-> "authorize", key |-> key, seen |-> NoEvents, feed |-> {}]]
  /\ UNCHANGED <<storeP, clockP, upstream, stream, disclosed>>

ReaderAt(r, from, rec) == reader[r].at = from /\ reader' = [reader EXCEPT ![r] = rec]

AuthorizeRead(r) ==
  /\ ReaderAt(r, "authorize",
          IF KeyShown(reader[r].key) THEN [reader[r] EXCEPT !.at = "saved"] ELSE Unread)
  /\ UNCHANGED <<storeP, clockP, upstream, stream, disclosed>>

ListSaved(r) ==
  /\ ReaderAt(r, "saved", [reader[r] EXCEPT !.at = "get", !.seen = kept])
  /\ UNCHANGED <<storeP, clockP, upstream, stream, disclosed>>

\* One request to GitHub at a time, none while the cache is fresh or a failure holds.
GetFeed(r) ==
  /\ \/ CacheFresh
        /\ ReaderAt(r, "get", [reader[r] EXCEPT !.at = "merge", !.feed = upstream.events])
        /\ UNCHANGED upstream
     \/ ~CacheFresh /\ Failing
        /\ ReaderAt(r, "get", Fallback(r, upstream.gone))
        /\ UNCHANGED upstream
     \/ ~CacheFresh /\ ~Failing
        /\ ReaderAt(r, "get", [reader[r] EXCEPT !.at = "waiting"])
        /\ upstream' = [upstream EXCEPT !.pending = TRUE]
  /\ UNCHANGED <<storeP, clockP, stream, disclosed>>

\* merge with preferExisting: GitHub's copy never replaces a stored event.
MergeFeed(r) ==
  /\ ReaderAt(r, "merge", [reader[r] EXCEPT !.at = "list"])
  /\ kept' = [e \in PubEvent |->
       IF kept[e] = "none" /\ e \in reader[r].feed THEN "public" ELSE kept[e]]
  /\ UNCHANGED <<setup, protection, hooked, clockP, upstream, stream, disclosed>>

ListMerged(r) ==
  /\ ReaderAt(r, "list", [reader[r] EXCEPT !.at = "answer", !.seen = kept])
  /\ UNCHANGED <<storeP, clockP, upstream, stream, disclosed>>

CheckedBefore(key) == TRUE

\* The answer holds events read before; the access is checked again after reading them.
Allowed(key) == KeyShown(key)

Disclose(key, kinds) ==
  disclosed' = IF key THEN disclosed ELSE disclosed \cup (kinds \ {"none"})

AnswerFeed(r) ==
  /\ ReaderAt(r, "answer", Unread)
  /\ IF Allowed(reader[r].key)
     THEN Disclose(reader[r].key, {reader[r].seen[e] : e \in PubEvent})
     ELSE UNCHANGED disclosed
  /\ UNCHANGED <<storeP, clockP, upstream, stream>>

-----------------------------------------------------------------------------
(* GET /api/events. *)

Connections == {s \in PubStream : stream[s] # Unread /\ stream[s].at # "authorize"}

FollowFeed(s, key) ==
  /\ stream[s] = Unread
  /\ stream' = [stream EXCEPT ![s] =
       [at |-> "authorize", key |-> key, queue |-> <<>>, event |-> "none"]]
  /\ UNCHANGED <<storeP, clockP, upstream, reader, disclosed>>

StreamAt(s, from, rec) == stream[s].at = from /\ stream' = [stream EXCEPT ![s] = rec]

StreamRoom == Cardinality(Connections) < MaxConnections

\* The count is read after the access and raised in the same turn.
OpenPublicStream(s) ==
  /\ StreamAt(s, "authorize", IF KeyShown(stream[s].key) /\ StreamRoom
                          THEN [stream[s] EXCEPT !.at = "open"] ELSE Unread)
  /\ UNCHANGED <<storeP, clockP, upstream, reader, disclosed>>

\* The access before the event, the event, and the access again.
BeforeEvent(s) ==
  /\ stream[s] # Unread /\ stream[s].at = "open" /\ stream[s].queue # <<>>
  /\ stream' = [stream EXCEPT ![s] =
       IF KeyShown(@.key) THEN [@ EXCEPT !.at = "get"] ELSE Unread]
  /\ UNCHANGED <<storeP, clockP, upstream, reader, disclosed>>

GetEvent(s) ==
  /\ StreamAt(s, "get", [stream[s] EXCEPT !.at = "after", !.event = kept[Head(stream[s].queue)]])
  /\ UNCHANGED <<storeP, clockP, upstream, reader, disclosed>>

AfterEvent(s) ==
  /\ StreamAt(s, "after", IF Allowed(stream[s].key)
                      THEN [stream[s] EXCEPT !.at = "open", !.queue = Tail(@), !.event = "none"]
                      ELSE Unread)
  /\ IF Allowed(stream[s].key) THEN Disclose(stream[s].key, {stream[s].event})
     ELSE UNCHANGED disclosed
  /\ UNCHANGED <<storeP, clockP, upstream, reader>>

CloseStream(s) ==
  /\ stream[s] # Unread
  /\ stream' = [stream EXCEPT ![s] = Unread]
  /\ UNCHANGED <<storeP, clockP, upstream, reader, disclosed>>

-----------------------------------------------------------------------------
PublicNext ==
  \/ ClockP \/ ProtectOrganization
  \/ \E d \in PubHook, e \in PubEvent : WebhookArrives(d, e)
  \/ \E events \in SUBSET PubEvent : GitHubAnswers(events)
  \/ \E gone \in BOOLEAN, wait \in 1 .. 2 : GitHubFails(gone, wait)
  \/ \E r \in PubReader :
       \/ \E key \in BOOLEAN : ReadFeed(r, key)
       \/ reader[r] # Unread /\
            (AuthorizeRead(r) \/ ListSaved(r) \/ GetFeed(r) \/ MergeFeed(r) \/ ListMerged(r)
             \/ AnswerFeed(r))
  \/ \E s \in PubStream :
       \/ \E key \in BOOLEAN : FollowFeed(s, key)
       \/ BeforeEvent(s) \/ CloseStream(s)
       \/ stream[s] # Unread /\ (OpenPublicStream(s) \/ GetEvent(s) \/ AfterEvent(s))

PublicSpec == PublicInit /\ [][PublicNext]_publicVars

-----------------------------------------------------------------------------
(* A restricted event never reaches somebody without the dashboard key,    *)
(* though the organization may become protected between the first look at  *)
(* the access and the answer, and streams never exceed their limit.        *)
(* (app.ts createApp, GET /api/feed and /api/events)                       *)
PublicFeedSafe ==
  /\ "restricted" \notin disclosed
  /\ Cardinality(Connections) <= MaxConnections
=============================================================================
