------------------------------ MODULE LiveFeed ------------------------------
(***************************************************************************)
(* From a stored event to a page that shows it: the notifications of a     *)
(* commit, the listener of one server process, its live stream to one      *)
(* browser, the page's requests for the feed, and access that changes      *)
(* meanwhile (postgres-notifications.ts, the feed and events routes of     *)
(* workspace-app.ts, useFeed.ts and privateFeed.ts).                       *)
(***************************************************************************)
EXTENDS Naturals, FiniteSets, Sequences

CONSTANTS
  Event,
  Repo,            \* repositories, each the only one of its installation
  Workspace, NoWorkspace,
  Request,         \* feed requests that one page has in flight
  MaxQueue,        \* operations one stream may have waiting (100)
  MaxChanges       \* bound: changes of access, sessions and selections, lost connections

\* An event's number is never "refresh", nor a repository one of the other scopes.
ASSUME FeedAssumption ==
  /\ NoWorkspace \notin Workspace
  /\ "refresh" \notin Event /\ Repo \cap {"account", "heartbeat", "none"} = {}
  /\ MaxQueue \in Nat \ {0} /\ MaxChanges \in Nat

VARIABLES
  stored,      \* events in PostgreSQL and their repositories
  granted,     \* what the viewer may read in each workspace now
  session,     \* the viewer's session is live
  changes,
  listener,    \* the process's LISTEN connection and what it has not handled yet
  stream,      \* the server's side of the live stream
  frames,      \* written to the stream and not read by the page
  page,        \* useFeed
  request,     \* feed requests
  missed       \* history: changes no stream could report, since the last load (load) and
               \* since the stream last read its viewer (view)

vars == <<stored, granted, session, changes, listener, stream, frames, page, request, missed>>

-----------------------------------------------------------------------------
NotStored == [repo |-> "none"]
View(S)   == [readable |-> TRUE, repos |-> S]
NoAccess  == [readable |-> FALSE, repos |-> {}]
Views     == {View(S) : S \in SUBSET Repo} \cup {NoAccess}
NoStream  == [is |-> "closed"]
Idle      == [is |-> "idle"]

\* A notification names a scope: the account (or its workspaces) or an installation, and
\* says to refresh or names an event.
Notice == [scope : {"account"} \cup Repo, event : {"refresh"} \cup Event]
Beat   == [scope |-> "heartbeat"]

\* current is the viewer the stream was last checked with; head is the step of the operation at work.
Stream ==
  [is : {"opening", "open"}, workspace : Workspace, current : SUBSET Repo,
   queue : Seq(Notice \cup {Beat}), head : {"idle", "checked", "found"}]

\* fresh: its serial and generation are still the page's.
Asked ==
  [is : {"sent", "read", "answered", "refused"}, workspace : Workspace, fresh : BOOLEAN,
   events : SUBSET Event]

\* due: a refresh in 100 ms; of: whose feed is shown.
Page ==
  [workspace : Workspace \cup {NoWorkspace}, shown : SUBSET Event,
   of : Workspace \cup {NoWorkspace}, verified : BOOLEAN, blocked : BOOLEAN,
   streaming : BOOLEAN, due : BOOLEAN, idle : BOOLEAN]

TypeOK ==
  /\ stored \in [Event -> [repo : Repo] \cup {NotStored}]
  /\ granted \in [Workspace -> Views]
  /\ session \in BOOLEAN
  /\ changes \in 0 .. MaxChanges
  /\ listener \in [up : BOOLEAN, notices : Seq(Notice)]
  /\ stream \in Stream \cup {NoStream}
  /\ stream # NoStream => Len(stream.queue) <= MaxQueue
  /\ frames \in Seq({"activity", "refresh", "access-revoked", "end"})
  /\ page \in Page
  /\ request \in [Request -> Asked \cup {Idle}]
  /\ missed \in [load : BOOLEAN, view : BOOLEAN]

Shown(w, ws) == [workspace |-> w, shown |-> {}, of |-> NoWorkspace, verified |-> FALSE,
                 blocked |-> FALSE, streaming |-> FALSE, due |-> FALSE, idle |-> ws]

Init ==
  /\ stored = [e \in Event |-> NotStored]
  /\ granted \in [Workspace -> Views]
  /\ session = TRUE
  /\ changes = 0
  /\ listener = [up |-> TRUE, notices |-> <<>>]
  /\ stream = NoStream
  /\ frames = <<>>
  /\ page = Shown(NoWorkspace, FALSE)
  /\ request = [q \in Request |-> Idle]
  /\ missed = [load |-> FALSE, view |-> FALSE]

server == <<stored, granted, session, changes>>
browser == <<page, request>>

-----------------------------------------------------------------------------
(* What a viewer sees. *)

Readable(w) == granted[w].repos

\* visible: events of allowed repositories.
Within(S) == {e \in Event : stored[e] # NotStored /\ stored[e].repo \in S}
Visible(w) == Within(Readable(w))

Subscribed == stream # NoStream /\ stream.is = "open" /\ listener.up

\* Every change commits with its notification; without a listener it is lost.
Notify(notice) ==
  /\ listener' = IF listener.up
                 THEN [listener EXCEPT !.notices = Append(@, notice)] ELSE listener
  /\ missed' = [load |-> missed.load \/ ~Subscribed,
                view |-> missed.view \/ (~Subscribed /\ notice.event = "refresh")]

-----------------------------------------------------------------------------
(* Changes in the database, by other requests and webhooks. *)

Store(e, r) ==
  /\ stored[e] = NotStored
  /\ stored' = [stored EXCEPT ![e] = [repo |-> r]]
  /\ Notify([scope |-> r, event |-> e])
  /\ UNCHANGED <<granted, session, changes, stream, frames, browser>>

Change == changes < MaxChanges /\ changes' = changes + 1

\* A narrowing, a suspension or a selection of one installation.
Narrow(r) ==
  /\ Change
  /\ \E w \in Workspace : r \in Readable(w)
  /\ granted' = [w \in Workspace |-> [granted[w] EXCEPT !.repos = @ \ {r}]]
  /\ Notify([scope |-> r, event |-> "refresh"])
  /\ UNCHANGED <<stored, session, stream, frames, browser>>

\* A refresh of access, a connection or the choice of sources; a team needs a stored row.
Grant(w, g) ==
  /\ Change
  /\ granted[w] # g
  /\ granted' = [granted EXCEPT ![w] = g]
  /\ Notify([scope |-> "account", event |-> "refresh"])
  /\ UNCHANGED <<stored, session, stream, frames, browser>>

\* Logged out in another browser tab or expired: nobody is notified.
SessionEnds ==
  /\ Change
  /\ session /\ session' = FALSE
  /\ missed' = [missed EXCEPT !.load = TRUE]
  /\ UNCHANGED <<stored, granted, listener, stream, frames, browser>>

-----------------------------------------------------------------------------
(* The listener. *)

ListenerDrops ==
  /\ Change
  /\ listener.up /\ listener' = [up |-> FALSE, notices |-> <<>>]
  /\ missed' = [load |-> missed.load \/ listener.notices # <<>>,
                view |-> missed.view \/ listener.notices # <<>>]
  /\ UNCHANGED <<stored, granted, session, stream, frames, browser>>

Reconnect ==
  /\ ~listener.up
  /\ listener' = [listener EXCEPT !.up = TRUE]
  /\ UNCHANGED <<server, stream, frames, browser, missed>>

-----------------------------------------------------------------------------
(* The stream on the server. *)

OnlySources(n) == n.scope \in stream.current

\* The subscription's filter: the account's scopes and the sources of the last check.
Wanted(n) == n.scope = "account" \/ n.scope \in stream.current

Write(fs) == frames' = frames \o fs

\* cleanup and the end of the response.
Close(fs) == stream' = NoStream /\ Write(Append(fs, "end"))

Unbounded(op) == stream' = [stream EXCEPT !.queue = Append(@, op)] /\ UNCHANGED frames

\* enqueue: one operation too many closes the stream.
Enqueue(op) ==
  IF Len(stream.queue) >= MaxQueue
  THEN Close(<<>>)
  ELSE stream' = [stream EXCEPT !.queue = Append(@, op)] /\ UNCHANGED frames

\* receive hands a notification to the subscriber.
Receive ==
  /\ listener.notices # <<>>
  /\ LET n == Head(listener.notices) IN
     IF stream # NoStream /\ stream.is = "open" /\ Wanted(n)
     THEN Enqueue(n)
     ELSE UNCHANGED <<stream, frames>>
  /\ listener' = [listener EXCEPT !.notices = Tail(@)]
  /\ UNCHANGED <<server, browser, missed>>

Heartbeat ==
  /\ stream # NoStream /\ stream.is = "open" /\ stream.queue = <<>>
  /\ Enqueue(Beat)
  /\ UNCHANGED <<server, listener, browser, missed>>

\* The viewer could be read: the session is live and the workspace readable.
Allowed(w) == session /\ granted[w].readable

Working == stream # NoStream /\ stream.is = "open" /\ stream.queue # <<>>

Done(s) == [s EXCEPT !.queue = Tail(@), !.head = "idle"]

\* Any failure of an operation revokes the stream.
Revoke ==
  /\ Working /\ ~Allowed(stream.workspace)
  /\ Close(<<"access-revoked">>)
  /\ UNCHANGED <<server, listener, browser, missed>>

Changed(now) == now # stream.current

\* The first revalidate of an operation.  A refresh or heartbeat is done with it; an
\* event whose installation is no longer a source too.
Revalidate ==
  /\ Working /\ stream.head = "idle" /\ Allowed(stream.workspace)
  /\ LET op    == Head(stream.queue)
         now   == Readable(stream.workspace)
         next  == [stream EXCEPT !.current = now]
         frame == IF Changed(now) \/ (op # Beat /\ op.event = "refresh")
                  THEN <<"refresh">> ELSE <<>>
     IN /\ Write(frame)
        /\ stream' = IF op # Beat /\ op.event # "refresh" /\ op.scope \in now
                     THEN [next EXCEPT !.head = "checked"]
                     ELSE Done(next)
  /\ missed' = [missed EXCEPT !.view = FALSE]
  /\ UNCHANGED <<server, listener, browser>>

\* store.get.
GetEvent ==
  /\ Working /\ stream.head = "checked"
  /\ stream' = [stream EXCEPT !.head = "found"]
  /\ UNCHANGED <<server, listener, frames, browser, missed>>

\* The second revalidate, and the event itself if it may still be seen.
Announce ==
  /\ Working /\ stream.head = "found" /\ Allowed(stream.workspace)
  /\ LET op  == Head(stream.queue)
         now == Readable(stream.workspace)
     IN /\ Write((IF Changed(now) THEN <<"refresh">> ELSE <<>>)
                 \o (IF op.event \in Within(now) THEN <<"activity">> ELSE <<>>))
        /\ stream' = Done([stream EXCEPT !.current = now])
  /\ UNCHANGED <<server, listener, browser, missed>>

\* The route reads the viewer before it subscribes and not again: what changed in
\* between is noticed by the next operation, at the latest the heartbeat after 25 seconds.
Subscribe ==
  /\ stream # NoStream /\ stream.is = "opening"
  /\ stream' = [stream EXCEPT !.is = "open"]
  /\ UNCHANGED <<server, listener, frames, browser, missed>>

\* The connection breaks, or the page reads too slowly.
StreamBreaks ==
  /\ Change
  /\ stream # NoStream
  /\ Close(<<>>)
  /\ UNCHANGED <<stored, granted, session, listener, browser, missed>>

-----------------------------------------------------------------------------
(* The page. *)

\* Every transition of identity, workspace or access invalidates what is in flight: the
\* page's generation and request number go on.
Outdated == [q \in Request |-> IF request[q] = Idle THEN Idle
                               ELSE [request[q] EXCEPT !.fresh = FALSE]]

\* The effects of a new generation: the former stream is aborted.
Leaves == stream' = NoStream /\ frames' = <<>>

\* applyWorkspace: by the user, or because the list no longer has the one shown.
Select(w) ==
  /\ Change
  /\ page.workspace # w
  /\ page' = Shown(w, TRUE)
  /\ request' = Outdated
  /\ missed' = [missed EXCEPT !.load = TRUE]
  /\ Leaves
  /\ UNCHANGED <<stored, granted, session, listener>>

Active == page.workspace # NoWorkspace /\ ~page.blocked

\* refresh: on the start of a generation, every 30 seconds and 100 ms after a frame.
Ask(q) ==
  /\ Active /\ request[q] = Idle
  /\ request' = [Outdated EXCEPT ![q] =
       [is |-> "sent", workspace |-> page.workspace, fresh |-> TRUE, events |-> {}]]
  /\ missed' = [missed EXCEPT !.load = ~Subscribed \/ missed.view]

Begins(q) ==
  /\ page.idle \/ page.due
  /\ Ask(q)
  /\ page' = [page EXCEPT !.due = FALSE, !.idle = FALSE]
  /\ UNCHANGED <<server, listener, stream, frames>>

PollWithoutStream(q) ==
  /\ ~page.streaming /\ \A p \in Request : request[p] = Idle
  /\ Ask(q)
  /\ UNCHANGED <<server, listener, stream, frames, page>>

\* A poll is due only when the last request was answered: the bound on requests.
Poll(q) ==
  /\ \A p \in Request : request[p] = Idle
  /\ Ask(q)
  /\ UNCHANGED <<server, listener, stream, frames, page>>

\* The feed route: the viewer and the events of its sources ...
Read(q) ==
  /\ request[q].is = "sent"
  /\ LET w == request[q].workspace IN
     request' = [request EXCEPT
       ![q].is = IF Allowed(w) THEN "read" ELSE "refused",
       ![q].events = IF Allowed(w) THEN Visible(w) ELSE {}]
  /\ UNCHANGED <<server, listener, stream, frames, page, missed>>

\* ... and the viewer again, which filters what was read.
Answer(q) ==
  /\ request[q].is = "read"
  /\ LET w == request[q].workspace IN
     request' = [request EXCEPT
       ![q].is = IF Allowed(w) THEN "answered" ELSE "refused",
       ![q].events = IF Allowed(w) THEN @ \cap Visible(w) ELSE {}]
  /\ UNCHANGED <<server, listener, stream, frames, page, missed>>

Late(q)     == TRUE
Current(q)  == request[q].fresh

\* A snapshot replaces what is shown.
Arrives(q) ==
  /\ request[q].is = "answered"
  /\ request' = [request EXCEPT ![q] = Idle]
  /\ page' = IF Current(q)
             THEN [page EXCEPT !.shown = request[q].events, !.of = request[q].workspace,
                               !.verified = TRUE]
             ELSE page
  /\ UNCHANGED <<server, listener, stream, frames, missed>>

\* A network failure hides what is shown and leaves the page polling.
Hidden == [page EXCEPT !.shown = {}, !.of = NoWorkspace, !.verified = FALSE]

Unanswered(q) ==
  /\ Change
  /\ request[q] # Idle
  /\ request' = [request EXCEPT ![q] = Idle]
  /\ page' = IF Current(q) THEN Hidden ELSE page
  /\ UNCHANGED <<stored, granted, session, listener, stream, frames, missed>>

\* accessFailure: 401 clears the identity, 403 blocks the page until the user retries.
Refused(w) ==
  /\ page' = IF session THEN [Hidden EXCEPT !.blocked = TRUE, !.streaming = FALSE,
                                            !.due = FALSE, !.idle = FALSE]
                        ELSE Shown(NoWorkspace, FALSE)
  /\ Leaves

LearnsRefusal(q) ==
  /\ request[q].is = "refused"
  /\ IF Current(q)
     THEN Refused(request[q].workspace) /\ request' = [Outdated EXCEPT ![q] = Idle]
     ELSE /\ request' = [request EXCEPT ![q] = Idle]
          /\ UNCHANGED <<page, stream, frames>>
  /\ UNCHANGED <<server, listener, missed>>

Retry ==
  /\ Change
  /\ page.blocked /\ page.workspace # NoWorkspace
  /\ page' = [page EXCEPT !.blocked = FALSE, !.idle = TRUE]
  /\ UNCHANGED <<stored, granted, session, listener, stream, frames, request, missed>>

\* The page opens its stream, at first and 10 seconds after one ended.
OpenStream ==
  /\ Active /\ ~page.streaming /\ frames = <<>>
  /\ IF Allowed(page.workspace)
     THEN /\ stream' = [is |-> "opening", workspace |-> page.workspace,
                        current |-> Readable(page.workspace), queue |-> <<>>, head |-> "idle"]
          /\ page' = [page EXCEPT !.streaming = TRUE]
          /\ missed' = [load |-> TRUE, view |-> FALSE]
          /\ UNCHANGED <<frames, request>>
     ELSE /\ Refused(page.workspace)
          /\ request' = Outdated
          /\ UNCHANGED missed
  /\ UNCHANGED <<server, listener>>

\* A frame only says that there is something to load.
ReadFrame ==
  /\ page.streaming /\ frames # <<>> /\ Head(frames) \in {"activity", "refresh"}
  /\ page' = [page EXCEPT !.due = TRUE]
  /\ frames' = Tail(frames)
  /\ UNCHANGED <<server, listener, stream, request, missed>>

\* access-revoked: everything shown goes, and the session is read again.
ReadRevoked ==
  /\ page.streaming /\ frames # <<>> /\ Head(frames) = "access-revoked"
  /\ page' = IF session THEN Shown(page.workspace, TRUE) ELSE Shown(NoWorkspace, FALSE)
  /\ request' = Outdated
  /\ Leaves
  /\ UNCHANGED <<server, listener, missed>>

\* The end of the stream loads once more; the stream is opened again later.
ReadEnd ==
  /\ page.streaming /\ frames # <<>> /\ Head(frames) = "end"
  /\ page' = [page EXCEPT !.streaming = FALSE, !.idle = TRUE]
  /\ frames' = Tail(frames)
  /\ UNCHANGED <<server, listener, stream, request, missed>>

-----------------------------------------------------------------------------
Environment ==
  \/ \E e \in Event, r \in Repo : Store(e, r)
  \/ \E r \in Repo : Narrow(r)
  \/ \E w \in Workspace :
       \/ Select(w)
       \/ \E g \in Views : Grant(w, g)
  \/ SessionEnds \/ ListenerDrops \/ StreamBreaks \/ Retry
  \/ \E q \in Request : Unanswered(q)

Server ==
  \/ Reconnect \/ Receive \/ Heartbeat
  \/ Subscribe \/ Revoke \/ Revalidate \/ GetEvent \/ Announce
  \/ \E q \in Request : Read(q) \/ Answer(q)

PageStep ==
  \/ OpenStream \/ ReadFrame \/ ReadRevoked \/ ReadEnd
  \/ \E q \in Request : Begins(q) \/ Poll(q) \/ Arrives(q) \/ LearnsRefusal(q)

Next == Environment \/ Server \/ PageStep

Spec == Init /\ [][Next]_vars

\* Timers fire, requests are handled and answered.
FeedFairness ==
  \A q \in Request : WF_vars(Begins(q)) /\ WF_vars(Read(q)) /\ WF_vars(Answer(q))
                     /\ WF_vars(Arrives(q)) /\ WF_vars(LearnsRefusal(q)) /\ SF_vars(Poll(q))

LiveSpec == Spec /\ FeedFairness

-----------------------------------------------------------------------------
(* Properties. *)

Quiet ==
  /\ listener.notices = <<>> /\ frames = <<>>
  /\ stream # NoStream /\ stream.is = "open" /\ stream.queue = <<>>
  /\ ~page.due /\ ~page.idle
  /\ \A q \in Request : request[q] = Idle

\* Whatever changes while a stream is subscribed reaches the page without a poll: when
\* nothing is on its way any more, the page shows exactly what its viewer may see.
StreamMissesNothing ==
  (Quiet /\ page.verified /\ ~missed.load) => page.shown = Visible(page.workspace)

\* What a page shows was read for the workspace it is in.
AnswersBelong == page.shown # {} => page.of = page.workspace

\* Streams may break and notifications be lost: once nothing changes any more, the page
\* ends up showing what its viewer may see, or nothing.
PageCatchesUp ==
  <>[](page.workspace # NoWorkspace =>
         \/ page.blocked
         \/ page.shown = Visible(page.workspace))
=============================================================================
