---------------------------- MODULE BrowserProofs ----------------------------
(***************************************************************************)
(* Theorems about a browser (MCBrowser) and its parts, for any values of   *)
(* the constants: the page and its stream (LiveFeed), the tab's identity   *)
(* (PageIdentity), what its requests bring (Principals), its addresses     *)
(* (Links), the saved views (SavedViews) and the Review Radar (Radar).     *)
(***************************************************************************)
EXTENDS MCBrowser, TLAPS, FiniteSetTheorems

-----------------------------------------------------------------------------
(* The page and its stream (LiveFeed). *)

Members(s) == {s[i] : i \in 1 .. Len(s)}

IsRefresh(n) == n # Beat /\ n.event = "refresh"

\* A refresh that the stream will be handed, or has been.
RefreshComing ==
  \/ \E n \in Members(stream.queue) : IsRefresh(n)
  \/ \E n \in Members(listener.notices) : IsRefresh(n) /\ Wanted(n)

\* The notice of an event that is stored.
NoticeOf(e) == [scope |-> stored[e].repo, event |-> e]
EventComing(e) == NoticeOf(e) \in Members(stream.queue) \cup Members(listener.notices)

\* The page is about to load, whatever happens.
LoadComing == page.due \/ page.idle \/ frames # <<>> \/ RefreshComing

\* S is what the page's viewer may see, but for what is on its way.
UpToDate(S) ==
  \/ LoadComing
  \/ /\ S \subseteq Visible(page.workspace)
     /\ \A e \in Visible(page.workspace) \ S : EventComing(e)

Underway(q) == request[q] # Idle /\ request[q].fresh

\* Only an event takes more than one step of the stream.
HeadFits ==
  stream # NoStream /\ stream.head # "idle" =>
    /\ stream.is = "open" /\ stream.queue # <<>>
    /\ Head(stream.queue) # Beat /\ Head(stream.queue).event # "refresh"
StreamBelongs ==
  stream # NoStream => stream.workspace = page.workspace /\ ~page.blocked
RequestsBelong ==
  /\ \A q \in Request : Underway(q) => request[q].workspace = page.workspace
  /\ page.verified => page.of = page.workspace
  /\ ~page.verified => page.shown = {}

\* Access the stream has not seen yet comes with a refresh.
ViewFollows ==
  stream # NoStream /\ ~missed.view =>
    \/ stream.current = Readable(stream.workspace)
    \/ stream.is = "open" /\ RefreshComing

\* What was read last, shown or on its way back, is what may be seen, but for what is on
\* its way.
ShownFollows ==
  stream # NoStream /\ ~missed.load =>
    /\ stream.is = "open"
    /\ \A q \in Request : Underway(q) /\ request[q].is \in {"read", "answered"} =>
                            UpToDate(request[q].events)
    /\ page.verified /\ (\A q \in Request : ~Underway(q)) => UpToDate(page.shown)

Belongs == HeadFits /\ StreamBelongs /\ RequestsBelong
Follows == (missed.view => missed.load) /\ ViewFollows /\ ShownFollows
FeedInv == TypeOK /\ Belongs /\ Follows

-----------------------------------------------------------------------------
(* Sequences and records. *)

LEMMA MembersOfAppend ==
  ASSUME NEW T, NEW s \in Seq(T), NEW x \in T
  PROVE  Members(Append(s, x)) = Members(s) \cup {x}
BY DEF Members

LEMMA MembersOfTail ==
  ASSUME NEW T, NEW s \in Seq(T), s # <<>>
  PROVE  /\ Head(s) \in Members(s)
         /\ Members(s) = Members(Tail(s)) \cup {Head(s)}
<1>1. Head(s) = s[1] /\ Len(Tail(s)) = Len(s) - 1 /\ Len(s) \in Nat /\ Len(s) # 0
  OBVIOUS
<1>2. \A i \in 1 .. Len(Tail(s)) : Tail(s)[i] = s[i + 1]
  OBVIOUS
<1>3. \A i \in 1 .. Len(s) : i = 1 \/ (i - 1 \in 1 .. Len(Tail(s)) /\ s[i] = Tail(s)[i - 1])
  BY <1>1, <1>2
<1>4. \A i \in 1 .. Len(Tail(s)) : i + 1 \in 1 .. Len(s)
  BY <1>1
<1>5. \A x \in Members(s) : x \in Members(Tail(s)) \cup {Head(s)}
  <2> SUFFICES ASSUME NEW i \in 1 .. Len(s)
               PROVE  s[i] \in Members(Tail(s)) \cup {Head(s)}
    BY DEF Members
  <2> QED BY <1>1, <1>3 DEF Members
<1>6. \A x \in Members(Tail(s)) : x \in Members(s)
  <2> SUFFICES ASSUME NEW i \in 1 .. Len(Tail(s))
               PROVE  Tail(s)[i] \in Members(s)
    BY DEF Members
  <2> QED BY <1>2, <1>4 DEF Members
<1>7. Head(s) \in Members(s)
  BY <1>1 DEF Members
<1> QED BY <1>5, <1>6, <1>7

LEMMA MembersOfNone == Members(<<>>) = {}
BY DEF Members

LEMMA NoticeIsNoBeat ==
  ASSUME NEW n \in Notice
  PROVE  n # Beat
BY FeedAssumption DEF Notice, Beat

LEMMA StreamOrNone ==
  ASSUME TypeOK, stream # NoStream
  PROVE  /\ stream \in Stream
         /\ stream.queue \in Seq(Notice \cup {Beat})
         /\ stream.workspace \in Workspace /\ stream.current \in SUBSET Repo
BY DEF TypeOK, Stream

LEMMA ReadableTyped ==
  ASSUME TypeOK, NEW w \in Workspace
  PROVE  Readable(w) \in SUBSET Repo
BY DEF TypeOK, Readable, Views, View, NoAccess

LEMMA VisibleTyped ==
  ASSUME NEW w
  PROVE  Visible(w) \in SUBSET Event
BY DEF Visible, Within

LEMMA RequestOrIdle ==
  ASSUME TypeOK, NEW q \in Request, request[q] # Idle
  PROVE  request[q] \in Asked
BY DEF TypeOK

LEMMA OutdatedTyped ==
  ASSUME TypeOK
  PROVE  /\ Outdated \in [Request -> Asked \cup {Idle}]
         /\ \A q \in Request : Outdated[q] # Idle => ~Outdated[q].fresh
<1>1. \A q \in Request : Outdated[q] \in Asked \cup {Idle} /\ (Outdated[q] # Idle => ~Outdated[q].fresh)
  BY RequestOrIdle DEF Outdated, Asked
<1> QED BY <1>1 DEF Outdated

LEMMA PageValues ==
  ASSUME TypeOK, NEW w \in Workspace \cup {NoWorkspace}, NEW b \in BOOLEAN
  PROVE  Shown(w, b) \in Page /\ Hidden \in Page
BY DEF TypeOK, Shown, Page, Hidden

LEMMA FramesWritten ==
  ASSUME TypeOK,
         NEW fs \in Seq({"activity", "refresh", "access-revoked", "end"}), Write(fs)
  PROVE  /\ frames' \in Seq({"activity", "refresh", "access-revoked", "end"})
         /\ frames # <<>> \/ fs # <<>> => frames' # <<>>
BY DEF TypeOK, Write

-----------------------------------------------------------------------------
(* Types. *)

Frame == {"activity", "refresh", "access-revoked", "end"}

LEMMA Notified ==
  ASSUME TypeOK, NEW n \in Notice, Notify(n)
  PROVE  /\ listener' \in [up : BOOLEAN, notices : Seq(Notice)]
         /\ missed' \in [load : BOOLEAN, view : BOOLEAN]
<1>1. listener' \in [up : BOOLEAN, notices : Seq(Notice)]
  <2>1. listener \in [up : BOOLEAN, notices : Seq(Notice)]
    BY DEF TypeOK
  <2>2. Append(listener.notices, n) \in Seq(Notice)
    BY <2>1
  <2>3. listener' = [listener EXCEPT !.notices = Append(listener.notices, n)] \/ listener' = listener
    BY DEF Notify
  <2> QED BY <2>1, <2>2, <2>3
<1>2. Subscribed \in BOOLEAN
  BY DEF TypeOK, Subscribed
<1>3. (missed.load \/ ~Subscribed) \in BOOLEAN
      /\ (missed.view \/ (~Subscribed /\ n.event = "refresh")) \in BOOLEAN
  OBVIOUS
<1> QED BY <1>1, <1>3 DEF Notify

LEMMA StreamEnds ==
  ASSUME TypeOK, NEW fs \in Seq(Frame), Close(fs)
  PROVE  stream' = NoStream /\ frames' \in Seq(Frame)
BY DEF TypeOK, Close, Write, Frame

LEMMA Enqueued ==
  ASSUME TypeOK, stream # NoStream, NEW op \in Notice \cup {Beat}, Enqueue(op)
  PROVE  /\ frames' \in Seq(Frame)
         /\ \/ stream' = NoStream
            \/ /\ stream' = [stream EXCEPT !.queue = Append(@, op)] /\ frames' = frames
               /\ stream' \in Stream /\ Len(stream'.queue) <= MaxQueue
<1>1. stream \in Stream /\ MaxQueue \in Nat
  BY StreamOrNone, FeedAssumption
<1>2. CASE Len(stream.queue) >= MaxQueue
  <2>1. <<>> \in Seq(Frame) /\ Close(<<>>)
    BY <1>2 DEF Enqueue
  <2> QED BY <2>1, StreamEnds
<1>3. CASE ~(Len(stream.queue) >= MaxQueue)
  <2>1. stream' = [stream EXCEPT !.queue = Append(@, op)] /\ frames' = frames
    BY <1>3 DEF Enqueue
  <2>2. Append(stream.queue, op) \in Seq(Notice \cup {Beat})
    BY <1>1 DEF Stream
  <2>3. stream' \in Stream /\ stream'.queue = Append(stream.queue, op)
    BY <1>1, <2>1, <2>2 DEF Stream
  <2>4. Len(stream'.queue) <= MaxQueue
    BY <1>1, <1>3, <2>3 DEF Stream
  <2> QED BY <2>1, <2>3, <2>4 DEF TypeOK, Frame
<1> QED BY <1>2, <1>3

LEMMA Finished ==
  ASSUME TypeOK, Working, NEW S \in SUBSET Repo
  PROVE  LET s == Done([stream EXCEPT !.current = S]) IN
         /\ s \in Stream /\ Len(s.queue) <= MaxQueue
         /\ s.current = S /\ s.queue = Tail(stream.queue) /\ s.head = "idle"
         /\ s.is = "open" /\ s.workspace = stream.workspace
<1>1. stream \in Stream /\ stream.queue # <<>> /\ Len(stream.queue) <= MaxQueue /\ MaxQueue \in Nat
      /\ stream.is = "open"
  BY StreamOrNone, FeedAssumption DEF Working, TypeOK
<1>2. Tail(stream.queue) \in Seq(Notice \cup {Beat}) /\ Len(Tail(stream.queue)) <= MaxQueue
  BY <1>1 DEF Stream
<1> QED BY <1>1, <1>2 DEF Done, Stream

LEMMA Sought ==
  ASSUME TypeOK, Working, NEW S \in SUBSET Repo, NEW h \in {"checked", "found"}
  PROVE  LET s == [stream EXCEPT !.current = S, !.head = h] IN
         /\ s \in Stream /\ Len(s.queue) <= MaxQueue
         /\ s.current = S /\ s.queue = stream.queue /\ s.head = h
         /\ s.is = "open" /\ s.workspace = stream.workspace
<1>1. stream \in Stream /\ Len(stream.queue) <= MaxQueue /\ stream.is = "open"
  BY StreamOrNone DEF Working, TypeOK
<1> QED BY <1>1 DEF Stream

LEMMA ViewChanged ==
  ASSUME NEW v \in [readable : BOOLEAN, repos : SUBSET Repo], NEW S
  PROVE  [v EXCEPT !.repos = S] = [readable |-> v.readable, repos |-> S]
OBVIOUS

LEMMA ChangeTypes ==
  ASSUME TypeOK,
         \/ \E e \in Event, r \in Repo : Store(e, r)
         \/ \E r \in Repo : Narrow(r)
         \/ \E w \in Workspace, g \in Views : Grant(w, g)
  PROVE  TypeOK'
<1>1. ASSUME NEW e \in Event, NEW r \in Repo, Store(e, r)
      PROVE  TypeOK'
  <2>1. [scope |-> r, event |-> e] \in Notice
    BY DEF Notice
  <2>2. stored' \in [Event -> [repo : Repo] \cup {NotStored}]
    BY <1>1 DEF Store, TypeOK
  <2> QED BY <1>1, <2>1, <2>2, Notified DEF TypeOK, Store, browser
<1>2. ASSUME NEW r \in Repo, Narrow(r)
      PROVE  TypeOK'
  <2>1. [scope |-> r, event |-> "refresh"] \in Notice
    BY DEF Notice
  <2>2. \A w \in Workspace : [granted[w] EXCEPT !.repos = @ \ {r}] \in Views
    <3> SUFFICES ASSUME NEW w \in Workspace
                 PROVE  [granted[w] EXCEPT !.repos = @ \ {r}] \in Views
      OBVIOUS
    <3>1. CASE granted[w] = NoAccess
      BY <3>1 DEF Views, NoAccess
    <3>2. ASSUME NEW S \in SUBSET Repo, granted[w] = View(S)
          PROVE  [granted[w] EXCEPT !.repos = @ \ {r}] \in Views
      <4>1. granted[w] \in [readable : BOOLEAN, repos : SUBSET Repo] /\ granted[w].readable
            /\ granted[w].repos = S
        BY <3>2 DEF View
      <4>2. [granted[w] EXCEPT !.repos = @ \ {r}] = [readable |-> TRUE, repos |-> S \ {r}]
        BY <4>1, ViewChanged
      <4>3. [granted[w] EXCEPT !.repos = @ \ {r}] = View(S \ {r})
        BY <4>2 DEF View
      <4> QED BY <4>3 DEF Views
    <3> QED BY <3>1, <3>2 DEF TypeOK, Views
  <2>3. changes' \in 0 .. MaxChanges
    BY <1>2, FeedAssumption DEF Narrow, Change, TypeOK
  <2> QED BY <1>2, <2>1, <2>2, <2>3, Notified DEF TypeOK, Narrow, browser
<1>3. ASSUME NEW w \in Workspace, NEW g \in Views, Grant(w, g)
      PROVE  TypeOK'
  <2>1. [scope |-> "account", event |-> "refresh"] \in Notice
    BY DEF Notice
  <2>2. changes' \in 0 .. MaxChanges
    BY <1>3, FeedAssumption DEF Grant, Change, TypeOK
  <2> QED BY <1>3, <2>1, <2>2, Notified DEF TypeOK, Grant, browser
<1> QED BY <1>1, <1>2, <1>3

LEMMA ConnectionTypes ==
  ASSUME TypeOK, SessionEnds \/ ListenerDrops \/ Reconnect \/ Receive \/ Heartbeat \/ Subscribe
  PROVE  TypeOK'
<1>1. CASE SessionEnds
  <2>1. missed' \in [load : BOOLEAN, view : BOOLEAN]
    BY <1>1 DEF SessionEnds, TypeOK
  <2>2. changes' \in 0 .. MaxChanges
    BY <1>1, FeedAssumption DEF SessionEnds, Change, TypeOK
  <2> QED BY <1>1, <2>1, <2>2 DEF SessionEnds, TypeOK, browser
<1>2. CASE ListenerDrops
  <2>1. listener' \in [up : BOOLEAN, notices : Seq(Notice)]
    BY <1>2 DEF ListenerDrops, TypeOK
  <2>2. missed' \in [load : BOOLEAN, view : BOOLEAN]
    BY <1>2 DEF ListenerDrops, TypeOK
  <2>3. changes' \in 0 .. MaxChanges
    BY <1>2, FeedAssumption DEF ListenerDrops, Change, TypeOK
  <2> QED BY <1>2, <2>1, <2>2, <2>3 DEF ListenerDrops, TypeOK, browser
<1>3. CASE Reconnect
  BY <1>3 DEF Reconnect, TypeOK, browser, server
<1>4. CASE Receive
  <2>1. listener' \in [up : BOOLEAN, notices : Seq(Notice)]
    <3>1. listener \in [up : BOOLEAN, notices : Seq(Notice)] /\ listener.notices # <<>>
      BY <1>4 DEF Receive, TypeOK
    <3>2. Tail(listener.notices) \in Seq(Notice)
      BY <3>1
    <3> QED BY <1>4, <3>1, <3>2 DEF Receive
  <2>2. Head(listener.notices) \in Notice
    <3>1. listener.notices \in Seq(Notice) /\ listener.notices # <<>>
      BY <1>4 DEF Receive, TypeOK
    <3> QED BY <3>1
  <2>3. /\ frames' \in Seq(Frame) /\ stream' \in Stream \cup {NoStream}
        /\ stream' # NoStream => Len(stream'.queue) <= MaxQueue
    <3>1. CASE stream # NoStream /\ Enqueue(Head(listener.notices))
      BY <2>2, <3>1, Enqueued
    <3>2. CASE UNCHANGED <<stream, frames>>
      BY <3>2 DEF TypeOK, Frame
    <3> QED BY <1>4, <3>1, <3>2 DEF Receive
  <2> QED BY <1>4, <2>1, <2>3 DEF Receive, TypeOK, browser, server, Frame
<1>5. CASE Heartbeat
  <2>1. /\ frames' \in Seq(Frame) /\ stream' \in Stream \cup {NoStream}
        /\ stream' # NoStream => Len(stream'.queue) <= MaxQueue
    BY <1>5, Enqueued DEF Heartbeat
  <2> QED BY <1>5, <2>1 DEF Heartbeat, TypeOK, browser, server, Frame
<1>6. CASE Subscribe
  <2>1. stream' \in Stream /\ stream'.queue = stream.queue /\ stream # NoStream
    BY <1>6, StreamOrNone DEF Subscribe, Stream
  <2> QED BY <1>6, <2>1 DEF Subscribe, TypeOK, browser, server
<1> QED BY <1>1, <1>2, <1>3, <1>4, <1>5, <1>6

LEMMA WorkTypes ==
  ASSUME TypeOK, Revoke \/ Revalidate \/ GetEvent \/ Announce \/ StreamBreaks
  PROVE  TypeOK'
<1>s. /\ <<"refresh">> \in Seq(Frame) /\ <<"activity">> \in Seq(Frame) /\ <<>> \in Seq(Frame)
      /\ <<"access-revoked">> \in Seq(Frame)
  BY DEF Frame
<1>r. Working => Readable(stream.workspace) \in SUBSET Repo
  BY StreamOrNone, ReadableTyped DEF Working
<1>1. CASE Revoke
  BY <1>1, <1>s, StreamEnds DEF Revoke, TypeOK, browser, server, Frame
<1>2. CASE StreamBreaks
  <2>1. changes' \in 0 .. MaxChanges
    BY <1>2, FeedAssumption DEF StreamBreaks, Change, TypeOK
  <2> QED BY <1>2, <2>1, <1>s, StreamEnds DEF StreamBreaks, TypeOK, browser, Frame
<1>3. CASE Revalidate
  <2>1. frames' \in Seq(Frame)
    BY <1>3, <1>s, FramesWritten DEF Revalidate, Frame
  <2>2. stream' \in Stream /\ Len(stream'.queue) <= MaxQueue
    BY <1>3, <1>r, Finished, Sought DEF Revalidate
  <2>3. missed' \in [load : BOOLEAN, view : BOOLEAN]
    BY <1>3 DEF Revalidate, TypeOK
  <2> QED BY <1>3, <2>1, <2>2, <2>3 DEF Revalidate, TypeOK, browser, server, Frame
<1>4. CASE GetEvent
  <2>1. stream' \in Stream /\ stream'.queue = stream.queue /\ stream # NoStream
    BY <1>4, StreamOrNone DEF GetEvent, Working, Stream
  <2> QED BY <1>4, <2>1 DEF GetEvent, TypeOK, browser, server
<1>5. CASE Announce
  <2>1. frames' \in Seq(Frame)
    <3>1. ASSUME NEW a \in Seq(Frame), NEW b \in Seq(Frame)
          PROVE  a \o b \in Seq(Frame)
      OBVIOUS
    <3> QED BY <1>5, <1>s, <3>1, FramesWritten DEF Announce, Frame
  <2>2. stream' \in Stream /\ Len(stream'.queue) <= MaxQueue
    BY <1>5, <1>r, Finished DEF Announce
  <2> QED BY <1>5, <2>1, <2>2 DEF Announce, TypeOK, browser, server, Frame
<1> QED BY <1>1, <1>2, <1>3, <1>4, <1>5

LEMMA RefusalTypes ==
  ASSUME TypeOK, NEW w, Refused(w)
  PROVE  page' \in Page /\ stream' = NoStream /\ frames' = <<>>
<1>1. [Hidden EXCEPT !.blocked = TRUE, !.streaming = FALSE, !.due = FALSE, !.idle = FALSE] \in Page
  BY DEF TypeOK, Hidden, Page
<1> QED BY <1>1, PageValues DEF Refused, Leaves

LEMMA AskTypes ==
  ASSUME TypeOK, NEW q \in Request, Active, Ask(q)
  PROVE  /\ request' \in [Request -> Asked \cup {Idle}]
         /\ missed' \in [load : BOOLEAN, view : BOOLEAN]
<1> DEFINE sent == [is |-> "sent", workspace |-> page.workspace, fresh |-> TRUE, events |-> {}]
<1>1. sent \in Asked
  BY DEF Active, TypeOK, Page, Asked
<1>2. request' \in [Request -> Asked \cup {Idle}]
  BY <1>1, OutdatedTyped DEF Ask
<1>3. (~Subscribed \/ missed.view) \in BOOLEAN
  OBVIOUS
<1> QED BY <1>2, <1>3 DEF Ask, TypeOK

LEMMA RequestTypes ==
  ASSUME TypeOK, NEW q \in Request, Begins(q) \/ Poll(q) \/ Read(q) \/ Answer(q) \/ Arrives(q)
  PROVE  TypeOK'
<1>1. CASE Begins(q)
  <2>1. page' \in Page
    BY <1>1 DEF Begins, TypeOK, Page
  <2> QED BY <1>1, <2>1, AskTypes DEF Begins, Ask, TypeOK, server
<1>2. CASE Poll(q)
  BY <1>2, AskTypes DEF Poll, Ask, TypeOK, server
<1>3. CASE Read(q)
  <2>1. request[q] # Idle /\ request[q] \in Asked
    BY <1>3, RequestOrIdle DEF Read, Idle
  <2>2. Visible(request[q].workspace) \in SUBSET Event
    BY VisibleTyped
  <2>3. request' \in [Request -> Asked \cup {Idle}]
    BY <1>3, <2>1, <2>2 DEF Read, Asked, TypeOK
  <2> QED BY <1>3, <2>3 DEF Read, TypeOK, server
<1>4. CASE Answer(q)
  <2>1. request[q] # Idle /\ request[q] \in Asked
    BY <1>4, RequestOrIdle DEF Answer, Idle
  <2>2. request' \in [Request -> Asked \cup {Idle}]
    BY <1>4, <2>1 DEF Answer, Asked, TypeOK
  <2> QED BY <1>4, <2>2 DEF Answer, TypeOK, server
<1>5. CASE Arrives(q)
  <2>1. request[q] \in Asked
    BY <1>5, RequestOrIdle DEF Arrives, Idle
  <2>2. request' \in [Request -> Asked \cup {Idle}]
    BY <1>5 DEF Arrives, TypeOK
  <2>3. page' \in Page
    BY <1>5, <2>1 DEF Arrives, Asked, Page, TypeOK
  <2> QED BY <1>5, <2>2, <2>3 DEF Arrives, TypeOK, server
<1> QED BY <1>1, <1>2, <1>3, <1>4, <1>5

LEMMA PageTypes ==
  ASSUME TypeOK,
         \/ Retry \/ OpenStream \/ ReadFrame \/ ReadRevoked \/ ReadEnd
         \/ \E w \in Workspace : Select(w)
         \/ \E q \in Request : Unanswered(q) \/ LearnsRefusal(q)
  PROVE  TypeOK'
<1>c. Change => changes' \in 0 .. MaxChanges
  BY FeedAssumption DEF Change, TypeOK
<1>o. Outdated \in [Request -> Asked \cup {Idle}]
  BY OutdatedTyped
<1>n. <<>> \in Seq({"activity", "refresh", "access-revoked", "end"})
  OBVIOUS
<1>1. CASE Retry
  <2>1. page' \in Page
    BY <1>1 DEF Retry, TypeOK, Page
  <2> QED BY <1>1, <1>c, <2>1 DEF Retry, TypeOK
<1>2. CASE OpenStream
  <2>1. CASE Allowed(page.workspace)
    <3> DEFINE s == [is |-> "opening", workspace |-> page.workspace,
                     current |-> Readable(page.workspace), queue |-> <<>>, head |-> "idle"]
    <3>1. page.workspace \in Workspace
      BY <1>2 DEF OpenStream, Active, TypeOK, Page
    <3>2. Readable(page.workspace) \in SUBSET Repo /\ <<>> \in Seq(Notice \cup {Beat})
      BY <3>1, ReadableTyped
    <3>3. s \in Stream /\ Len(s.queue) <= MaxQueue
      BY <3>1, <3>2, FeedAssumption DEF Stream
    <3>4. page' \in Page
      BY <1>2, <2>1 DEF OpenStream, TypeOK, Page
    <3>5. /\ stream' = s /\ missed' = [load |-> TRUE, view |-> FALSE]
          /\ UNCHANGED <<frames, request, listener, server>>
      BY <1>2, <2>1 DEF OpenStream
    <3>6. missed' \in [load : BOOLEAN, view : BOOLEAN]
      BY <3>5
    <3> HIDE DEF s
    <3> QED BY <3>3, <3>4, <3>5, <3>6 DEF TypeOK, server
  <2>2. CASE ~Allowed(page.workspace)
    BY <1>2, <2>2, <1>o, <1>n, RefusalTypes DEF OpenStream, TypeOK, server
  <2> QED BY <2>1, <2>2
<1>3. CASE ReadFrame
  <2>1. page' \in Page
    BY <1>3 DEF ReadFrame, TypeOK, Page
  <2>2. Tail(frames) \in Seq({"activity", "refresh", "access-revoked", "end"})
    BY <1>3 DEF ReadFrame, TypeOK
  <2> QED BY <1>3, <2>1, <2>2 DEF ReadFrame, TypeOK, server
<1>4. CASE ReadRevoked
  <2>1. page' \in Page
    BY <1>4, PageValues DEF ReadRevoked, TypeOK, Page
  <2> QED BY <1>4, <1>o, <1>n, <2>1 DEF ReadRevoked, Leaves, TypeOK, server
<1>5. CASE ReadEnd
  <2>1. page' \in Page
    BY <1>5 DEF ReadEnd, TypeOK, Page
  <2>2. Tail(frames) \in Seq({"activity", "refresh", "access-revoked", "end"})
    BY <1>5 DEF ReadEnd, TypeOK
  <2> QED BY <1>5, <2>1, <2>2 DEF ReadEnd, TypeOK, server
<1>6. ASSUME NEW w \in Workspace, Select(w)
      PROVE  TypeOK'
  <2>1. page' \in Page
    BY <1>6, PageValues DEF Select
  <2>2. missed' \in [load : BOOLEAN, view : BOOLEAN]
    BY <1>6 DEF Select, TypeOK
  <2> QED BY <1>6, <1>c, <1>o, <1>n, <2>1, <2>2 DEF Select, Leaves, TypeOK
<1>7. ASSUME NEW q \in Request, Unanswered(q)
      PROVE  TypeOK'
  <2>1. page' \in Page
    BY <1>7, PageValues DEF Unanswered, TypeOK
  <2>2. request' \in [Request -> Asked \cup {Idle}]
    BY <1>7 DEF Unanswered, TypeOK
  <2> QED BY <1>7, <1>c, <2>1, <2>2 DEF Unanswered, TypeOK
<1>8. ASSUME NEW q \in Request, LearnsRefusal(q)
      PROVE  TypeOK'
  <2>1. CASE Current(q)
    <3>1. request' \in [Request -> Asked \cup {Idle}]
      BY <1>8, <1>o, <2>1 DEF LearnsRefusal
    <3> QED BY <1>8, <1>n, <2>1, <3>1, RefusalTypes DEF LearnsRefusal, TypeOK, server
  <2>2. CASE ~Current(q)
    BY <1>8, <2>2 DEF LearnsRefusal, TypeOK, server
  <2> QED BY <2>1, <2>2
<1> QED BY <1>1, <1>2, <1>3, <1>4, <1>5, <1>6, <1>7, <1>8

\* Every step of the feed keeps the types.
LEMMA TypeSteps ==
  ASSUME TypeOK, Next
  PROVE  TypeOK'
BY ChangeTypes, ConnectionTypes, WorkTypes, RequestTypes, PageTypes
   DEF Next, Environment, Server, PageStep

-----------------------------------------------------------------------------
(* The stream and the requests belong to the page. *)

LEMMA NoneUnderway ==
  ASSUME TypeOK,
         request' = Outdated \/ \E q \in Request : request' = [Outdated EXCEPT ![q] = Idle]
  PROVE  \A p \in Request : ~Underway(p)'
<1>1. \A p \in Request : request'[p] = Idle \/ request'[p] = Outdated[p]
  BY DEF Outdated
<1> QED BY <1>1, OutdatedTyped DEF Underway

LEMMA RefusedPage ==
  ASSUME TypeOK, NEW w, Refused(w)
  PROVE  ~page'.verified /\ page'.shown = {}
BY DEF Refused, Hidden, Shown, TypeOK, Page

LEMMA StreamStepsBelong ==
  ASSUME TypeOK, Belongs, UNCHANGED <<page, request>>,
         \/ UNCHANGED stream
         \/ Receive \/ Heartbeat \/ Subscribe \/ Revoke \/ Revalidate \/ GetEvent \/ Announce
         \/ StreamBreaks
  PROVE  Belongs'
<1>1. RequestsBelong'
  BY DEF Belongs, RequestsBelong, Underway
<1>2. ASSUME stream' # NoStream => /\ stream # NoStream
                                   /\ stream'.workspace = stream.workspace
                                   /\ stream'.head # "idle" =>
                                        /\ stream'.is = "open" /\ stream'.queue # <<>>
                                        /\ Head(stream'.queue) # Beat
                                        /\ Head(stream'.queue).event # "refresh"
      PROVE  Belongs'
  BY <1>1, <1>2 DEF Belongs, HeadFits, StreamBelongs
<1>3. CASE UNCHANGED stream
  BY <1>3, <1>1 DEF Belongs, HeadFits, StreamBelongs
<1>4. ASSUME NEW op \in Notice \cup {Beat}, stream # NoStream, Enqueue(op)
      PROVE  Belongs'
  <2>1. CASE stream' = NoStream
    BY <2>1, <1>2
  <2>2. CASE stream' = [stream EXCEPT !.queue = Append(@, op)]
    <3>1. stream \in Stream
      BY <1>4, StreamOrNone
    <3>2. /\ stream'.workspace = stream.workspace /\ stream'.head = stream.head
          /\ stream'.is = stream.is /\ stream'.queue = Append(stream.queue, op)
      BY <2>2, <3>1 DEF Stream
    <3>3. stream.queue # <<>> =>
            stream'.queue # <<>> /\ Head(stream'.queue) = Head(stream.queue)
      BY <3>1, <3>2 DEF Stream
    <3> QED BY <1>2, <1>4, <3>2, <3>3 DEF Belongs, HeadFits
  <2> QED BY <1>4, <2>1, <2>2, Enqueued
<1>5. CASE Receive
  <2>1. CASE UNCHANGED <<stream, frames>>
    BY <1>3, <2>1
  <2>2. CASE stream # NoStream /\ Enqueue(Head(listener.notices))
    <3>1. listener.notices \in Seq(Notice) /\ listener.notices # <<>>
      BY <1>5 DEF Receive, TypeOK
    <3>2. Head(listener.notices) \in Notice
      BY <3>1
    <3> QED BY <1>4, <2>2, <3>2
  <2> QED BY <1>5, <2>1, <2>2 DEF Receive
<1>6. CASE Heartbeat
  BY <1>6, <1>4 DEF Heartbeat
<1>7. CASE Subscribe
  <2>1. /\ stream # NoStream /\ stream.is # "open" /\ stream'.workspace = stream.workspace
        /\ stream'.head = stream.head
    BY <1>7, StreamOrNone DEF Subscribe, Stream
  <2> QED BY <2>1, <1>2 DEF Belongs, HeadFits
<1>8. CASE Revoke \/ StreamBreaks
  BY <1>8, <1>2 DEF Revoke, StreamBreaks, Close
<1>9. CASE Revalidate
  <2> DEFINE op == Head(stream.queue)
             now == Readable(stream.workspace)
  <2>1. Working /\ now \in SUBSET Repo
    BY <1>9, StreamOrNone, ReadableTyped DEF Revalidate, Working
  <2>2. CASE op # Beat /\ op.event # "refresh" /\ op.scope \in now
    <3>1. stream' = [stream EXCEPT !.current = now, !.head = "checked"]
      BY <1>9, <2>2 DEF Revalidate
    <3>2. /\ stream'.workspace = stream.workspace /\ stream'.is = "open"
          /\ stream'.queue = stream.queue /\ stream.queue # <<>> /\ stream # NoStream
      BY <2>1, <3>1, Sought DEF Working
    <3> QED BY <2>2, <3>2, <1>2
  <2>3. CASE ~(op # Beat /\ op.event # "refresh" /\ op.scope \in now)
    <3>1. stream' = Done([stream EXCEPT !.current = now])
      BY <1>9, <2>3 DEF Revalidate
    <3>2. stream'.workspace = stream.workspace /\ stream'.head = "idle" /\ stream # NoStream
      BY <2>1, <3>1, Finished DEF Working
    <3> QED BY <3>2, <1>2
  <2> QED BY <2>2, <2>3
<1>10. CASE GetEvent
  <2>1. /\ stream # NoStream /\ stream.head = "checked" /\ stream'.workspace = stream.workspace
        /\ stream'.queue = stream.queue /\ stream'.is = stream.is
    BY <1>10, StreamOrNone DEF GetEvent, Working, Stream
  <2> QED BY <2>1, <1>2 DEF Belongs, HeadFits
<1>11. CASE Announce
  <2>1. Readable(stream.workspace) \in SUBSET Repo /\ Working
    BY <1>11, StreamOrNone, ReadableTyped DEF Announce, Working
  <2>2. stream' = Done([stream EXCEPT !.current = Readable(stream.workspace)])
    BY <1>11 DEF Announce
  <2>3. stream'.workspace = stream.workspace /\ stream'.head = "idle" /\ stream # NoStream
    BY <2>1, <2>2, Finished DEF Working
  <2> QED BY <2>3, <1>2
<1> QED BY <1>3, <1>5, <1>6, <1>7, <1>8, <1>9, <1>10, <1>11

LEMMA AskBelongs ==
  ASSUME TypeOK, NEW q \in Request, Active, Ask(q)
  PROVE  /\ \A p \in Request : Underway(p)' => p = q
         /\ Underway(q)' /\ request'[q].is = "sent" /\ request'[q].workspace = page.workspace
<1> DEFINE sent == [is |-> "sent", workspace |-> page.workspace, fresh |-> TRUE, events |-> {}]
<1>1. \A p \in Request : request'[p] = IF p = q THEN sent ELSE Outdated[p]
  BY OutdatedTyped DEF Ask
<1>2. sent # Idle
  BY DEF Idle
<1> QED BY <1>1, <1>2, OutdatedTyped DEF Underway

LEMMA RequestStepsBelong ==
  ASSUME TypeOK, Belongs, NEW q \in Request,
         Begins(q) \/ Poll(q) \/ Read(q) \/ Answer(q) \/ Arrives(q) \/ Unanswered(q)
  PROVE  Belongs'
<1>s. UNCHANGED stream
  BY DEF Begins, Poll, Read, Answer, Arrives, Unanswered, server
<1>h. HeadFits'
  BY <1>s DEF Belongs, HeadFits
<1>w. page'.workspace = page.workspace /\ page'.blocked = page.blocked
  <2>1. Hidden.workspace = page.workspace /\ Hidden.blocked = page.blocked
    BY DEF Hidden, TypeOK, Page
  <2> QED BY <2>1 DEF Begins, Poll, Read, Answer, Arrives, Unanswered, TypeOK, Page
<1>b. StreamBelongs'
  BY <1>s, <1>w DEF Belongs, StreamBelongs
<1>1. CASE Begins(q) \/ Poll(q)
  <2>1. /\ Active /\ Ask(q) /\ page'.verified = page.verified /\ page'.of = page.of
        /\ page'.shown = page.shown
    BY <1>1 DEF Begins, Poll, Ask, TypeOK, Page
  <2>2. \A p \in Request : Underway(p)' => request'[p].workspace = page'.workspace
    BY <2>1, <1>w, AskBelongs
  <2> QED BY <1>h, <1>b, <1>w, <2>1, <2>2 DEF Belongs, RequestsBelong
<1>2. ASSUME Read(q) \/ Answer(q)
      PROVE  Belongs'
  <2>1. request[q] # Idle /\ request[q] \in Asked
    BY <1>2, RequestOrIdle DEF Read, Answer, Idle
  <2>2. /\ request'[q] # Idle /\ request'[q].fresh = request[q].fresh
        /\ request'[q].workspace = request[q].workspace
    BY <1>2, <2>1 DEF Read, Answer, TypeOK, Asked, Idle
  <2>3. \A p \in Request : p # q => request'[p] = request[p]
    BY <1>2 DEF Read, Answer, TypeOK
  <2>4. \A p \in Request : Underway(p)' => Underway(p) /\ request'[p].workspace = request[p].workspace
    BY <2>1, <2>2, <2>3 DEF Underway
  <2>5. page' = page
    BY <1>2 DEF Read, Answer
  <2> QED BY <1>h, <1>b, <2>4, <2>5 DEF Belongs, RequestsBelong
<1>3. ASSUME Arrives(q) \/ Unanswered(q)
      PROVE  Belongs'
  <2>1. request[q] # Idle
    BY <1>3 DEF Arrives, Unanswered, Idle
  <2>2. \A p \in Request : request'[p] = IF p = q THEN Idle ELSE request[p]
    BY <1>3 DEF Arrives, Unanswered, TypeOK
  <2>3. \A p \in Request : Underway(p)' => Underway(p) /\ request'[p] = request[p]
    BY <2>2 DEF Underway
  <2>4. /\ page'.verified => page'.of = page'.workspace
        /\ ~page'.verified => page'.shown = {}
    <3>1. CASE ~Current(q)
      BY <1>3, <3>1 DEF Arrives, Unanswered, Belongs, RequestsBelong
    <3>2. CASE Current(q) /\ Arrives(q)
      <4>1. request[q].workspace = page.workspace
        BY <2>1, <3>2 DEF Current, Underway, Belongs, RequestsBelong
      <4>2. page' = [page EXCEPT !.shown = request[q].events, !.of = request[q].workspace,
                                 !.verified = TRUE]
        BY <3>2 DEF Arrives
      <4> QED BY <4>1, <4>2 DEF TypeOK, Page
    <3>3. CASE Current(q) /\ Unanswered(q)
      BY <3>3 DEF Unanswered, Hidden, TypeOK, Page
    <3> QED BY <1>3, <3>1, <3>2, <3>3
  <2> QED BY <1>h, <1>b, <1>w, <2>3, <2>4 DEF Belongs, RequestsBelong
<1> QED BY <1>1, <1>2, <1>3

LEMMA PageStepsBelong ==
  ASSUME TypeOK, Belongs,
         \/ Retry \/ OpenStream \/ ReadFrame \/ ReadRevoked \/ ReadEnd
         \/ \E w \in Workspace : Select(w)
         \/ \E q \in Request : LearnsRefusal(q)
  PROVE  Belongs'
\* The page starts over and lets go of its stream and of its requests.
<1>1. ASSUME stream' = NoStream, \A p \in Request : ~Underway(p)',
             ~page'.verified, page'.shown = {}
      PROVE  Belongs'
  BY <1>1 DEF Belongs, HeadFits, StreamBelongs, RequestsBelong
\* The page goes on as it is.
<1>2. ASSUME UNCHANGED <<stream, request>>, page'.workspace = page.workspace,
             page'.blocked = page.blocked \/ stream = NoStream, page'.of = page.of,
             page'.verified = page.verified, page'.shown = page.shown
      PROVE  Belongs'
  BY <1>2 DEF Belongs, HeadFits, StreamBelongs, RequestsBelong, Underway
<1>3. CASE Retry
  <2>1. stream = NoStream
    BY <1>3 DEF Retry, Belongs, StreamBelongs
  <2>2. /\ page'.workspace = page.workspace /\ page'.of = page.of
        /\ page'.verified = page.verified /\ page'.shown = page.shown
    BY <1>3 DEF Retry, TypeOK, Page
  <2> QED BY <1>2, <1>3, <2>1, <2>2 DEF Retry
<1>4. CASE OpenStream /\ Allowed(page.workspace)
  <2>1. /\ stream' = [is |-> "opening", workspace |-> page.workspace,
                      current |-> Readable(page.workspace), queue |-> <<>>, head |-> "idle"]
        /\ page' = [page EXCEPT !.streaming = TRUE] /\ request' = request /\ ~page.blocked
    BY <1>4 DEF OpenStream, Active
  <2>2. stream'.workspace = page.workspace /\ stream'.head = "idle"
    BY <2>1
  <2>3. /\ page'.workspace = page.workspace /\ page'.of = page.of /\ page'.blocked = page.blocked
        /\ page'.verified = page.verified /\ page'.shown = page.shown
    BY <2>1 DEF TypeOK, Page
  <2> QED BY <2>1, <2>2, <2>3 DEF Belongs, HeadFits, StreamBelongs, RequestsBelong, Underway
<1>5. CASE OpenStream /\ ~Allowed(page.workspace)
  BY <1>1, <1>5, RefusedPage, RefusalTypes, NoneUnderway DEF OpenStream
<1>6. CASE ReadFrame \/ ReadEnd
  <2>1. /\ page'.workspace = page.workspace /\ page'.of = page.of /\ page'.blocked = page.blocked
        /\ page'.verified = page.verified /\ page'.shown = page.shown
    BY <1>6 DEF ReadFrame, ReadEnd, TypeOK, Page
  <2> QED BY <1>2, <1>6, <2>1 DEF ReadFrame, ReadEnd
<1>7. CASE ReadRevoked
  BY <1>1, <1>7, NoneUnderway DEF ReadRevoked, Leaves, Shown
<1>8. ASSUME NEW w \in Workspace, Select(w)
      PROVE  Belongs'
  BY <1>1, <1>8, NoneUnderway DEF Select, Leaves, Shown
<1>9. ASSUME NEW q \in Request, LearnsRefusal(q)
      PROVE  Belongs'
  <2>1. CASE Current(q)
    BY <1>1, <1>9, <2>1, RefusedPage, RefusalTypes, NoneUnderway DEF LearnsRefusal
  <2>2. CASE ~Current(q)
    <3>1. \A p \in Request : request'[p] = IF p = q THEN Idle ELSE request[p]
      BY <1>9, <2>2 DEF LearnsRefusal, TypeOK
    <3>2. \A p \in Request : Underway(p)' => Underway(p) /\ request'[p] = request[p]
      BY <3>1 DEF Underway
    <3>3. UNCHANGED <<page, stream>>
      BY <1>9, <2>2 DEF LearnsRefusal
    <3> QED BY <3>2, <3>3 DEF Belongs, HeadFits, StreamBelongs, RequestsBelong
  <2> QED BY <2>1, <2>2
<1> QED BY <1>3, <1>4, <1>5, <1>6, <1>7, <1>8, <1>9

\* No step mixes the streams, requests or pages of two workspaces.
LEMMA BelongSteps ==
  ASSUME TypeOK, Belongs, Next
  PROVE  Belongs'
<1>1. CASE \/ \E e \in Event, r \in Repo : Store(e, r)
           \/ \E r \in Repo : Narrow(r)
           \/ \E w \in Workspace, g \in Views : Grant(w, g)
           \/ SessionEnds \/ ListenerDrops \/ Reconnect
  <2>1. UNCHANGED <<stream, page, request>>
    BY <1>1 DEF Store, Narrow, Grant, SessionEnds, ListenerDrops, Reconnect, browser
  <2> QED BY <2>1, StreamStepsBelong
<1>2. CASE \/ Receive \/ Heartbeat \/ Subscribe \/ Revoke \/ Revalidate \/ GetEvent \/ Announce
           \/ StreamBreaks
  <2>1. UNCHANGED <<page, request>>
    BY <1>2 DEF Receive, Heartbeat, Subscribe, Revoke, Revalidate, GetEvent, Announce,
                StreamBreaks, browser
  <2> QED BY <1>2, <2>1, StreamStepsBelong
<1>3. CASE \E q \in Request : \/ Begins(q) \/ Poll(q) \/ Read(q) \/ Answer(q) \/ Arrives(q)
                              \/ Unanswered(q)
  BY <1>3, RequestStepsBelong
<1>4. CASE \/ Retry \/ OpenStream \/ ReadFrame \/ ReadRevoked \/ ReadEnd
           \/ \E w \in Workspace : Select(w)
           \/ \E q \in Request : LearnsRefusal(q)
  BY <1>4, PageStepsBelong
<1> QED BY <1>1, <1>2, <1>3, <1>4 DEF Next, Environment, Server, PageStep

-----------------------------------------------------------------------------
(* The page follows what its viewer may see. *)

\* Whatever was up to date stays so.
Kept == \A S : UpToDate(S) => UpToDate(S)'

\* A step behind the page's back.
LEMMA BehindThePage ==
  ASSUME Follows, UNCHANGED <<page, request>>, missed'.view => missed'.load, ViewFollows',
         stream' # NoStream /\ ~missed'.load =>
           /\ stream # NoStream /\ ~missed.load /\ Kept
           /\ stream.is = "open" => stream'.is = "open"
  PROVE  Follows'
<1> SUFFICES ASSUME stream' # NoStream, ~missed'.load
             PROVE  ShownFollows'
  BY DEF Follows, ShownFollows
<1>1. /\ stream.is = "open"
      /\ \A q \in Request : Underway(q) /\ request[q].is \in {"read", "answered"} =>
                              UpToDate(request[q].events)
      /\ page.verified /\ (\A q \in Request : ~Underway(q)) => UpToDate(page.shown)
  BY DEF Follows, ShownFollows
<1>2. \A q \in Request : Underway(q)' = Underway(q)
  BY DEF Underway
<1>3. ASSUME NEW q \in Request, Underway(q), request[q].is \in {"read", "answered"}
      PROVE  UpToDate(request[q].events)'
  <2>1. PICK S : S = request[q].events
    OBVIOUS
  <2>2. UpToDate(S)'
    BY <1>1, <1>3, <2>1 DEF Kept
  <2>3. request'[q].events = S
    BY <2>1
  <2> QED BY <2>2, <2>3 DEF UpToDate
<1>4. ASSUME page.verified, \A q \in Request : ~Underway(q)
      PROVE  UpToDate(page.shown)'
  <2>1. PICK S : S = page.shown
    OBVIOUS
  <2>2. UpToDate(S)'
    BY <1>1, <1>4, <2>1 DEF Kept
  <2>3. page'.shown = S
    BY <2>1
  <2> QED BY <2>2, <2>3 DEF UpToDate
<1> QED BY <1>1, <1>2, <1>3, <1>4 DEF ShownFollows

LEMMA NoticeKept ==
  ASSUME TypeOK, NEW n \in Notice, Notify(n)
  PROVE  /\ Members(listener.notices) \subseteq Members(listener'.notices)
         /\ Subscribed => n \in Members(listener'.notices)
<1>1. listener \in [up : BOOLEAN, notices : Seq(Notice)]
  BY DEF TypeOK
<1>2. CASE listener.up
  <2>1. listener' = [listener EXCEPT !.notices = Append(listener.notices, n)]
    BY <1>2 DEF Notify
  <2>2. listener'.notices = Append(listener.notices, n)
    BY <1>1, <2>1
  <2> QED BY <1>1, <2>2, MembersOfAppend
<1>3. CASE ~listener.up
  BY <1>3 DEF Notify, Subscribed
<1> QED BY <1>2, <1>3

\* A change of access that the stream can report is reported.
LEMMA AccessReported ==
  ASSUME TypeOK, Follows, stream # NoStream, ~missed'.view, UNCHANGED stream,
         (\E r \in Repo : Narrow(r)) \/ (\E w \in Workspace, g \in Views : Grant(w, g))
  PROVE  /\ RefreshComing => RefreshComing'
         /\ Readable(stream.workspace)' = Readable(stream.workspace) \/ RefreshComing'
         /\ ~missed.view /\ Subscribed
<1>s. stream.workspace \in Workspace /\ stream.current \in SUBSET Repo
  BY StreamOrNone
<1>1. ASSUME NEW n \in Notice, n.event = "refresh", Notify(n)
      PROVE  /\ RefreshComing => RefreshComing'
             /\ n \in Members(listener'.notices) /\ ~missed.view /\ Subscribed
             /\ Wanted(n) => RefreshComing'
  <2>1. Subscribed /\ ~missed.view
    BY <1>1 DEF Notify
  <2>2. n \in Members(listener'.notices) /\ Members(listener.notices) \subseteq Members(listener'.notices)
    BY <1>1, <2>1, NoticeKept
  <2>3. IsRefresh(n)
    BY <1>1, NoticeIsNoBeat DEF IsRefresh
  <2> QED BY <2>1, <2>2, <2>3 DEF RefreshComing, Wanted
<1>2. ASSUME NEW r \in Repo, Narrow(r)
      PROVE  /\ RefreshComing => RefreshComing'
             /\ Readable(stream.workspace)' = Readable(stream.workspace) \/ RefreshComing'
             /\ ~missed.view /\ Subscribed
  <2> DEFINE n == [scope |-> r, event |-> "refresh"]
  <2>1. n \in Notice /\ n.event = "refresh" /\ n.scope = r /\ Notify(n)
    BY <1>2 DEF Notice, Narrow
  <2> HIDE DEF n
  <2>2. /\ RefreshComing => RefreshComing'
        /\ ~missed.view /\ Subscribed
        /\ Wanted(n) => RefreshComing'
    BY <2>1, <1>1
  <2>3. Readable(stream.workspace)' = Readable(stream.workspace) \ {r}
    <3>1. granted[stream.workspace] \in [readable : BOOLEAN, repos : SUBSET Repo]
      <4>1. granted[stream.workspace] \in Views
        BY <1>s DEF TypeOK
      <4>2. \A g \in Views : g \in [readable : BOOLEAN, repos : SUBSET Repo]
        <5>1. NoAccess \in [readable : BOOLEAN, repos : SUBSET Repo]
          BY DEF NoAccess
        <5>2. \A S \in SUBSET Repo : View(S) \in [readable : BOOLEAN, repos : SUBSET Repo]
          BY DEF View
        <5> QED BY <5>1, <5>2 DEF Views
      <4> QED BY <4>1, <4>2
    <3>2. granted'[stream.workspace] = [granted[stream.workspace] EXCEPT !.repos = @ \ {r}]
      BY <1>s, <1>2 DEF Narrow
    <3> QED BY <3>1, <3>2 DEF Readable
  <2>4. CASE r \in stream.current
    BY <2>1, <2>2, <2>4 DEF Wanted
  <2>5. CASE r \notin stream.current
    <3>1. stream.current = Readable(stream.workspace) \/ RefreshComing
      BY <2>2 DEF Follows, ViewFollows
    <3> QED BY <2>2, <2>3, <2>5, <3>1
  <2> QED BY <2>4, <2>5
<1>3. ASSUME NEW w \in Workspace, NEW g \in Views, Grant(w, g)
      PROVE  /\ RefreshComing => RefreshComing'
             /\ Readable(stream.workspace)' = Readable(stream.workspace) \/ RefreshComing'
             /\ ~missed.view /\ Subscribed
  <2> DEFINE n == [scope |-> "account", event |-> "refresh"]
  <2>1. n \in Notice /\ n.event = "refresh" /\ n.scope = "account" /\ Notify(n)
    BY <1>3 DEF Notice, Grant
  <2> HIDE DEF n
  <2> QED BY <2>1, <1>1 DEF Wanted
<1> QED BY <1>2, <1>3

\* A change of access is announced, or is counted as missed.
LEMMA AccessChangeFollows ==
  ASSUME FeedInv,
         (\E r \in Repo : Narrow(r)) \/ (\E w \in Workspace, g \in Views : Grant(w, g))
  PROVE  Follows'
<1>i. TypeOK /\ Follows /\ StreamBelongs
  BY DEF FeedInv, Belongs
<1>u. UNCHANGED <<page, request, stream, frames, stored>>
  BY DEF Narrow, Grant, browser
<1>m. /\ missed'.view => missed'.load
      /\ ~missed'.load => ~missed.load
      /\ ~missed'.view => ~missed.view
  <2>1. PICK n : Notify(n)
    BY DEF Narrow, Grant
  <2>2. missed' = [load |-> missed.load \/ ~Subscribed,
                   view |-> missed.view \/ (~Subscribed /\ n.event = "refresh")]
    BY <2>1 DEF Notify
  <2>3. missed.view => missed.load
    BY <1>i DEF Follows
  <2> QED BY <2>2, <2>3
<1>1. ViewFollows'
  <2> SUFFICES ASSUME stream # NoStream, ~missed'.view
               PROVE  \/ stream.current = Readable(stream.workspace)'
                      \/ stream.is = "open" /\ RefreshComing'
    BY <1>u DEF ViewFollows, Readable
  <2>1. /\ RefreshComing => RefreshComing'
        /\ Readable(stream.workspace)' = Readable(stream.workspace) \/ RefreshComing'
        /\ Subscribed
    BY <1>i, <1>u, AccessReported
  <2>2. stream.current = Readable(stream.workspace) \/ RefreshComing
    BY <1>i, <1>m DEF Follows, ViewFollows
  <2> QED BY <2>1, <2>2 DEF Subscribed
<1>2. ASSUME stream # NoStream, ~missed'.load
      PROVE  Kept
  <2>1. /\ RefreshComing => RefreshComing'
        /\ Readable(page.workspace)' = Readable(page.workspace) \/ RefreshComing'
    BY <1>2, <1>i, <1>u, <1>m, AccessReported DEF StreamBelongs, Readable
  <2>2. LoadComing => LoadComing'
    BY <1>u, <2>1 DEF LoadComing
  <2>3. RefreshComing' => LoadComing'
    BY DEF LoadComing
  <2>4. \A e : EventComing(e) => EventComing(e)'
    <3>1. PICK n \in Notice : Notify(n)
      BY DEF Narrow, Grant, Notice
    <3>2. Members(listener.notices) \subseteq Members(listener'.notices)
      BY <3>1, <1>i, NoticeKept
    <3> QED BY <1>u, <3>2 DEF EventComing, NoticeOf
  <2>5. Readable(page.workspace)' = Readable(page.workspace) =>
          Visible(page.workspace)' = Visible(page.workspace)
    BY <1>u DEF Visible, Within
  <2> QED BY <2>1, <2>2, <2>3, <2>4, <2>5 DEF Kept, UpToDate
<1> QED BY <1>1, <1>2, <1>i, <1>u, <1>m, BehindThePage

\* So is a stored event.
LEMMA StoreFollows ==
  ASSUME FeedInv, NEW e \in Event, NEW r \in Repo, Store(e, r)
  PROVE  Follows'
<1> DEFINE n == [scope |-> r, event |-> e]
<1>i. TypeOK /\ Follows
  BY DEF FeedInv
<1>u. UNCHANGED <<page, request, stream, frames, granted>>
  BY DEF Store, browser
<1>n. n \in Notice /\ Notify(n) /\ n.event # "refresh"
  BY FeedAssumption DEF Store, Notice
<1>m. /\ missed'.view => missed'.load
      /\ ~missed'.load => ~missed.load /\ Subscribed
      /\ ~missed'.view => ~missed.view
  <2>1. missed' = [load |-> missed.load \/ ~Subscribed,
                   view |-> missed.view \/ (~Subscribed /\ n.event = "refresh")]
    BY <1>n DEF Notify
  <2>2. missed.view => missed.load
    BY <1>i DEF Follows
  <2> QED BY <2>1, <2>2, <1>n
<1>k. /\ Members(listener.notices) \subseteq Members(listener'.notices)
      /\ Subscribed => n \in Members(listener'.notices)
  BY <1>i, <1>n, NoticeKept
<1>r. RefreshComing => RefreshComing'
  BY <1>u, <1>k DEF RefreshComing, Wanted
<1>1. ViewFollows'
  BY <1>i, <1>u, <1>m, <1>r DEF Follows, ViewFollows, Readable
<1>2. ASSUME stream # NoStream, ~missed'.load
      PROVE  Kept
  <2>1. LoadComing => LoadComing'
    BY <1>u, <1>r DEF LoadComing
  <2>2. /\ stored[e] = NotStored
        /\ \A x \in Event : stored'[x] = IF x = e THEN [repo |-> r] ELSE stored[x]
    BY <1>i DEF Store, TypeOK
  <2>3. /\ Visible(page.workspace) \subseteq Visible(page.workspace)'
        /\ \A x \in Visible(page.workspace)' : x \in Visible(page.workspace) \/ x = e
        /\ e \notin Visible(page.workspace)
    BY <1>u, <2>2 DEF Visible, Within, Readable
  <2>4. EventComing(e)'
    <3>1. NoticeOf(e)' = n
      BY <2>2 DEF NoticeOf
    <3> QED BY <3>1, <1>2, <1>m, <1>k DEF EventComing
  <2>5. \A x \in Visible(page.workspace) : EventComing(x) => EventComing(x)'
    <3> SUFFICES ASSUME NEW x \in Visible(page.workspace), EventComing(x)
                 PROVE  EventComing(x)'
      OBVIOUS
    <3>1. x \in Event /\ x # e
      BY <2>3 DEF Visible, Within
    <3>2. NoticeOf(x)' = NoticeOf(x)
      BY <3>1, <2>2 DEF NoticeOf
    <3> QED BY <3>2, <1>u, <1>k DEF EventComing
  <2> QED BY <2>1, <2>3, <2>4, <2>5 DEF Kept, UpToDate
<1> QED BY <1>1, <1>2, <1>i, <1>u, <1>m, BehindThePage

\* A listener that drops takes its notices with it, and the stream with its subscription.
LEMMA ListenerFollows ==
  ASSUME FeedInv, SessionEnds \/ ListenerDrops \/ Reconnect
  PROVE  Follows'
<1>i. TypeOK /\ Follows
  BY DEF FeedInv
<1>u. UNCHANGED <<page, request, stream, frames, granted, stored>>
  BY DEF SessionEnds, ListenerDrops, Reconnect, browser, server
<1>1. CASE ListenerDrops /\ listener.notices # <<>>
  <2>1. missed' = [load |-> TRUE, view |-> TRUE]
    BY <1>1, <1>i DEF ListenerDrops, TypeOK
  <2>2. missed'.load /\ missed'.view
    BY <2>1
  <2> QED BY <2>2 DEF Follows, ViewFollows, ShownFollows
<1>2. CASE listener.notices = listener'.notices
  <2>1. /\ missed'.view => missed'.load
        /\ ~missed'.load => ~missed.load
        /\ missed'.view = missed.view
    BY <1>2, <1>i DEF SessionEnds, ListenerDrops, Reconnect, TypeOK, Follows
  <2>2. RefreshComing' = RefreshComing /\ \A x : EventComing(x)' = EventComing(x)
    BY <1>2, <1>u DEF RefreshComing, EventComing, NoticeOf, Wanted
  <2>3. ViewFollows'
    BY <2>1, <2>2, <1>i, <1>u DEF Follows, ViewFollows, Readable
  <2>4. Kept
    BY <2>2, <1>u DEF Kept, UpToDate, LoadComing, Visible, Within, Readable
  <2> QED BY <2>1, <2>3, <2>4, <1>i, <1>u, BehindThePage
<1>3. \/ ListenerDrops /\ listener.notices # <<>>
      \/ listener.notices = listener'.notices
  <2>1. listener \in [up : BOOLEAN, notices : Seq(Notice)]
    BY <1>i DEF TypeOK
  <2>2. CASE Reconnect
    <3>1. listener' = [listener EXCEPT !.up = TRUE]
      BY <2>2 DEF Reconnect
    <3> QED BY <2>1, <3>1
  <2>3. CASE SessionEnds
    BY <2>3 DEF SessionEnds
  <2>4. CASE ListenerDrops
    BY <2>4 DEF ListenerDrops
  <2> QED BY <2>2, <2>3, <2>4
<1> QED BY <1>1, <1>2, <1>3

\* The stream's own steps leave the database and what was missed alone.
LEMMA StreamGone ==
  ASSUME Follows, stream' = NoStream, missed'.view => missed'.load
  PROVE  Follows'
BY DEF Follows, ViewFollows, ShownFollows

LEMMA QueueGrows ==
  ASSUME TypeOK, stream # NoStream, NEW op \in Notice \cup {Beat},
         stream' = [stream EXCEPT !.queue = Append(@, op)]
  PROVE  /\ Members(stream'.queue) = Members(stream.queue) \cup {op}
         /\ stream'.current = stream.current /\ stream'.workspace = stream.workspace
         /\ stream'.is = stream.is
<1>1. stream \in Stream
  BY StreamOrNone
<1>2. stream'.queue = Append(stream.queue, op) /\ stream.queue \in Seq(Notice \cup {Beat})
  BY <1>1 DEF Stream
<1>3. /\ stream'.current = stream.current /\ stream'.workspace = stream.workspace
      /\ stream'.is = stream.is
  BY <1>1 DEF Stream
<1> QED BY <1>2, <1>3, MembersOfAppend

\* A notice the process handles joins the queue of the stream it is for.
LEMMA ReceiveFollows ==
  ASSUME FeedInv, Receive
  PROVE  Follows'
<1> DEFINE n == Head(listener.notices)
<1>i. TypeOK /\ Follows /\ StreamBelongs
  BY DEF FeedInv, Belongs
<1>u. UNCHANGED <<stored, granted, page, request, missed>>
  BY DEF Receive, browser, server
<1>v. missed.view => missed.load
  BY <1>i DEF Follows
<1>n. /\ n \in Notice /\ n \in Members(listener.notices)
      /\ Members(listener.notices) = Members(listener'.notices) \cup {n}
  <2>1. /\ listener \in [up : BOOLEAN, notices : Seq(Notice)] /\ listener.notices # <<>>
        /\ listener' = [listener EXCEPT !.notices = Tail(@)]
    BY <1>i DEF TypeOK, Receive
  <2>2. listener'.notices = Tail(listener.notices) /\ Head(listener.notices) \in Notice
    BY <2>1
  <2> QED BY <2>1, <2>2, MembersOfTail
<1> HIDE DEF n
<1>1. CASE stream' = NoStream
  BY <1>1, <1>i, <1>u, <1>v, StreamGone
<1>2. CASE stream # NoStream /\ stream' = [stream EXCEPT !.queue = Append(@, n)] /\ frames' = frames
  <2>1. /\ Members(stream'.queue) = Members(stream.queue) \cup {n}
        /\ stream'.current = stream.current /\ stream'.workspace = stream.workspace
        /\ stream'.is = stream.is
    BY <1>2, <1>i, <1>n, QueueGrows
  <2>2. RefreshComing => RefreshComing'
    BY <2>1, <1>n DEF RefreshComing, Wanted
  <2>3. \A x : EventComing(x) => EventComing(x)'
    BY <2>1, <1>n, <1>u DEF EventComing, NoticeOf
  <2>4. Kept
    BY <2>2, <2>3, <1>2, <1>u DEF Kept, UpToDate, LoadComing, Visible, Within, Readable
  <2>5. ViewFollows'
    BY <2>1, <2>2, <1>i, <1>2, <1>u DEF Follows, ViewFollows, Readable
  <2> QED BY <2>1, <2>4, <2>5, <1>2, <1>i, <1>u, <1>v, BehindThePage
<1>3. CASE UNCHANGED <<stream, frames>> /\ ~(stream.is = "open" /\ Wanted(n))
  <2>1. RefreshComing /\ stream.is = "open" => RefreshComing'
    BY <1>3, <1>n DEF RefreshComing, Wanted
  <2>2. ViewFollows'
    BY <2>1, <1>i, <1>3, <1>u DEF Follows, ViewFollows, Readable
  <2>3. ASSUME stream # NoStream, ~missed.load
        PROVE  Kept
    <3>1. stream.is = "open" /\ ~Wanted(n)
      BY <2>3, <1>i, <1>3 DEF Follows, ShownFollows
    <3>2. stream.current = Readable(page.workspace) \/ RefreshComing
      BY <2>3, <1>i, <1>v DEF Follows, ViewFollows, StreamBelongs
    <3>3. RefreshComing => RefreshComing'
      BY <2>1, <3>1
    <3>4. RefreshComing' => LoadComing'
      BY DEF LoadComing
    <3>5. LoadComing => LoadComing'
      BY <1>3, <1>u, <3>3 DEF LoadComing
    <3>6. ASSUME stream.current = Readable(page.workspace),
                 NEW x \in Visible(page.workspace), EventComing(x)
          PROVE  EventComing(x)'
      <4>1. NoticeOf(x).scope \in stream.current
        BY <3>6 DEF NoticeOf, Visible, Within
      <4>2. NoticeOf(x) # n
        BY <3>1, <4>1 DEF Wanted
      <4> QED BY <3>6, <4>2, <1>n, <1>3, <1>u DEF EventComing, NoticeOf
    <3>7. Visible(page.workspace)' = Visible(page.workspace)
      BY <1>u DEF Visible, Within, Readable
    <3> QED BY <3>2, <3>3, <3>4, <3>5, <3>6, <3>7 DEF Kept, UpToDate
  <2> QED BY <2>2, <2>3, <1>3, <1>i, <1>u, <1>v, BehindThePage
<1>4. CASE stream = NoStream /\ UNCHANGED stream
  BY <1>1, <1>4
<1>5. CASE stream # NoStream /\ stream.is = "open" /\ Wanted(n)
  <2>1. Enqueue(n)
    BY <1>5 DEF Receive, n
  <2> QED BY <1>1, <1>2, <1>5, <1>i, <1>n, <2>1, Enqueued
<1>6. CASE ~(stream # NoStream /\ stream.is = "open" /\ Wanted(n))
  <2>1. UNCHANGED <<stream, frames>>
    BY <1>6 DEF Receive, n
  <2> QED BY <1>3, <1>4, <1>6, <2>1
<1> QED BY <1>5, <1>6

LEMMA QuietStepsFollow ==
  ASSUME FeedInv, Heartbeat \/ Subscribe \/ GetEvent
  PROVE  Follows'
<1>i. TypeOK /\ Follows
  BY DEF FeedInv
<1>u. UNCHANGED <<stored, granted, listener, page, request, missed>> /\ stream # NoStream
  BY DEF Heartbeat, Subscribe, GetEvent, Working, browser, server
<1>v. missed.view => missed.load
  BY <1>i DEF Follows
<1>1. CASE stream' = NoStream
  BY <1>1, <1>i, <1>u, <1>v, StreamGone
<1>2. ASSUME UNCHANGED frames, Members(stream.queue) \subseteq Members(stream'.queue),
             stream'.current = stream.current, stream'.workspace = stream.workspace,
             stream.is = "open" => stream'.is = "open"
      PROVE  Follows'
  <2>1. RefreshComing => RefreshComing'
    BY <1>2, <1>u DEF RefreshComing, Wanted
  <2>2. \A x : EventComing(x) => EventComing(x)'
    BY <1>2, <1>u DEF EventComing, NoticeOf
  <2>3. Kept
    BY <2>1, <2>2, <1>2, <1>u DEF Kept, UpToDate, LoadComing, Visible, Within, Readable
  <2>4. ViewFollows'
    BY <2>1, <1>2, <1>i, <1>u DEF Follows, ViewFollows, Readable
  <2> QED BY <2>3, <2>4, <1>2, <1>i, <1>u, <1>v, BehindThePage
<1>3. CASE Heartbeat
  <2>1. Enqueue(Beat)
    BY <1>3 DEF Heartbeat
  <2>2. \/ stream' = NoStream
        \/ stream' = [stream EXCEPT !.queue = Append(@, Beat)] /\ frames' = frames
    BY <2>1, <1>i, <1>u, Enqueued
  <2> QED BY <2>2, <1>1, <1>2, <1>i, <1>u, QueueGrows
<1>4. CASE Subscribe \/ GetEvent
  <2>1. /\ stream'.queue = stream.queue /\ stream'.current = stream.current
        /\ stream'.workspace = stream.workspace /\ UNCHANGED frames
        /\ stream.is = "open" => stream'.is = "open"
    BY <1>4, <1>i, StreamOrNone DEF Subscribe, GetEvent, Working, Stream
  <2> QED BY <2>1, <1>2
<1> QED BY <1>3, <1>4

\* What an operation's look at the viewer leaves: the stream has seen what may be read, and
\* if it did not know it, or was asked to refresh, the page will load.
LEMMA LookFollows ==
  ASSUME FeedInv, Working, NEW fs \in Seq(Frame), Write(fs),
         UNCHANGED <<stored, granted, listener, page, request>>,
         missed'.view => missed.view, missed'.load = missed.load,
         stream' # NoStream, stream'.is = "open", stream'.workspace = stream.workspace,
         stream'.current = Readable(stream.workspace),
         stream.current # stream'.current => fs # <<>>,
         \/ stream'.queue = stream.queue
         \/ /\ stream'.queue = Tail(stream.queue)
            /\ IsRefresh(Head(stream.queue)) => fs # <<>>
            /\ \A x \in Visible(stream.workspace) : Head(stream.queue) = NoticeOf(x) => fs # <<>>
  PROVE  Follows'
<1>i. TypeOK /\ Follows /\ StreamBelongs
  BY DEF FeedInv, Belongs
<1>v. missed'.view => missed'.load
  BY <1>i DEF Follows
<1>f. (frames # <<>> \/ fs # <<>>) => frames' # <<>>
  BY <1>i, FramesWritten DEF Frame
<1>q. /\ stream # NoStream /\ stream.is = "open" /\ stream.workspace = page.workspace
      /\ Members(stream.queue) = Members(Tail(stream.queue)) \cup {Head(stream.queue)}
  BY <1>i, StreamOrNone, MembersOfTail DEF Working, StreamBelongs
<1>1. ViewFollows'
  BY DEF ViewFollows, Readable
<1>2. fs # <<>> => LoadComing'
  BY <1>f DEF LoadComing
<1>3. fs = <<>> /\ RefreshComing => RefreshComing'
  BY <1>q DEF RefreshComing, Wanted
<1>4. LoadComing => LoadComing'
  BY <1>f, <1>2, <1>3 DEF LoadComing
<1>5. ASSUME fs = <<>>, NEW x \in Visible(page.workspace), EventComing(x)
      PROVE  EventComing(x)'
  <2>1. NoticeOf(x)' = NoticeOf(x)
    BY DEF NoticeOf
  <2>2. NoticeOf(x) \in Members(stream'.queue) \cup Members(listener.notices)
    BY <1>5, <1>q DEF EventComing
  <2> QED BY <2>1, <2>2 DEF EventComing
<1>6. Visible(page.workspace)' = Visible(page.workspace)
  BY DEF Visible, Within, Readable
<1>7. Kept
  BY <1>2, <1>4, <1>5, <1>6 DEF Kept, UpToDate
<1> QED BY <1>1, <1>7, <1>i, <1>q, <1>v, BehindThePage

\* What the stream takes from its queue, it writes to the page or has no need to.
LEMMA WorkFollows ==
  ASSUME FeedInv, Revoke \/ Revalidate \/ Announce \/ StreamBreaks
  PROVE  Follows'
<1> DEFINE op == Head(stream.queue)
           now == Readable(stream.workspace)
<1>i. TypeOK /\ Follows /\ HeadFits
  BY DEF FeedInv, Belongs
<1>s. /\ <<"refresh">> \in Seq(Frame) /\ <<"activity">> \in Seq(Frame) /\ <<>> \in Seq(Frame)
      /\ <<"refresh">> # <<>> /\ <<"activity">> # <<>>
  BY DEF Frame
<1>r. Working => now \in SUBSET Repo
  BY <1>i, StreamOrNone, ReadableTyped DEF Working
<1>1. CASE Revoke \/ StreamBreaks
  <2>1. stream' = NoStream /\ UNCHANGED missed
    BY <1>1 DEF Revoke, StreamBreaks, Close
  <2> QED BY <2>1, <1>i, StreamGone DEF Follows
<1>2. CASE Revalidate
  <2> DEFINE fs == IF Changed(now) \/ (op # Beat /\ op.event = "refresh")
                   THEN <<"refresh">> ELSE <<>>
  <2>1. /\ Working /\ Write(fs) /\ fs \in Seq(Frame)
        /\ UNCHANGED <<stored, granted, listener, page, request>>
        /\ missed' = [missed EXCEPT !.view = FALSE]
    BY <1>2, <1>s DEF Revalidate, browser, server
  <2>2. ~missed'.view /\ missed'.load = missed.load
    BY <2>1, <1>i DEF TypeOK
  <2>3. stream.current # now => fs # <<>>
    BY <1>s DEF Changed
  <2>4. IsRefresh(op) => fs # <<>>
    BY <1>s DEF IsRefresh
  <2>f. PICK gs \in Seq(Frame) : gs = fs
    BY <2>1
  <2> HIDE DEF fs
  <2>5. CASE op # Beat /\ op.event # "refresh" /\ op.scope \in now
    <3>1. stream' = [stream EXCEPT !.current = now, !.head = "checked"]
      BY <1>2, <2>5 DEF Revalidate
    <3>2. /\ stream' # NoStream /\ stream'.workspace = stream.workspace /\ stream'.is = "open"
          /\ stream'.queue = stream.queue /\ stream'.current = now
      BY <1>i, <1>r, <2>1, <3>1, Sought DEF Stream, NoStream
    <3> QED BY <2>1, <2>2, <2>3, <2>f, <3>2, LookFollows
  <2>6. CASE ~(op # Beat /\ op.event # "refresh" /\ op.scope \in now)
    <3>1. stream' = Done([stream EXCEPT !.current = now])
      BY <1>2, <2>6 DEF Revalidate
    <3>2. /\ stream'.workspace = stream.workspace /\ stream'.is = "open"
          /\ stream'.queue = Tail(stream.queue) /\ stream'.current = now
      BY <1>i, <1>r, <2>1, <3>1, Finished
    <3>n. stream' # NoStream
      BY <3>2 DEF NoStream
    <3>3. \A x \in Visible(stream.workspace) : op # NoticeOf(x)
      <4> SUFFICES ASSUME NEW x \in Visible(stream.workspace), op = NoticeOf(x)
                   PROVE  FALSE
        OBVIOUS
      <4>1. x \in Event /\ stored[x] # NotStored /\ stored[x].repo \in now
        BY DEF Visible, Within
      <4>2. NoticeOf(x) \in Notice
        BY <4>1, <1>i DEF NoticeOf, Notice, TypeOK
      <4>3. op # Beat /\ op.event # "refresh" /\ op.scope \in now
        BY <4>1, <4>2, NoticeIsNoBeat, FeedAssumption DEF NoticeOf
      <4> QED BY <4>3, <2>6
    <3> QED BY <2>1, <2>2, <2>3, <2>4, <2>f, <3>2, <3>3, <3>n, LookFollows
  <2> QED BY <2>5, <2>6
<1>3. CASE Announce
  <2> DEFINE fs == (IF Changed(now) THEN <<"refresh">> ELSE <<>>)
                   \o (IF op.event \in Within(now) THEN <<"activity">> ELSE <<>>)
  <2>1. /\ Working /\ Write(fs) /\ stream.head = "found"
        /\ UNCHANGED <<stored, granted, listener, page, request, missed>>
        /\ stream' = Done([stream EXCEPT !.current = now])
    BY <1>3 DEF Announce, browser, server
  <2>2. \A a, b \in Seq(Frame) : a \o b \in Seq(Frame) /\ (a # <<>> \/ b # <<>> => a \o b # <<>>)
    OBVIOUS
  <2>3. /\ fs \in Seq(Frame)
        /\ stream.current # now => fs # <<>>
        /\ op.event \in Within(now) => fs # <<>>
    BY <2>2, <1>s DEF Changed
  <2>f. PICK gs \in Seq(Frame) : gs = fs
    BY <2>3
  <2> HIDE DEF fs
  <2>4. ~IsRefresh(op)
    BY <2>1, <1>i DEF HeadFits, Working, IsRefresh
  <2>5. /\ stream'.workspace = stream.workspace /\ stream'.is = "open"
        /\ stream'.queue = Tail(stream.queue) /\ stream'.current = now
    BY <1>i, <1>r, <2>1, Finished
  <2>n. stream' # NoStream
    BY <2>5 DEF NoStream
  <2>6. \A x \in Visible(stream.workspace) : op = NoticeOf(x) => fs # <<>>
    BY <2>3 DEF NoticeOf, Visible
  <2> QED BY <2>1, <2>3, <2>4, <2>5, <2>6, <2>f, <2>n, LookFollows
<1> QED BY <1>1, <1>2, <1>3

\* A request of the page carries what it was sent for.
LEMMA RequestFollows ==
  ASSUME FeedInv, NEW q \in Request,
         Begins(q) \/ Poll(q) \/ Read(q) \/ Answer(q) \/ Arrives(q) \/ Unanswered(q)
  PROVE  Follows'
<1>i. TypeOK /\ Follows /\ RequestsBelong
  BY DEF FeedInv, Belongs
<1>u. UNCHANGED <<stored, granted, listener, stream, frames>>
  BY DEF Begins, Poll, Read, Answer, Arrives, Unanswered, server
<1>w. page'.workspace = page.workspace
  <2>1. Hidden.workspace = page.workspace
    BY <1>i DEF Hidden, TypeOK, Page
  <2> QED BY <2>1, <1>i DEF Begins, Poll, Read, Answer, Arrives, Unanswered, TypeOK, Page
<1>r. /\ RefreshComing' = RefreshComing /\ \A x : EventComing(x)' = EventComing(x)
      /\ Visible(page.workspace)' = Visible(page.workspace)
  BY <1>u, <1>w DEF RefreshComing, EventComing, NoticeOf, Wanted, Visible, Within, Readable
<1>1. CASE Begins(q) \/ Poll(q)
  <2>1. Active /\ Ask(q)
    BY <1>1 DEF Begins, Poll, Ask
  <2>2. missed' = [missed EXCEPT !.load = ~Subscribed \/ missed.view]
    BY <2>1 DEF Ask
  <2>3. missed'.view = missed.view /\ missed'.load = (~Subscribed \/ missed.view)
    BY <2>2, <1>i DEF TypeOK
  <2>4. ViewFollows'
    BY <2>3, <1>i, <1>u, <1>r DEF Follows, ViewFollows, Readable
  <2>5. ShownFollows'
    <3>1. ~missed'.load => stream'.is = "open"
      BY <2>3, <1>u DEF Subscribed
    <3>2. /\ \A p \in Request : Underway(p)' => request'[p].is = "sent"
          /\ Underway(q)'
      BY <2>1, <1>i, AskBelongs
    <3> QED BY <3>1, <3>2 DEF ShownFollows
  <2> QED BY <2>3, <2>4, <2>5 DEF Follows
<1>2. ASSUME Read(q) \/ Answer(q) \/ Arrives(q) \/ Unanswered(q)
      PROVE  Follows'
  <2>1. UNCHANGED missed
    BY <1>2 DEF Read, Answer, Arrives, Unanswered
  <2>2. ViewFollows'
    BY <2>1, <1>i, <1>u, <1>r DEF Follows, ViewFollows, Readable
  <2>3. request[q] # Idle /\ request[q] \in Asked
    BY <1>2, <1>i, RequestOrIdle DEF Read, Answer, Arrives, Unanswered, Idle
  <2>4. \A p \in Request : p # q => request'[p] = request[p]
    BY <1>2, <1>i DEF Read, Answer, Arrives, Unanswered, TypeOK
  <2>5. page'.due = page.due /\ page'.idle = page.idle
    <3>1. Hidden.due = page.due /\ Hidden.idle = page.idle
      BY <1>i DEF Hidden, TypeOK, Page
    <3> QED BY <3>1, <1>2, <1>i DEF Read, Answer, Arrives, Unanswered, TypeOK, Page
  <2>6. Kept /\ UpToDate(Visible(page.workspace))'
    BY <2>5, <1>u, <1>r DEF Kept, UpToDate, LoadComing
  <2>7. ASSUME stream # NoStream, ~missed.load
        PROVE  ShownFollows'
    <3>1. /\ stream.is = "open"
          /\ \A p \in Request : Underway(p) /\ request[p].is \in {"read", "answered"} =>
                                  UpToDate(request[p].events)
          /\ page.verified /\ (\A p \in Request : ~Underway(p)) => UpToDate(page.shown)
      BY <2>7, <1>i DEF Follows, ShownFollows
    <3>2. ASSUME NEW p \in Request, p # q, Underway(p)', request'[p].is \in {"read", "answered"}
          PROVE  UpToDate(request[p].events)'
      <4>1. Underway(p) /\ request'[p] = request[p]
        BY <3>2, <2>4 DEF Underway
      <4>2. PICK S : S = request[p].events
        OBVIOUS
      <4>3. UpToDate(S)'
        BY <3>1, <3>2, <4>1, <4>2, <2>6 DEF Kept
      <4>4. request'[p].events = S
        BY <4>1, <4>2
      <4> QED BY <4>3, <4>4 DEF UpToDate
    <3>3. ASSUME Underway(q)', request'[q].is \in {"read", "answered"}
          PROVE  UpToDate(request[q].events)'
      <4>1. CASE Read(q)
        <5>1. /\ request[q].fresh /\ request'[q].events = Visible(request[q].workspace)
          BY <3>3, <4>1, <2>3, <1>i DEF Read, TypeOK, Asked, Underway
        <5>2. request'[q].events = Visible(page.workspace)
          BY <5>1, <2>3, <1>i DEF RequestsBelong, Underway
        <5>3. PICK S : S = Visible(page.workspace)
          OBVIOUS
        <5>4. UpToDate(S)'
          BY <5>3, <1>r, <1>u DEF UpToDate
        <5>5. request'[q].events = S
          BY <5>2, <5>3
        <5> QED BY <5>4, <5>5 DEF UpToDate
      <4>2. CASE Answer(q)
        <5>1. /\ request[q].fresh /\ request[q].is = "read"
              /\ request'[q].events = request[q].events \cap Visible(request[q].workspace)
          BY <3>3, <4>2, <2>3, <1>i DEF Answer, TypeOK, Asked, Underway
        <5>2. PICK S : S = request[q].events
          OBVIOUS
        <5>3. PICK V : V = Visible(page.workspace)
          OBVIOUS
        <5>4. UpToDate(S)'
          BY <5>1, <5>2, <2>3, <3>1, <2>6 DEF Kept, Underway
        <5>5. UpToDate(S \cap V)'
          BY <5>4, <5>3, <1>r DEF UpToDate
        <5>6. request'[q].events = S \cap V
          BY <5>1, <5>2, <5>3, <2>3, <1>i DEF RequestsBelong, Underway
        <5> QED BY <5>5, <5>6 DEF UpToDate
      <4>3. CASE Arrives(q) \/ Unanswered(q)
        <5>1. request'[q] = Idle
          BY <4>3, <1>i DEF Arrives, Unanswered, TypeOK
        <5> QED BY <5>1, <3>3 DEF Underway
      <4> QED BY <1>2, <4>1, <4>2, <4>3
    <3>4. ASSUME page'.verified, \A p \in Request : ~Underway(p)'
          PROVE  UpToDate(page.shown)'
      <4>1. ASSUME page' = page, ~Underway(q)
            PROVE  UpToDate(page.shown)'
        <5>1. \A p \in Request : ~Underway(p)
          BY <4>1, <3>4, <2>4 DEF Underway
        <5>2. PICK S : S = page.shown
          OBVIOUS
        <5>3. UpToDate(S)'
          BY <3>1, <3>4, <4>1, <5>1, <5>2, <2>6 DEF Kept
        <5>4. page'.shown = S
          BY <4>1, <5>2
        <5> QED BY <5>3, <5>4 DEF UpToDate
      <4>2. CASE Read(q) \/ Answer(q)
        <5>1. /\ page' = page /\ request'[q].fresh = request[q].fresh /\ request'[q] # Idle
          BY <4>2, <2>3, <1>i DEF Read, Answer, TypeOK, Asked, Idle
        <5> QED BY <5>1, <4>1, <3>4 DEF Underway
      <4>3. CASE (Arrives(q) \/ Unanswered(q)) /\ ~Current(q)
        BY <4>3, <4>1 DEF Arrives, Unanswered, Current, Underway
      <4>4. CASE Arrives(q) /\ Current(q)
        <5>1. request[q].is = "answered" /\ page'.shown = request[q].events
          BY <4>4, <1>i DEF Arrives, TypeOK, Page
        <5>2. PICK S : S = request[q].events
          OBVIOUS
        <5>3. UpToDate(S)'
          BY <5>1, <5>2, <4>4, <2>3, <3>1, <2>6 DEF Kept, Underway, Current
        <5>4. page'.shown = S
          BY <5>1, <5>2
        <5> QED BY <5>3, <5>4 DEF UpToDate
      <4>5. CASE Unanswered(q) /\ Current(q)
        BY <4>5, <3>4, <1>i DEF Unanswered, Hidden, TypeOK, Page
      <4> QED BY <1>2, <4>2, <4>3, <4>4, <4>5
    <3> QED BY <3>1, <3>2, <3>3, <3>4, <1>u DEF ShownFollows
  <2>8. ShownFollows'
    BY <2>7, <2>1, <1>u DEF ShownFollows
  <2> QED BY <2>1, <2>2, <2>8, <1>i DEF Follows
<1> QED BY <1>1, <1>2

\* The page takes a frame, or starts over.
LEMMA PageStepsFollow ==
  ASSUME FeedInv,
         \/ Retry \/ OpenStream \/ ReadFrame \/ ReadRevoked \/ ReadEnd
         \/ \E w \in Workspace : Select(w)
         \/ \E q \in Request : LearnsRefusal(q)
  PROVE  Follows'
<1>i. TypeOK /\ Follows /\ StreamBelongs
  BY DEF FeedInv, Belongs
<1>v. missed.view => missed.load
  BY <1>i DEF Follows
<1>1. CASE Retry
  <2>1. stream' = NoStream /\ UNCHANGED missed
    BY <1>1, <1>i DEF Retry, StreamBelongs
  <2> QED BY <2>1, <1>i, <1>v, StreamGone
<1>2. CASE OpenStream /\ Allowed(page.workspace)
  <2>1. /\ stream' = [is |-> "opening", workspace |-> page.workspace,
                      current |-> Readable(page.workspace), queue |-> <<>>, head |-> "idle"]
        /\ missed' = [load |-> TRUE, view |-> FALSE] /\ UNCHANGED granted
    BY <1>2 DEF OpenStream, server
  <2>2. /\ stream'.workspace = page.workspace /\ stream'.current = Readable(page.workspace)
        /\ missed'.load /\ ~missed'.view
    BY <2>1
  <2> QED BY <2>1, <2>2 DEF Follows, ViewFollows, ShownFollows, Readable
<1>3. CASE OpenStream /\ ~Allowed(page.workspace)
  <2>1. stream' = NoStream /\ UNCHANGED missed
    BY <1>3 DEF OpenStream, Refused, Leaves
  <2> QED BY <2>1, <1>i, <1>v, StreamGone
<1>4. CASE ReadRevoked
  <2>1. stream' = NoStream /\ UNCHANGED missed
    BY <1>4 DEF ReadRevoked, Leaves
  <2> QED BY <2>1, <1>i, <1>v, StreamGone
<1>5. ASSUME NEW w \in Workspace, Select(w)
      PROVE  Follows'
  <2>1. stream' = NoStream /\ missed' = [missed EXCEPT !.load = TRUE]
    BY <1>5 DEF Select, Leaves
  <2>2. missed'.load
    BY <2>1, <1>i DEF TypeOK
  <2> QED BY <2>1, <2>2, <1>i, StreamGone
<1>6. ASSUME NEW q \in Request, LearnsRefusal(q), Current(q)
      PROVE  Follows'
  <2>1. stream' = NoStream /\ UNCHANGED missed
    BY <1>6 DEF LearnsRefusal, Refused, Leaves
  <2> QED BY <2>1, <1>i, <1>v, StreamGone
\* The page, its stream and its present requests go on.
<1>7. ASSUME UNCHANGED <<stored, granted, listener, stream, missed>>,
             \A p \in Request : /\ Underway(p)' = Underway(p)
                                /\ Underway(p) => request'[p] = request[p],
             page'.workspace = page.workspace, page'.verified = page.verified,
             page'.shown = page.shown,
             LoadComing => LoadComing'
      PROVE  Follows'
  <2>1. RefreshComing' = RefreshComing
    BY <1>7 DEF RefreshComing, Wanted
  <2>2. ViewFollows'
    BY <2>1, <1>7, <1>i DEF Follows, ViewFollows, Readable
  <2>3. Kept
    <3>1. \A x : EventComing(x)' = EventComing(x)
      BY <1>7 DEF EventComing, NoticeOf
    <3>2. Visible(page.workspace)' = Visible(page.workspace)
      BY <1>7 DEF Visible, Within, Readable
    <3> QED BY <3>1, <3>2, <1>7 DEF Kept, UpToDate
  <2>4. ASSUME stream # NoStream, ~missed.load
        PROVE  ShownFollows'
    <3>1. /\ stream.is = "open"
          /\ \A p \in Request : Underway(p) /\ request[p].is \in {"read", "answered"} =>
                                  UpToDate(request[p].events)
          /\ page.verified /\ (\A p \in Request : ~Underway(p)) => UpToDate(page.shown)
      BY <2>4, <1>i DEF Follows, ShownFollows
    <3>2. ASSUME NEW p \in Request, Underway(p)', request'[p].is \in {"read", "answered"}
          PROVE  UpToDate(request[p].events)'
      <4>1. Underway(p) /\ request'[p] = request[p]
        BY <3>2, <1>7
      <4>2. PICK S : S = request[p].events
        OBVIOUS
      <4>3. UpToDate(S)'
        BY <3>1, <3>2, <4>1, <4>2, <2>3 DEF Kept
      <4>4. request'[p].events = S
        BY <4>1, <4>2
      <4> QED BY <4>3, <4>4 DEF UpToDate
    <3>3. ASSUME page'.verified, \A p \in Request : ~Underway(p)'
          PROVE  UpToDate(page.shown)'
      <4>1. PICK S : S = page.shown
        OBVIOUS
      <4>2. UpToDate(S)'
        BY <3>1, <3>3, <1>7, <4>1, <2>3 DEF Kept
      <4>3. page'.shown = S
        BY <4>1, <1>7
      <4> QED BY <4>2, <4>3 DEF UpToDate
    <3> QED BY <3>1, <3>2, <3>3, <1>7 DEF ShownFollows
  <2>5. ShownFollows'
    BY <2>4, <1>7 DEF ShownFollows
  <2> QED BY <2>2, <2>5, <1>7, <1>v DEF Follows
<1>8. CASE ReadFrame \/ ReadEnd
  <2>1. /\ page'.workspace = page.workspace /\ page'.verified = page.verified
        /\ page'.shown = page.shown /\ (page'.due \/ page'.idle)
    BY <1>8, <1>i DEF ReadFrame, ReadEnd, TypeOK, Page
  <2>2. UNCHANGED <<stored, granted, listener, stream, missed, request>>
    BY <1>8 DEF ReadFrame, ReadEnd, server
  <2>3. \A p \in Request : Underway(p)' = Underway(p) /\ request'[p] = request[p]
    BY <2>2 DEF Underway
  <2> QED BY <2>1, <2>2, <2>3, <1>7 DEF LoadComing
<1>9. ASSUME NEW q \in Request, LearnsRefusal(q), ~Current(q)
      PROVE  Follows'
  <2>1. UNCHANGED <<stored, granted, listener, stream, missed, page, frames>>
    BY <1>9 DEF LearnsRefusal, server
  <2>2. \A p \in Request : request'[p] = IF p = q THEN Idle ELSE request[p]
    BY <1>9, <1>i DEF LearnsRefusal, TypeOK
  <2>3. ~Underway(q)
    BY <1>9 DEF Underway, Current
  <2>4. \A p \in Request : /\ Underway(p)' = Underway(p)
                           /\ Underway(p) => request'[p] = request[p]
    BY <2>2, <2>3 DEF Underway
  <2>5. LoadComing => LoadComing'
    BY <2>1 DEF LoadComing, RefreshComing, Wanted
  <2> QED BY <2>1, <2>4, <2>5, <1>7
<1> QED BY <1>1, <1>2, <1>3, <1>4, <1>5, <1>6, <1>8, <1>9

-----------------------------------------------------------------------------
(* The theorems. *)

LEMMA FeedInitial ==
  ASSUME Init
  PROVE  FeedInv
<1>1. TypeOK
  <2>1. page \in Page
    BY DEF Init, Shown, Page
  <2>2. changes \in 0 .. MaxChanges
    BY FeedAssumption DEF Init
  <2>3. /\ stored \in [Event -> [repo : Repo] \cup {NotStored}]
        /\ request \in [Request -> Asked \cup {Idle}]
        /\ granted \in [Workspace -> Views]
    BY DEF Init
  <2>4. /\ listener \in [up : BOOLEAN, notices : Seq(Notice)]
        /\ missed \in [load : BOOLEAN, view : BOOLEAN]
        /\ frames \in Seq({"activity", "refresh", "access-revoked", "end"})
    BY DEF Init
  <2> QED BY <2>1, <2>2, <2>3, <2>4 DEF Init, TypeOK
<1>2. Belongs
  BY DEF Init, Belongs, HeadFits, StreamBelongs, RequestsBelong, Underway, Shown
<1>3. Follows
  BY DEF Init, Follows, ViewFollows, ShownFollows
<1> QED BY <1>1, <1>2, <1>3 DEF FeedInv

LEMMA FollowSteps ==
  ASSUME FeedInv, Next
  PROVE  Follows'
<1>1. CASE Environment
  BY <1>1, StoreFollows, AccessChangeFollows, PageStepsFollow, ListenerFollows, WorkFollows,
     RequestFollows DEF Environment
<1>2. CASE Server
  BY <1>2, ListenerFollows, ReceiveFollows, QuietStepsFollow, WorkFollows, RequestFollows
     DEF Server
<1>3. CASE PageStep
  BY <1>3, PageStepsFollow, RequestFollows DEF PageStep
<1> QED BY <1>1, <1>2, <1>3 DEF Next

LEMMA FeedSteps ==
  ASSUME FeedInv, [Next]_vars
  PROVE  FeedInv'
<1>1. CASE Next
  BY <1>1, TypeSteps, BelongSteps, FollowSteps DEF FeedInv
<1>2. CASE UNCHANGED vars
  <2>1. TypeOK' /\ Belongs'
    BY <1>2 DEF vars, FeedInv, TypeOK, Belongs, HeadFits, StreamBelongs, RequestsBelong, Underway
  <2>2. /\ RefreshComing' = RefreshComing /\ \A x : EventComing(x)' = EventComing(x)
        /\ \A w : Visible(w)' = Visible(w) /\ Readable(w)' = Readable(w)
    BY <1>2 DEF vars, RefreshComing, EventComing, NoticeOf, Wanted, Visible, Within, Readable
  <2>3. Kept
    BY <2>2, <1>2 DEF Kept, UpToDate, LoadComing, vars
  <2>4. ViewFollows'
    BY <2>2, <1>2 DEF FeedInv, Follows, ViewFollows, vars
  <2>5. Follows'
    BY <2>3, <2>4, <1>2, BehindThePage DEF FeedInv, vars, Follows
  <2> QED BY <2>1, <2>5 DEF FeedInv
<1> QED BY <1>1, <1>2

\* The feed's invariant holds in every state: what the page has missed is on its way to it.
THEOREM FeedInvariance == Spec => []FeedInv
<1>1. Init => FeedInv
  BY FeedInitial
<1>2. FeedInv /\ [Next]_vars => FeedInv'
  BY FeedSteps
<1> QED BY <1>1, <1>2, PTL DEF Spec

\* The listener, the stream, the page and its requests are always of their types, and the
\* stream's queue never grows past its limit.
THEOREM FeedTyped == Spec => []TypeOK
<1>1. FeedInv => TypeOK
  BY DEF FeedInv
<1> QED BY <1>1, FeedInvariance, PTL

\* What a page shows was read for the workspace it is in, whatever answers come late.
THEOREM AnswersBelongToPage == Spec => []AnswersBelong
<1>1. FeedInv => AnswersBelong
  BY DEF FeedInv, Belongs, RequestsBelong, AnswersBelong
<1> QED BY <1>1, FeedInvariance, PTL

\* Whatever is stored and however access changes while a stream is subscribed, once
\* nothing is on its way the page shows exactly what its viewer may see.
THEOREM StreamsMissNothing == Spec => []StreamMissesNothing
<1>1. FeedInv => StreamMissesNothing
  <2> SUFFICES ASSUME FeedInv, Quiet, page.verified, ~missed.load
               PROVE  page.shown = Visible(page.workspace)
    BY DEF StreamMissesNothing
  <2>1. UpToDate(page.shown)
    <3>1. \A q \in Request : ~Underway(q)
      BY DEF Quiet, Underway
    <3> QED BY <3>1 DEF FeedInv, Follows, ShownFollows, Quiet
  <2>2. Members(stream.queue) = {} /\ Members(listener.notices) = {}
    BY MembersOfNone DEF Quiet
  <2>3. ~LoadComing /\ \A e : ~EventComing(e)
    BY <2>2 DEF LoadComing, RefreshComing, EventComing, Quiet
  <2> QED BY <2>1, <2>3 DEF UpToDate
<1> QED BY <1>1, FeedInvariance, PTL

-----------------------------------------------------------------------------
(* Who a tab believes it is (PageIdentity). *)

Connections ==
  [is : {"asking", "joining"}, by : User, space : Space, same : BOOLEAN, unchosen : BOOLEAN]

Messages == {"session-clearing", "session-changed"}

\* A tab that signs out has no user; without a user it has no workspaces; what it shows is
\* of its workspace; and what hides the page hides it.
TabFits(t) ==
  /\ t.operation # "none" => t.blocked
  /\ t.blocked => t.shown = NoSpace
  /\ t.leaving => t.user = NoUser
  /\ t.user = NoUser => t.authorized = {} /\ t.shown = NoSpace
  /\ t.shown # NoSpace => t.shown = t.space

\* A request that still counts was begun after the last change of what it is about: of the
\* identity for a session, and for a feed of the user and the workspace.
CallFits(k, t) ==
  /\ k.kind = "session" /\ k.fresh => ~k.old /\ ~t.leaving
  /\ k.kind = "list" => k.by # NoUser /\ (k.fresh => ~k.old)
  /\ k.kind = "feed" /\ k.fresh =>
       /\ ~k.old /\ k.by = t.user /\ t.user # NoUser
       /\ k.of = t.space /\ ~t.blocked

PageInv ==
  /\ PageTypeOK
  /\ TabFits(tab)
  /\ \A c \in Call : CallFits(call[c], tab)

\* A request that counts for no more than it did.
Quieter(k, was) ==
  \/ k = None
  \/ /\ was \in Calls /\ k \in Calls
     /\ k.kind = was.kind /\ k.by = was.by /\ k.of = was.of
     /\ k.fresh => was.fresh /\ k.old = was.old

\* The user, the workspaces and the events of the tab change only by going away.
Calm ==
  /\ tab'.user \in {tab.user, NoUser}
  /\ tab'.authorized \in {tab.authorized, {}}
  /\ tab'.shown \in {tab.shown, NoSpace}
  /\ connecting' = NotConnecting => connecting = NotConnecting \/ tab'.space = tab.space

\* No request fits any tab.
LEMMA NoneFits == \A t : CallFits(None, t)
BY DEF CallFits, None

LEMMA NoneIsNoCall == None \notin Calls
BY DEF None, Calls

LEMMA CallTyped ==
  ASSUME PageTypeOK, NEW c \in Call
  PROVE  /\ call[c] \in Calls \cup {None}
         /\ call[c] # None => call[c] \in Calls
BY DEF PageTypeOK

LEMMA QuietIsQuieter ==
  ASSUME NEW k \in Calls \cup {None}
  PROVE  Quieter(k, k)
BY DEF Quieter

LEMMA QuieterFurther ==
  ASSUME NEW k, NEW l, NEW m, Quieter(k, l), Quieter(l, m)
  PROVE  Quieter(k, m)
BY NoneIsNoCall DEF Quieter

\* A quieter request still fits, if the tab has not changed under it.
LEMMA QuieterFits ==
  ASSUME NEW k, NEW was, Quieter(k, was), NEW t, NEW u, CallFits(was, t),
         k \in Calls /\ k.kind = "session" /\ k.fresh => (u.leaving => t.leaving),
         k \in Calls /\ k.kind = "feed" /\ k.fresh =>
           u.user = t.user /\ u.space = t.space /\ (u.blocked => t.blocked)
  PROVE  CallFits(k, u)
<1>1. CASE k = None
  BY <1>1, NoneFits
<1>2. CASE k # None
  BY <1>2 DEF Quieter, CallFits
<1>3. QED
  BY <1>1, <1>2

-----------------------------------------------------------------------------
(* The operators. *)

\* A newer request of its kind silences an older one (a ref's counter).
LEMMA OvertakenQuiet ==
  ASSUME NEW kinds, NEW cs \in [Call -> Calls \cup {None}]
  PROVE  /\ Overtaken(kinds, cs) \in [Call -> Calls \cup {None}]
         /\ \A d \in Call : /\ Quieter(Overtaken(kinds, cs)[d], cs[d])
                            /\ ((Overtaken(kinds, cs)[d] = None) <=> (cs[d] = None))
                            /\ Overtaken(kinds, cs)[d].kind \in kinds /\ cs[d] # None =>
                                 ~Overtaken(kinds, cs)[d].fresh
<1>1. SUFFICES ASSUME NEW d \in Call
               PROVE  /\ Overtaken(kinds, cs)[d] \in Calls \cup {None}
                      /\ Quieter(Overtaken(kinds, cs)[d], cs[d])
                      /\ ((Overtaken(kinds, cs)[d] = None) <=> (cs[d] = None))
                      /\ Overtaken(kinds, cs)[d].kind \in kinds /\ cs[d] # None =>
                           ~Overtaken(kinds, cs)[d].fresh
  BY DEF Overtaken
<1>2. CASE cs[d] = None
  BY <1>2 DEF Overtaken, Quieter
<1>3. CASE cs[d] # None
  <2>1. PICK k \in Calls : k = cs[d]
    BY <1>3
  <2>2. Overtaken(kinds, cs)[d] = IF k.kind \in kinds THEN [k EXCEPT !.fresh = FALSE] ELSE k
    BY <1>3, <2>1 DEF Overtaken
  <2>3. [k EXCEPT !.fresh = FALSE] \in Calls
    BY DEF Calls
  <2>4. /\ [k EXCEPT !.fresh = FALSE].kind = k.kind /\ [k EXCEPT !.fresh = FALSE].by = k.by
        /\ [k EXCEPT !.fresh = FALSE].of = k.of /\ ~[k EXCEPT !.fresh = FALSE].fresh
    BY DEF Calls
  <2>5. QED
    BY <1>3, <2>1, <2>2, <2>3, <2>4, NoneIsNoCall DEF Quieter
<1>4. QED
  BY <1>2, <1>3

\* Those that are older count no more.
LEMMA OlderQuiet ==
  ASSUME NEW kinds, NEW cs \in [Call -> Calls \cup {None}],
         \A d \in Call : cs[d] # None /\ cs[d].kind \in kinds => ~cs[d].fresh
  PROVE  /\ Older(kinds, cs) \in [Call -> Calls \cup {None}]
         /\ \A d \in Call : /\ Quieter(Older(kinds, cs)[d], cs[d])
                            /\ ((Older(kinds, cs)[d] = None) <=> (cs[d] = None))
                            /\ Older(kinds, cs)[d].kind \in kinds /\ cs[d] # None =>
                                 ~Older(kinds, cs)[d].fresh
<1>1. SUFFICES ASSUME NEW d \in Call
               PROVE  /\ Older(kinds, cs)[d] \in Calls \cup {None}
                      /\ Quieter(Older(kinds, cs)[d], cs[d])
                      /\ ((Older(kinds, cs)[d] = None) <=> (cs[d] = None))
                      /\ Older(kinds, cs)[d].kind \in kinds /\ cs[d] # None =>
                           ~Older(kinds, cs)[d].fresh
  BY DEF Older
<1>2. CASE cs[d] = None
  BY <1>2 DEF Older, Quieter
<1>3. CASE cs[d] # None
  <2>1. PICK k \in Calls : k = cs[d]
    BY <1>3
  <2>2. Older(kinds, cs)[d] = IF k.kind \in kinds THEN [k EXCEPT !.old = TRUE] ELSE k
    BY <1>3, <2>1 DEF Older
  <2>3. [k EXCEPT !.old = TRUE] \in Calls
    BY DEF Calls
  <2>4. /\ [k EXCEPT !.old = TRUE].kind = k.kind /\ [k EXCEPT !.old = TRUE].by = k.by
        /\ [k EXCEPT !.old = TRUE].of = k.of /\ [k EXCEPT !.old = TRUE].fresh = k.fresh
    BY DEF Calls
  <2>5. k.kind \in kinds => ~k.fresh
    BY <1>3, <2>1
  <2>6. QED
    BY <1>3, <2>1, <2>2, <2>3, <2>4, <2>5, NoneIsNoCall DEF Quieter
<1>4. QED
  BY <1>2, <1>3

\* A cleared identity silences the lists, feeds and operations.
LEMMA ClearedQuiet ==
  ASSUME NEW cs \in [Call -> Calls \cup {None}]
  PROVE  /\ ClearedCalls(cs) \in [Call -> Calls \cup {None}]
         /\ \A d \in Call : /\ Quieter(ClearedCalls(cs)[d], cs[d])
                            /\ ((ClearedCalls(cs)[d] = None) <=> (cs[d] = None))
                            /\ cs[d] # None /\ ClearedCalls(cs)[d].kind \in {"list", "feed", "operation"} =>
                                 ~ClearedCalls(cs)[d].fresh
<1>1. SUFFICES ASSUME NEW d \in Call
               PROVE  /\ ClearedCalls(cs)[d] \in Calls \cup {None}
                      /\ Quieter(ClearedCalls(cs)[d], cs[d])
                      /\ ((ClearedCalls(cs)[d] = None) <=> (cs[d] = None))
                      /\ cs[d] # None /\ ClearedCalls(cs)[d].kind \in {"list", "feed", "operation"} =>
                           ~ClearedCalls(cs)[d].fresh
  BY DEF ClearedCalls
<1>2. CASE cs[d] = None
  BY <1>2 DEF ClearedCalls, Quieter
<1>3. CASE cs[d] # None
  <2>1. PICK k \in Calls : k = cs[d]
    BY <1>3
  <2> DEFINE l == [k EXCEPT !.fresh = FALSE, !.old = TRUE, !.latest = FALSE]
  <2>2. ClearedCalls(cs)[d] = IF k.kind \in {"list", "feed", "operation"} THEN l ELSE k
    BY <1>3, <2>1 DEF ClearedCalls
  <2>3. l \in Calls /\ l.kind = k.kind /\ l.by = k.by /\ l.of = k.of /\ ~l.fresh
    BY DEF Calls
  <2> HIDE DEF l
  <2>4. QED
    BY <1>3, <2>1, <2>2, <2>3, NoneIsNoCall DEF Quieter
<1>4. QED
  BY <1>2, <1>3

\* A chosen workspace silences the feeds.
LEMMA AppliedQuiet ==
  ASSUME NEW t, NEW cs \in [Call -> Calls \cup {None}]
  PROVE  /\ AppliedCalls(t, cs) \in [Call -> Calls \cup {None}]
         /\ t.operation = "pending" => AppliedCalls(t, cs) = cs
         /\ \A d \in Call : /\ Quieter(AppliedCalls(t, cs)[d], cs[d])
                            /\ ((AppliedCalls(t, cs)[d] = None) <=> (cs[d] = None))
                            /\ t.operation # "pending" /\ cs[d] # None
                                 /\ AppliedCalls(t, cs)[d].kind = "feed" =>
                                 ~AppliedCalls(t, cs)[d].fresh
<1> DEFINE o == Overtaken({"feed"}, cs)
           p == Older({"feed"}, o)
<1>1. /\ o \in [Call -> Calls \cup {None}]
      /\ \A d \in Call : /\ Quieter(o[d], cs[d]) /\ ((o[d] = None) <=> (cs[d] = None))
                         /\ o[d].kind \in {"feed"} /\ cs[d] # None => ~o[d].fresh
  BY OvertakenQuiet
<1>2. AppliedCalls(t, cs) = IF t.operation = "pending" THEN cs ELSE p
  BY DEF AppliedCalls, ClearPrivate
<1> HIDE DEF o
<1>3. /\ p \in [Call -> Calls \cup {None}]
      /\ \A d \in Call : /\ Quieter(p[d], o[d]) /\ ((p[d] = None) <=> (o[d] = None))
                         /\ p[d].kind \in {"feed"} /\ o[d] # None => ~p[d].fresh
  <2>1. \A d \in Call : o[d] # None /\ o[d].kind \in {"feed"} => ~o[d].fresh
    BY <1>1
  <2>2. QED
    BY <1>1, <2>1, OlderQuiet
<1> HIDE DEF p
<1>4. ASSUME NEW d \in Call
      PROVE  /\ Quieter(AppliedCalls(t, cs)[d], cs[d])
             /\ ((AppliedCalls(t, cs)[d] = None) <=> (cs[d] = None))
             /\ t.operation # "pending" /\ cs[d] # None
                  /\ AppliedCalls(t, cs)[d].kind = "feed" => ~AppliedCalls(t, cs)[d].fresh
  <2>1. CASE t.operation = "pending"
    BY <1>2, <2>1, QuietIsQuieter
  <2>2. CASE t.operation # "pending"
    <3>1. Quieter(p[d], o[d]) /\ Quieter(o[d], cs[d])
      BY <1>1, <1>3
    <3>2. Quieter(p[d], cs[d])
      BY <3>1, QuieterFurther
    <3>3. QED
      BY <1>1, <1>2, <1>3, <2>2, <3>2
  <2>3. QED
    BY <2>1, <2>2
<1>5. QED
  BY <1>2, <1>3, <1>4

\* Leaving silences whatever was asked.
LEMMA SilencedQuiet ==
  ASSUME NEW cs \in [Call -> Calls \cup {None}]
  PROVE  /\ ClearedCalls(Silenced(cs)) \in [Call -> Calls \cup {None}]
         /\ \A d \in Call : /\ Quieter(ClearedCalls(Silenced(cs))[d], cs[d])
                            /\ ClearedCalls(Silenced(cs))[d] \in Calls /\
                               ClearedCalls(Silenced(cs))[d].kind
                                 \in {"session", "list", "feed", "operation"} =>
                                 ~ClearedCalls(Silenced(cs))[d].fresh
<1> DEFINE o == Overtaken({"session"}, cs)
           p == Older({"session"}, o)
           q == ClearedCalls(p)
<1>1. /\ o \in [Call -> Calls \cup {None}]
      /\ \A d \in Call : /\ Quieter(o[d], cs[d]) /\ ((o[d] = None) <=> (cs[d] = None))
                         /\ o[d].kind \in {"session"} /\ cs[d] # None => ~o[d].fresh
  BY OvertakenQuiet
<1>2. ClearedCalls(Silenced(cs)) = q
  BY DEF Silenced
<1> HIDE DEF o
<1>3. /\ p \in [Call -> Calls \cup {None}]
      /\ \A d \in Call : /\ Quieter(p[d], o[d]) /\ ((p[d] = None) <=> (o[d] = None))
                         /\ p[d].kind \in {"session"} /\ o[d] # None => ~p[d].fresh
  <2>1. \A d \in Call : o[d] # None /\ o[d].kind \in {"session"} => ~o[d].fresh
    BY <1>1
  <2>2. QED
    BY <1>1, <2>1, OlderQuiet
<1> HIDE DEF p
<1>4. /\ q \in [Call -> Calls \cup {None}]
      /\ \A d \in Call : /\ Quieter(q[d], p[d]) /\ ((q[d] = None) <=> (p[d] = None))
                         /\ p[d] # None /\ q[d].kind \in {"list", "feed", "operation"} => ~q[d].fresh
  BY <1>3, ClearedQuiet
<1> HIDE DEF q
<1>5. ASSUME NEW d \in Call
      PROVE  /\ Quieter(q[d], cs[d])
             /\ q[d] \in Calls /\ q[d].kind \in {"session", "list", "feed", "operation"} => ~q[d].fresh
  <2>1. Quieter(q[d], p[d]) /\ Quieter(p[d], o[d]) /\ Quieter(o[d], cs[d])
    BY <1>1, <1>3, <1>4
  <2>2. Quieter(q[d], cs[d])
    BY <2>1, QuieterFurther
  <2>3. ASSUME q[d] \in Calls, q[d].kind = "session"
        PROVE  ~q[d].fresh
    <3>1. q[d] # None /\ p[d] # None /\ o[d] # None
      BY <2>3, <1>3, <1>4, NoneIsNoCall
    <3>2. p[d].kind = "session" /\ (q[d].fresh => p[d].fresh)
      BY <2>1, <2>3, <3>1 DEF Quieter
    <3>3. QED
      BY <1>3, <3>1, <3>2
  <2>4. QED
    BY <1>4, <2>2, <2>3, NoneIsNoCall
<1>6. QED
  BY <1>2, <1>4, <1>5

\* A chosen workspace is shown empty at first.
LEMMA AppliedTab ==
  ASSUME NEW t \in Tab, TabFits(t), NEW s \in Space \cup {NoSpace}
  PROVE  /\ Applied(t, s) \in Tab /\ TabFits(Applied(t, s))
         /\ Applied(t, s).user = t.user /\ Applied(t, s).leaving = t.leaving
         /\ Applied(t, s).authorized = t.authorized /\ Applied(t, s).link = t.link
         /\ t.operation = "pending" => Applied(t, s) = t
         /\ t.operation # "pending" => Applied(t, s).shown = NoSpace /\ Applied(t, s).space = s
         /\ Applied(t, s).shown \in {t.shown, NoSpace}
BY DEF Applied, Tab, TabFits

\* A cleared tab has no user and shows nothing.
LEMMA ClearedTab ==
  ASSUME NEW t \in Tab, TabFits(t)
  PROVE  /\ ClearIdentity(t) \in Tab /\ TabFits(ClearIdentity(t))
         /\ ClearIdentity(t).user = NoUser /\ ClearIdentity(t).authorized = {}
         /\ ClearIdentity(t).shown = NoSpace /\ ClearIdentity(t).leaving = t.leaving
BY DEF ClearIdentity, Tab, TabFits

LEMMA ElsewhereTyped ==
  ASSUME PageTypeOK
  PROVE  /\ Elsewhere \in {NotConnecting} \cup Connections
         /\ Elsewhere = NotConnecting => connecting = NotConnecting
<1>1. CASE connecting = NotConnecting
  BY <1>1 DEF Elsewhere
<1>2. CASE connecting # NotConnecting
  <2>1. PICK k \in Connections : k = connecting
    BY <1>2 DEF PageTypeOK, Connections
  <2>2. Elsewhere = [k EXCEPT !.same = FALSE]
    BY <1>2, <2>1 DEF Elsewhere
  <2>3. [k EXCEPT !.same = FALSE] \in Connections /\ [k EXCEPT !.same = FALSE] # NotConnecting
    BY DEF Connections, NotConnecting
  <2>4. QED
    BY <2>2, <2>3
<1>3. QED
  BY <1>1, <1>2

LEMMA BlankTyped ==
  ASSUME PageTypeOK, NEW kind \in {"session", "list", "feed", "operation", "signout"}
  PROVE  /\ Blank(kind) \in Calls /\ Blank(kind).kind = kind /\ Blank(kind).by = tab.user
         /\ Blank(kind).fresh /\ ~Blank(kind).old /\ Blank(kind).of = NoSpace
BY DEF PageTypeOK, Tab, Blank, Calls

\* A request that is sent overtakes those of its kind.
LEMMA SentQuiet ==
  ASSUME PageTypeOK, NEW c \in Call, NEW kind \in {"session", "list", "feed", "operation", "signout"}
  PROVE  /\ Sent(c, kind, call) \in [Call -> Calls \cup {None}]
         /\ Sent(c, kind, call)[c] = Blank(kind)
         /\ \A d \in Call \ {c} : Quieter(Sent(c, kind, call)[d], call[d])
<1>1. call \in [Call -> Calls \cup {None}] /\ Blank(kind) \in Calls
  BY BlankTyped DEF PageTypeOK
<1>2. /\ Overtaken({kind}, call) \in [Call -> Calls \cup {None}]
      /\ \A d \in Call : Quieter(Overtaken({kind}, call)[d], call[d])
  BY <1>1, OvertakenQuiet
<1> DEFINE o == Overtaken({kind}, call)
<1>3. Sent(c, kind, call) = [o EXCEPT ![c] = Blank(kind)]
  BY DEF Sent
<1> HIDE DEF o
<1>4. QED
  BY <1>1, <1>2, <1>3 DEF o

-----------------------------------------------------------------------------
(* The steps. *)

\* The tab moves calmly, and its requests fit it.
LEMMA PageMoves ==
  ASSUME PageInv, PageTypeOK', TabFits(tab'), \A c \in Call : CallFits(call'[c], tab'), Calm
  PROVE  PageInv' /\ PageFollows
<1>1. PageFollows
  BY DEF Calm, PageFollows
<1>2. PageInv'
  BY DEF PageInv, TabFits, CallFits
<1>3. QED
  BY <1>1, <1>2

\* No request counts for more than before, and the tab is as it was or hidden from those
\* that count.
LEMMA RequestsQuieten ==
  ASSUME PageInv, \A d \in Call : Quieter(call'[d], call[d]),
         \/ tab'.leaving => tab.leaving
         \/ \A d \in Call : call'[d] \in Calls /\ call'[d].kind = "session" => ~call'[d].fresh,
         \/ tab'.user = tab.user /\ tab'.space = tab.space /\ (tab'.blocked => tab.blocked)
         \/ \A d \in Call : call'[d] \in Calls /\ call'[d].kind = "feed" => ~call'[d].fresh
  PROVE  \A d \in Call : CallFits(call'[d], tab')
<1>1. SUFFICES ASSUME NEW d \in Call
               PROVE  CallFits(call'[d], tab')
  OBVIOUS
<1>2. Quieter(call'[d], call[d]) /\ CallFits(call[d], tab)
  BY DEF PageInv
<1>3. /\ call'[d] \in Calls /\ call'[d].kind = "session" /\ call'[d].fresh =>
           (tab'.leaving => tab.leaving)
      /\ call'[d] \in Calls /\ call'[d].kind = "feed" /\ call'[d].fresh =>
           tab'.user = tab.user /\ tab'.space = tab.space /\ (tab'.blocked => tab.blocked)
  OBVIOUS
<1>4. QED
  BY <1>2, <1>3, QuieterFits

\* One request is dropped.
LEMMA OneDropped ==
  ASSUME PageTypeOK, NEW c \in Call
  PROVE  /\ [call EXCEPT ![c] = None] \in [Call -> Calls \cup {None}]
         /\ [call EXCEPT ![c] = None][c] = None
         /\ \A d \in Call : Quieter([call EXCEPT ![c] = None][d], call[d])
<1>1. call \in [Call -> Calls \cup {None}]
  BY DEF PageTypeOK
<1>2. \A d \in Call : Quieter(call[d], call[d]) /\ Quieter(None, call[d])
  BY <1>1, QuietIsQuieter DEF Quieter
<1>3. QED
  BY <1>1, <1>2

\* The identity ends.
LEMMA IdentityEnds ==
  ASSUME PageInv, NEW c \in Call,
         tab' = ClearIdentity(tab), call' = ClearedCalls([call EXCEPT ![c] = None]),
         connecting' = Elsewhere, UNCHANGED behind
  PROVE  PageInv' /\ PageFollows
<1> DEFINE r == [call EXCEPT ![c] = None]
<1>t. PageTypeOK /\ tab \in Tab /\ TabFits(tab)
  BY DEF PageInv, PageTypeOK
<1>1. r \in [Call -> Calls \cup {None}] /\ \A d \in Call : Quieter(r[d], call[d])
  BY <1>t, OneDropped
<1>2. call' = ClearedCalls(r)
  OBVIOUS
<1> HIDE DEF r
<1>3. /\ call' \in [Call -> Calls \cup {None}]
      /\ \A d \in Call : /\ Quieter(call'[d], r[d])
                         /\ ((call'[d] = None) <=> (r[d] = None))
                         /\ r[d] # None /\ call'[d].kind \in {"list", "feed", "operation"} =>
                              ~call'[d].fresh
  BY <1>1, <1>2, ClearedQuiet
<1>4. \A d \in Call : Quieter(call'[d], call[d])
  BY <1>1, <1>3, QuieterFurther
<1>5. /\ tab' \in Tab /\ TabFits(tab') /\ tab'.user = NoUser /\ tab'.authorized = {}
      /\ tab'.shown = NoSpace /\ tab'.leaving = tab.leaving
  BY <1>t, ClearedTab
<1>6. \A d \in Call : CallFits(call'[d], tab')
  <2>1. \A d \in Call : call'[d] \in Calls /\ call'[d].kind = "feed" => ~call'[d].fresh
    BY <1>3, NoneIsNoCall
  <2>2. QED
    BY <1>4, <1>5, <2>1, RequestsQuieten
<1>7. /\ connecting' \in {NotConnecting} \cup Connections
      /\ connecting' = NotConnecting => connecting = NotConnecting
  BY <1>t, ElsewhereTyped
<1>8. PageTypeOK'
  BY <1>t, <1>3, <1>5, <1>7 DEF PageTypeOK, behind, around, Connections
<1>9. Calm
  BY <1>5, <1>7 DEF Calm
<1>10. QED
  BY <1>5, <1>6, <1>8, <1>9, PageMoves

\* Requests grow quieter and the rest stays as it is.
LEMMA OnlyQuieter ==
  ASSUME PageInv, call' \in [Call -> Calls \cup {None}],
         \A d \in Call : Quieter(call'[d], call[d]),
         UNCHANGED <<mine, pageTurns, heard, other, tab>>, cookie' \in {cookie, NoUser},
         connecting' \in {connecting, NotConnecting}
  PROVE  PageInv' /\ PageFollows
<1>1. \A d \in Call : CallFits(call'[d], tab')
  BY RequestsQuieten
<1>2. PageTypeOK'
  BY DEF PageInv, PageTypeOK
<1>3. Calm
  BY DEF Calm
<1>4. TabFits(tab')
  BY DEF PageInv
<1>5. QED
  BY <1>1, <1>2, <1>3, <1>4, PageMoves

\* A request is sent, and those of its kind before it count no more.
LEMMA OneSent ==
  ASSUME PageInv, NEW c \in Call, NEW kind \in {"session", "list", "feed", "operation", "signout"},
         NEW k \in Calls, NEW cs, cs = Sent(c, kind, call),
         call' = [cs EXCEPT ![c] = k],
         CallFits(k, tab), UNCHANGED <<around, tab>>, pageTurns' \in 0 .. MaxPageTurns,
         connecting' \in {NotConnecting} \cup Connections,
         connecting' = NotConnecting => connecting = NotConnecting
  PROVE  PageInv' /\ PageFollows
<1>t. PageTypeOK
  BY DEF PageInv
<1>1. /\ cs \in [Call -> Calls \cup {None}]
      /\ \A d \in Call \ {c} : Quieter(cs[d], call[d])
  BY <1>t, SentQuiet
<1>2. /\ call' \in [Call -> Calls \cup {None}] /\ call'[c] = k
      /\ \A d \in Call \ {c} : Quieter(call'[d], call[d])
  BY <1>1
<1>3. \A d \in Call : CallFits(call'[d], tab)
  <2>1. SUFFICES ASSUME NEW d \in Call \ {c}
                 PROVE  CallFits(call'[d], tab)
    BY <1>2
  <2>2. Quieter(call'[d], call[d]) /\ CallFits(call[d], tab)
    BY <1>2 DEF PageInv
  <2>3. QED
    BY <2>2, QuieterFits
<1>4. PageTypeOK'
  BY <1>t, <1>2 DEF PageTypeOK, around, Connections
<1>5. Calm
  BY DEF Calm
<1>6. tab' = tab
  OBVIOUS
<1>7. TabFits(tab') /\ \A d \in Call : CallFits(call'[d], tab')
  BY <1>3, <1>6 DEF PageInv
<1>8. QED
  BY <1>4, <1>5, <1>7, PageMoves

\* What happens on the server and in the other tab.
LEMMA AroundTurns ==
  ASSUME PageInv,
         CookieTurns \/ (\E u \in User : SpacesTurn(u)) \/ OtherClears \/ OtherLeft
  PROVE  PageInv' /\ PageFollows
<1>t. PageTypeOK
  BY DEF PageInv
<1>1. UNCHANGED <<tab, call, connecting>>
  BY DEF CookieTurns, SpacesTurn, OtherClears, OtherLeft
<1>2. /\ cookie' \in User \cup {NoUser} /\ mine' \in [User -> SUBSET Space]
      /\ pageTurns' \in 0 .. MaxPageTurns /\ heard' \in Seq(Messages) /\ other' \in BOOLEAN
  <2>0. PageTurn => pageTurns' \in 0 .. MaxPageTurns
    BY <1>t, PageIdentityAssumption DEF PageTurn, PageTypeOK
  <2>1. CASE CookieTurns
    BY <1>t, <2>0, <2>1 DEF CookieTurns, PageTypeOK, Messages
  <2>2. ASSUME NEW u \in User, SpacesTurn(u)
        PROVE  /\ cookie' \in User \cup {NoUser} /\ mine' \in [User -> SUBSET Space]
               /\ pageTurns' \in 0 .. MaxPageTurns /\ heard' \in Seq(Messages) /\ other' \in BOOLEAN
    BY <1>t, <2>0, <2>2 DEF SpacesTurn, PageTypeOK, Messages
  <2>3. CASE OtherClears
    <3>1. heard' \in Seq(Messages)
      BY <1>t, <2>3 DEF OtherClears, PageTypeOK, Messages
    <3>2. QED
      BY <1>t, <2>0, <2>3, <3>1 DEF OtherClears, PageTypeOK
  <2>4. CASE OtherLeft
    <3>1. heard' \in Seq(Messages)
      BY <1>t, <2>4 DEF OtherLeft, PageTypeOK, Messages
    <3>2. QED
      BY <1>t, <2>4, <3>1 DEF OtherLeft, PageTypeOK
  <2>5. QED
    BY <2>1, <2>2, <2>3, <2>4
<1>3. PageTypeOK'
  BY <1>t, <1>1, <1>2 DEF PageTypeOK, Messages
<1>4. Calm
  BY <1>1 DEF Calm
<1>5. TabFits(tab') /\ \A d \in Call : CallFits(call'[d], tab')
  BY <1>1 DEF PageInv
<1>6. QED
  BY <1>3, <1>4, <1>5, PageMoves

\* The other tab's message clears this one, and silences its requests.
LEMMA HearsOther ==
  ASSUME PageInv, HearOtherTab
  PROVE  PageInv' /\ PageFollows
<1>t. PageTypeOK /\ tab \in Tab /\ TabFits(tab) /\ call \in [Call -> Calls \cup {None}]
  BY DEF PageInv, PageTypeOK
<1> DEFINE t == ClearIdentity(tab)
           b == Head(heard) = "session-clearing"
<1>1. /\ t \in Tab /\ TabFits(t) /\ t.user = NoUser /\ t.authorized = {} /\ t.shown = NoSpace
  BY <1>t, ClearedTab
<1>2. tab' = [t EXCEPT !.leaving = b] /\ b \in BOOLEAN
  BY DEF HearOtherTab
<1> HIDE DEF t, b
<1>3. /\ tab' \in Tab /\ TabFits(tab') /\ tab'.user = NoUser /\ tab'.authorized = {}
      /\ tab'.shown = NoSpace
  BY <1>1, <1>2 DEF Tab, TabFits
<1>4. /\ call' \in [Call -> Calls \cup {None}]
      /\ \A d \in Call : /\ Quieter(call'[d], call[d])
                         /\ call'[d] \in Calls
                              /\ call'[d].kind \in {"session", "list", "feed", "operation"} =>
                              ~call'[d].fresh
  BY <1>t, SilencedQuiet DEF HearOtherTab
<1>5. \A d \in Call : CallFits(call'[d], tab')
  BY <1>4, RequestsQuieten
<1>6. connecting' \in {NotConnecting} \cup Connections
      /\ (connecting' = NotConnecting => connecting = NotConnecting)
  BY <1>t, ElsewhereTyped DEF HearOtherTab
<1>7. heard' \in Seq(Messages)
  BY <1>t DEF HearOtherTab, PageTypeOK, Messages
<1>8. PageTypeOK'
  BY <1>t, <1>3, <1>4, <1>6, <1>7 DEF PageTypeOK, HearOtherTab, Connections, Messages
<1>9. Calm
  BY <1>3, <1>6 DEF Calm
<1>10. QED
  BY <1>3, <1>5, <1>8, <1>9, PageMoves

\* The server answers: whom the request is for, and what about, stays.
LEMMA Served ==
  ASSUME PageInv, NEW c \in Call, Serve(c)
  PROVE  PageInv' /\ PageFollows
<1>t. PageTypeOK /\ call \in [Call -> Calls \cup {None}] /\ mine \in [User -> SUBSET Space]
      /\ cookie \in User \cup {NoUser}
  BY DEF PageInv, PageTypeOK
<1>1. PICK k \in Calls : k = call[c]
  BY <1>t, CallTyped DEF Serve
<1>2. ASSUME NEW a \in {"refused", "failed", "ok"}, NEW w \in User \cup {NoUser},
             NEW s \in SUBSET Space,
             call' = [call EXCEPT ![c] = [k EXCEPT !.answer = a, !.who = w, !.spaces = s]]
      PROVE  /\ call' \in [Call -> Calls \cup {None}]
             /\ \A d \in Call : Quieter(call'[d], call[d])
  <2> DEFINE l == [k EXCEPT !.answer = a, !.who = w, !.spaces = s]
  <2>1. l \in Calls /\ Quieter(l, k)
    BY DEF Calls, Quieter
  <2>2. call' = [call EXCEPT ![c] = l]
    BY <1>2
  <2> HIDE DEF l
  <2>3. QED
    BY <1>t, <1>1, <2>1, <2>2, QuietIsQuieter
<1>3. k.who \in User \cup {NoUser} /\ k.spaces \in SUBSET Space
  BY DEF Calls
<1>4. \E a \in {"refused", "failed", "ok"}, w \in User \cup {NoUser}, s \in SUBSET Space :
        call' = [call EXCEPT ![c] = [k EXCEPT !.answer = a, !.who = w, !.spaces = s]]
  <2>1. ASSUME NEW a \in {"refused", "failed", "ok"}, call' = [call EXCEPT ![c].answer = a]
        PROVE  <1>4
    <3>1. [k EXCEPT !.answer = a] = [k EXCEPT !.answer = a, !.who = k.who, !.spaces = k.spaces]
      BY DEF Calls
    <3>2. call' = [call EXCEPT ![c] = [k EXCEPT !.answer = a]]
      BY <1>t, <1>1, <2>1
    <3>3. QED
      BY <1>3, <3>1, <3>2
  <2>2. ASSUME NEW a \in {"refused", "failed", "ok"}, NEW w \in User \cup {NoUser},
               call' = [call EXCEPT ![c].answer = a, ![c].who = w]
        PROVE  <1>4
    <3>1. [k EXCEPT !.answer = a, !.who = w] = [k EXCEPT !.answer = a, !.who = w, !.spaces = k.spaces]
      BY DEF Calls
    <3>2. call' = [call EXCEPT ![c] = [k EXCEPT !.answer = a, !.who = w]]
      BY <1>t, <1>1, <2>2
    <3>3. QED
      BY <1>3, <3>1, <3>2
  <2>3. ASSUME NEW s \in SUBSET Space,
               call' = [call EXCEPT ![c].answer = "ok", ![c].spaces = s]
        PROVE  <1>4
    <3>1. [k EXCEPT !.answer = "ok", !.spaces = s] = [k EXCEPT !.answer = "ok", !.who = k.who, !.spaces = s]
      BY DEF Calls
    <3>2. call' = [call EXCEPT ![c] = [k EXCEPT !.answer = "ok", !.spaces = s]]
      BY <1>t, <1>1, <2>3
    <3>3. QED
      BY <1>3, <3>1, <3>2
  <2>4. \/ \E a \in {"refused", "failed", "ok"} : call' = [call EXCEPT ![c].answer = a]
        \/ \E a \in {"refused", "failed", "ok"}, w \in User \cup {NoUser} :
             call' = [call EXCEPT ![c].answer = a, ![c].who = w]
        \/ \E s \in SUBSET Space : call' = [call EXCEPT ![c].answer = "ok", ![c].spaces = s]
    BY <1>t DEF Serve
  <2>5. QED
    BY <2>1, <2>2, <2>3, <2>4
<1>5. /\ call' \in [Call -> Calls \cup {None}]
      /\ \A d \in Call : Quieter(call'[d], call[d])
  BY <1>2, <1>4
<1>6. UNCHANGED <<mine, pageTurns, heard, other, tab>> /\ cookie' \in {cookie, NoUser}
      /\ connecting' \in {connecting, NotConnecting}
  BY DEF Serve
<1>7. QED
  BY <1>5, <1>6, OnlyQuieter

\* A tab asks whose it is.
LEMMA SessionSent ==
  ASSUME PageInv, NEW c \in Call, LoadSession(c)
  PROVE  PageInv' /\ PageFollows
<1>1. Blank("session") \in Calls /\ CallFits(Blank("session"), tab)
  BY BlankTyped DEF PageInv, LoadSession, CallFits
<1>2. call' = [Sent(c, "session", call) EXCEPT ![c] = Blank("session")]
  BY SentQuiet DEF LoadSession, PageInv
<1>3. /\ UNCHANGED <<around, tab>> /\ pageTurns' \in 0 .. MaxPageTurns
      /\ connecting' \in {NotConnecting} \cup Connections
      /\ connecting' = NotConnecting => connecting = NotConnecting
  BY DEF LoadSession, behind, PageInv, PageTypeOK, Connections
<1>4. QED
  BY <1>1, <1>2, <1>3, OneSent

\* A read that has been overtaken, or brings nobody new to a tab without a user.
LEMMA SessionSeen ==
  ASSUME PageInv, NEW c \in Call, SessionArrives(c) \/ SessionFails(c)
  PROVE  PageInv' /\ PageFollows
<1>t. PageTypeOK /\ tab \in Tab /\ TabFits(tab) /\ call \in [Call -> Calls \cup {None}]
  BY DEF PageInv, PageTypeOK
<1> DEFINE r == [call EXCEPT ![c] = None]
<1>0. UNCHANGED behind
  BY DEF SessionArrives, SessionFails
<1>1. /\ r \in [Call -> Calls \cup {None}] /\ r[c] = None
      /\ \A d \in Call : Quieter(r[d], call[d])
  BY <1>t, OneDropped
<1>2. CASE call' = r /\ UNCHANGED <<tab, connecting>>
  BY <1>0, <1>1, <1>2, OnlyQuieter DEF behind, around
<1>3. CASE tab' = ClearIdentity(tab) /\ call' = ClearedCalls(r) /\ connecting' = Elsewhere
  BY <1>0, <1>3, IdentityEnds
<1>4. CASE SessionFails(c)
  BY <1>2, <1>3, <1>4 DEF SessionFails
<1>5. CASE SessionArrives(c) /\ call[c].fresh
  <2> DEFINE next == call[c].who
             turned == next # tab.user
             calls == IF turned THEN ClearedCalls(r) ELSE r
             t == IF turned THEN [ClearIdentity(tab) EXCEPT !.user = next] ELSE tab
             k == [Blank("list") EXCEPT !.by = next, !.latest = TRUE]
             e == [d \in Call |-> IF calls[d] = None THEN None ELSE [calls[d] EXCEPT !.latest = FALSE]]
  <2>1. /\ tab' = t /\ connecting' = IF turned THEN Elsewhere ELSE connecting
        /\ call' = IF next = NoUser THEN calls ELSE [Overtaken({"list"}, e) EXCEPT ![c] = k]
    BY <1>5 DEF SessionArrives, NewestRead
  <2>2. /\ call[c] \in Calls /\ call[c].kind = "session" /\ call[c].fresh /\ call[c].answer = "ok"
    BY <1>5, <1>t, CallTyped DEF SessionArrives, CallAnswered
  <2>3. next \in User \cup {NoUser} /\ ~call[c].old /\ ~tab.leaving
    BY <2>2 DEF Calls, PageInv, CallFits
  <2>4. /\ calls \in [Call -> Calls \cup {None}]
        /\ \A d \in Call : Quieter(calls[d], call[d])
        /\ turned => \A d \in Call : calls[d] \in Calls /\ calls[d].kind = "feed" => ~calls[d].fresh
    <3> HIDE DEF r, turned
    <3>1. CASE turned
      <4>1. /\ calls \in [Call -> Calls \cup {None}]
            /\ \A d \in Call : /\ Quieter(calls[d], r[d])
                               /\ ((calls[d] = None) <=> (r[d] = None))
                               /\ r[d] # None /\ calls[d].kind \in {"list", "feed", "operation"} =>
                                    ~calls[d].fresh
        BY <1>1, <3>1, ClearedQuiet
      <4> HIDE DEF calls
      <4>2. \A d \in Call : Quieter(calls[d], call[d])
        BY <1>1, <4>1, QuieterFurther
      <4>3. QED
        BY <4>1, <4>2, NoneIsNoCall
    <3>2. CASE ~turned
      BY <1>1, <3>2
    <3>3. QED
      BY <3>1, <3>2
  <2>5. /\ t \in Tab /\ TabFits(t) /\ ~t.leaving /\ t.user = next
        /\ ~turned => t = tab
        /\ turned => t.authorized = {} /\ t.shown = NoSpace
    <3>1. CASE turned
      <4> DEFINE u == ClearIdentity(tab)
      <4>1. /\ u \in Tab /\ TabFits(u) /\ u.authorized = {} /\ u.shown = NoSpace
            /\ u.leaving = tab.leaving
        BY <1>t, ClearedTab
      <4>2. t = [u EXCEPT !.user = next]
        BY <3>1
      <4> HIDE DEF u, t, turned, next
      <4>3. QED
        BY <2>3, <3>1, <4>1, <4>2 DEF Tab, TabFits
    <3>2. CASE ~turned
      BY <1>t, <2>3, <3>2
    <3>3. QED
      BY <3>1, <3>2
  <2>6. /\ connecting' \in {NotConnecting} \cup Connections
        /\ connecting' = NotConnecting => connecting = NotConnecting
    BY <1>t, <2>1, ElsewhereTyped DEF PageTypeOK, Connections
  <2>7. \A d \in Call : calls[d] \in Calls /\ calls[d].kind = "feed" /\ calls[d].fresh => t = tab
    BY <2>4, <2>5
  <2> HIDE DEF calls, t, turned
  \* The fits of what was under way.
  <2>8. ASSUME NEW d \in Call, NEW l, Quieter(l, calls[d])
        PROVE  CallFits(l, t)
    <3>1. CallFits(call[d], tab) /\ Quieter(calls[d], call[d])
      BY <2>4 DEF PageInv
    <3>2. Quieter(l, call[d])
      BY <2>8, <3>1, QuieterFurther
    <3>3. l \in Calls /\ l.kind = "feed" /\ l.fresh => t = tab
      BY <2>7, <2>8, NoneIsNoCall DEF Quieter
    <3>4. QED
      BY <2>5, <3>1, <3>2, <3>3, QuieterFits
  <2>9. CASE next = NoUser
    <3>1. call' = calls
      BY <2>1, <2>9
    <3>2. \A d \in Call : CallFits(call'[d], tab')
      <4>1. SUFFICES ASSUME NEW d \in Call
                     PROVE  CallFits(calls[d], t)
        BY <2>1, <3>1
      <4>2. Quieter(calls[d], calls[d])
        BY <2>4, QuietIsQuieter
      <4>3. QED
        BY <2>8, <4>2
    <3>3. PageTypeOK'
      BY <1>0, <1>t, <2>1, <2>4, <2>5, <2>6, <3>1 DEF PageTypeOK, behind, around, Connections
    <3>4. Calm
      BY <2>1, <2>5, <2>6, <2>9 DEF Calm
    <3>5. QED
      BY <2>1, <2>5, <3>2, <3>3, <3>4, PageMoves
  <2>10. CASE next # NoUser
    <3>1. k \in Calls /\ k.kind = "list" /\ k.by = next /\ k.fresh /\ ~k.old
      <4>1. Blank("list") \in Calls /\ Blank("list").kind = "list" /\ Blank("list").fresh
            /\ ~Blank("list").old
        BY <1>t, BlankTyped
      <4>2. QED
        BY <2>3, <4>1 DEF Calls
    <3>2. CallFits(k, t)
      BY <2>10, <3>1 DEF CallFits
    <3>3. /\ e \in [Call -> Calls \cup {None}]
          /\ \A d \in Call : Quieter(e[d], calls[d])
      <4>1. SUFFICES ASSUME NEW d \in Call
                     PROVE  e[d] \in Calls \cup {None} /\ Quieter(e[d], calls[d])
        OBVIOUS
      <4>2. CASE calls[d] = None
        BY <4>2 DEF Quieter
      <4>3. CASE calls[d] # None
        <5>1. PICK x \in Calls : x = calls[d]
          BY <2>4, <4>3
        <5>2. e[d] = [x EXCEPT !.latest = FALSE]
          BY <4>3, <5>1
        <5>3. [x EXCEPT !.latest = FALSE] \in Calls /\ Quieter([x EXCEPT !.latest = FALSE], x)
          BY DEF Calls, Quieter
        <5>4. QED
          BY <5>1, <5>2, <5>3
      <4>4. QED
        BY <4>2, <4>3
    <3> DEFINE o == Overtaken({"list"}, e)
    <3>4. call' = [o EXCEPT ![c] = k]
      BY <2>1, <2>10
    <3> HIDE DEF e
    <3>5. /\ o \in [Call -> Calls \cup {None}]
          /\ \A d \in Call : Quieter(o[d], e[d])
      BY <3>3, OvertakenQuiet
    <3> HIDE DEF o, k
    <3>6. /\ call' \in [Call -> Calls \cup {None}] /\ call'[c] = k
          /\ \A d \in Call \ {c} : call'[d] = o[d]
      BY <3>1, <3>4, <3>5
    <3>7. \A d \in Call : CallFits(call'[d], tab')
      <4>1. SUFFICES ASSUME NEW d \in Call \ {c}
                     PROVE  CallFits(o[d], t)
        BY <2>1, <3>2, <3>6
      <4>2. Quieter(o[d], e[d]) /\ Quieter(e[d], calls[d])
        BY <3>3, <3>5
      <4>3. Quieter(o[d], calls[d])
        BY <4>2, QuieterFurther
      <4>4. QED
        BY <2>8, <4>3
    <3>8. PageTypeOK'
      BY <1>0, <1>t, <2>1, <2>5, <2>6, <3>6 DEF PageTypeOK, behind, around, Connections
    <3>9. PageInv'
      BY <2>1, <2>5, <3>7, <3>8 DEF PageInv, TabFits, CallFits
    <3>10. CallAnswered(c, "session", {"ok"}) /\ ~call[c].old /\ call'[c] # call[c]
      BY <1>5, <2>2, <2>3, <3>1, <3>6 DEF SessionArrives
    <3>11. PageFollows
      <4>1. tab'.authorized \in {tab.authorized, {}} /\ tab'.shown \in {tab.shown, NoSpace}
            /\ (connecting' = NotConnecting => connecting = NotConnecting)
        BY <2>1, <2>5, <2>6
      <4>2. QED
        BY <3>10, <4>1 DEF PageFollows
    <3>12. QED
      BY <3>9, <3>11
  <2>11. QED
    BY <2>9, <2>10
<1>6. CASE SessionArrives(c) /\ ~call[c].fresh
  BY <1>2, <1>6 DEF SessionArrives, NewestRead
<1>7. QED
  BY <1>4, <1>5, <1>6

\* A tab leaves its account.
LEMMA AccountLeft ==
  ASSUME PageInv, NEW c \in Call, LeaveAccount(c) \/ LogoutEnds(c)
  PROVE  PageInv' /\ PageFollows
<1>t. PageTypeOK /\ tab \in Tab /\ TabFits(tab) /\ call \in [Call -> Calls \cup {None}]
  BY DEF PageInv, PageTypeOK
<1>1. CASE LeaveAccount(c)
  <2> DEFINE t == ClearIdentity(tab)
             q == ClearedCalls(Silenced(call))
             k == Blank("signout")
  <2>1. /\ t \in Tab /\ TabFits(t) /\ t.user = NoUser /\ t.authorized = {} /\ t.shown = NoSpace
    BY <1>t, ClearedTab
  <2>2. /\ q \in [Call -> Calls \cup {None}]
        /\ \A d \in Call : /\ Quieter(q[d], call[d])
                           /\ q[d] \in Calls
                                /\ q[d].kind \in {"session", "list", "feed", "operation"} => ~q[d].fresh
    BY <1>t, SilencedQuiet
  <2>3. k \in Calls /\ k.kind = "signout"
    BY <1>t, BlankTyped
  <2>4. /\ tab' = [t EXCEPT !.leaving = TRUE] /\ call' = [q EXCEPT ![c] = k]
        /\ connecting' = Elsewhere /\ UNCHANGED around /\ pageTurns' \in 0 .. MaxPageTurns
    BY <1>1, <1>t, PageIdentityAssumption DEF LeaveAccount, PageTurn, PageTypeOK
  <2> HIDE DEF t, q, k
  <2>5. tab' \in Tab /\ TabFits(tab') /\ tab'.user = NoUser /\ tab'.authorized = {}
        /\ tab'.shown = NoSpace
    BY <2>1, <2>4 DEF Tab, TabFits
  <2>6. /\ call' \in [Call -> Calls \cup {None}] /\ call'[c] = k
        /\ \A d \in Call \ {c} : call'[d] = q[d]
    BY <2>2, <2>3, <2>4
  <2>7. \A d \in Call : CallFits(call'[d], tab')
    <3>1. CallFits(k, tab')
      BY <2>3 DEF CallFits
    <3>2. SUFFICES ASSUME NEW d \in Call \ {c}
                   PROVE  CallFits(q[d], tab')
      BY <2>6, <3>1
    <3>3. CallFits(call[d], tab) /\ Quieter(q[d], call[d])
      BY <2>2 DEF PageInv
    <3>4. q[d] \in Calls => ~(q[d].kind = "session" /\ q[d].fresh) /\ ~(q[d].kind = "feed" /\ q[d].fresh)
      BY <2>2
    <3>5. QED
      BY <3>3, <3>4, QuieterFits
  <2>8. /\ connecting' \in {NotConnecting} \cup Connections
        /\ connecting' = NotConnecting => connecting = NotConnecting
    BY <1>t, <2>4, ElsewhereTyped
  <2>9. PageTypeOK'
    BY <1>t, <2>4, <2>5, <2>6, <2>8 DEF PageTypeOK, around, Connections
  <2>10. Calm
    BY <2>5, <2>8 DEF Calm
  <2>11. QED
    BY <2>5, <2>7, <2>9, <2>10, PageMoves
<1>2. CASE LogoutEnds(c)
  <2>1. call' = [call EXCEPT ![c] = None] /\ UNCHANGED <<behind, connecting>>
        /\ (tab' = tab \/ tab' = [tab EXCEPT !.leaving = FALSE])
    BY <1>2 DEF LogoutEnds
  <2>2. /\ call' \in [Call -> Calls \cup {None}]
        /\ \A d \in Call : Quieter(call'[d], call[d])
    BY <1>t, <2>1, OneDropped
  <2>3. /\ tab' \in Tab /\ TabFits(tab') /\ tab'.user = tab.user /\ tab'.space = tab.space
        /\ tab'.blocked = tab.blocked /\ (tab'.leaving => tab.leaving)
        /\ tab'.authorized = tab.authorized /\ tab'.shown = tab.shown
    BY <1>t, <2>1 DEF Tab, TabFits
  <2>4. \A d \in Call : CallFits(call'[d], tab')
    BY <2>2, <2>3, RequestsQuieten
  <2>5. PageTypeOK'
    BY <1>t, <2>1, <2>2, <2>3 DEF PageTypeOK, behind, around
  <2>6. Calm
    BY <2>1, <2>3 DEF Calm
  <2>7. QED
    BY <2>3, <2>4, <2>5, <2>6, PageMoves
<1>3. QED
  BY <1>1, <1>2

\* The tab keeps its user, and its requests are not for another workspace than before.
LEMMA TabTurns ==
  ASSUME PageInv, tab' \in Tab, TabFits(tab'),
         call' \in [Call -> Calls \cup {None}], \A d \in Call : Quieter(call'[d], call[d]),
         tab'.user = tab.user, tab'.leaving => tab.leaving,
         \/ tab'.space = tab.space /\ (tab'.blocked => tab.blocked)
         \/ \A d \in Call : call'[d] \in Calls /\ call'[d].kind = "feed" => ~call'[d].fresh,
         UNCHANGED around, pageTurns' \in 0 .. MaxPageTurns,
         connecting' \in {NotConnecting} \cup Connections
  PROVE  PageInv'
<1>1. \A d \in Call : CallFits(call'[d], tab')
  BY RequestsQuieten
<1>2. PageTypeOK'
  BY DEF PageInv, PageTypeOK, around, Connections
<1>3. QED
  BY <1>1, <1>2 DEF PageInv, TabFits, CallFits

LEMMA TurnTyped ==
  ASSUME PageTypeOK, PageTurn \/ UNCHANGED pageTurns
  PROVE  pageTurns' \in 0 .. MaxPageTurns
BY PageIdentityAssumption DEF PageTypeOK, PageTurn

\* A list is asked for.
LEMMA ListSent ==
  ASSUME PageInv, NEW c \in Call, tab.user # NoUser,
         call' \in [Call -> Calls \cup {None}],
         \A d \in Call : Quieter(call'[d], Sent(c, "list", call)[d]),
         UNCHANGED <<cookie, heard, other, tab, pageTurns>>,
         mine' \in [User -> SUBSET Space],
         connecting' \in {NotConnecting} \cup Connections
  PROVE  PageInv' /\ PageFollows
<1>t. PageTypeOK
  BY DEF PageInv
<1>1. /\ Sent(c, "list", call)[c] = Blank("list")
      /\ \A d \in Call \ {c} : Quieter(Sent(c, "list", call)[d], call[d])
  BY <1>t, SentQuiet
<1>2. CallFits(Blank("list"), tab)
  BY <1>t, BlankTyped DEF CallFits
<1>3. ASSUME NEW d \in Call
      PROVE  CallFits(call'[d], tab)
  <2>1. CASE d = c
    <3>1. Quieter(call'[d], Blank("list"))
      BY <1>1, <2>1
    <3>2. QED
      BY <1>2, <3>1, QuieterFits
  <2>2. CASE d # c
    <3>1. Quieter(call'[d], Sent(c, "list", call)[d]) /\ Quieter(Sent(c, "list", call)[d], call[d])
      BY <1>1, <2>2
    <3>2. Quieter(call'[d], call[d]) /\ CallFits(call[d], tab)
      BY <3>1, QuieterFurther DEF PageInv
    <3>3. QED
      BY <3>2, QuieterFits
  <2>3. QED
    BY <2>1, <2>2
<1>4. PageTypeOK'
  BY <1>t DEF PageTypeOK, Connections
<1>5. Calm
  BY DEF Calm
<1>6. tab' = tab
  OBVIOUS
<1>7. TabFits(tab') /\ \A d \in Call : CallFits(call'[d], tab')
  BY <1>3, <1>6 DEF PageInv
<1>8. QED
  BY <1>4, <1>5, <1>7, PageMoves

\* One more mark on a request does not make it count.
LEMMA MarkedLatest ==
  ASSUME NEW k \in Calls, NEW b \in BOOLEAN
  PROVE  [k EXCEPT !.latest = b] \in Calls /\ Quieter([k EXCEPT !.latest = b], k)
BY DEF Calls, Quieter

\* A tab asks for its list of workspaces.
LEMMA WorkspacesAsked ==
  ASSUME PageInv, NEW c \in Call,
         (\E kept \in BOOLEAN : LoadWorkspaces(c, kept)) \/ Connected(c)
  PROVE  PageInv' /\ PageFollows
<1>t. PageTypeOK /\ call \in [Call -> Calls \cup {None}]
      /\ connecting \in {NotConnecting} \cup Connections
  BY DEF PageInv, PageTypeOK, Connections
<1> DEFINE cs == Sent(c, "list", call)
<1>1. cs \in [Call -> Calls \cup {None}]
  BY <1>t, SentQuiet
<1> HIDE DEF cs
<1>2. ASSUME NEW kept \in BOOLEAN,
             call' = [d \in Call |-> IF kept /\ cs[d] # None
                                     THEN [cs[d] EXCEPT !.latest = (d = c)] ELSE cs[d]]
      PROVE  /\ call' \in [Call -> Calls \cup {None}]
             /\ \A d \in Call : Quieter(call'[d], cs[d])
  <2>1. SUFFICES ASSUME NEW d \in Call
                 PROVE  call'[d] \in Calls \cup {None} /\ Quieter(call'[d], cs[d])
    BY <1>2
  <2>2. CASE kept /\ cs[d] # None
    <3>1. cs[d] \in Calls /\ call'[d] = [cs[d] EXCEPT !.latest = (d = c)] /\ (d = c) \in BOOLEAN
      BY <1>1, <1>2, <2>2
    <3>2. QED
      BY <3>1, MarkedLatest
  <2>3. CASE ~(kept /\ cs[d] # None)
    BY <1>1, <1>2, <2>3, QuietIsQuieter
  <2>4. QED
    BY <2>2, <2>3
<1>3. ASSUME NEW kept \in BOOLEAN, LoadWorkspaces(c, kept)
      PROVE  PageInv' /\ PageFollows
  <2>1. /\ call' \in [Call -> Calls \cup {None}]
        /\ \A d \in Call : Quieter(call'[d], cs[d])
    BY <1>2, <1>3 DEF LoadWorkspaces, cs
  <2>2. /\ tab.user # NoUser /\ UNCHANGED <<cookie, heard, other, tab, pageTurns>>
        /\ mine' \in [User -> SUBSET Space] /\ connecting' \in {NotConnecting} \cup Connections
    BY <1>t, <1>3 DEF LoadWorkspaces, behind, around, PageTypeOK
  <2>3. QED
    BY <2>1, <2>2, ListSent DEF cs
<1>4. CASE Connected(c)
  <2>1. PICK k \in Connections : k = connecting
    BY <1>t, <1>4 DEF Connected
  <2>2. mine' \in [User -> SUBSET Space]
    <3>1. k.by \in User /\ k.space \in Space
      BY DEF Connections
    <3>2. mine' = [mine EXCEPT ![k.by] = mine[k.by] \cup {k.space}]
      BY <1>4, <1>t, <2>1, <3>1 DEF Connected, PageTypeOK
    <3>3. QED
      BY <1>t, <3>1, <3>2 DEF PageTypeOK
  <2>3. CASE connecting' = NotConnecting /\ UNCHANGED call
    <3>1. \A d \in Call : Quieter(call'[d], call[d])
      BY <1>t, <2>3, QuietIsQuieter
    <3>2. UNCHANGED <<cookie, pageTurns, heard, other, tab>>
      BY <1>4 DEF Connected
    <3>3. \A d \in Call : CallFits(call'[d], tab')
      BY <3>1, <3>2, RequestsQuieten
    <3>4. PageTypeOK'
      BY <1>t, <2>2, <2>3, <3>2 DEF PageTypeOK
    <3>5. Calm
      BY <3>2 DEF Calm
    <3>6. TabFits(tab')
      BY <3>2 DEF PageInv
    <3>7. QED
      BY <3>3, <3>4, <3>5, <3>6, PageMoves
  <2>4. CASE ~(~connecting.same \/ tab.user = NoUser)
    <3>1. connecting' = [k EXCEPT !.is = "joining"]
      BY <1>4, <2>1, <2>4 DEF Connected
    <3>2. connecting' \in {NotConnecting} \cup Connections
      BY <3>1 DEF Connections
    <3>3. call' = [d \in Call |-> IF cs[d] = None THEN None ELSE [cs[d] EXCEPT !.latest = (d = c)]]
      BY <1>4, <2>4 DEF Connected, cs
    <3>4. call' = [d \in Call |-> IF TRUE /\ cs[d] # None
                                  THEN [cs[d] EXCEPT !.latest = (d = c)] ELSE cs[d]]
      BY <3>3
    <3>5. /\ call' \in [Call -> Calls \cup {None}]
          /\ \A d \in Call : Quieter(call'[d], cs[d])
      BY <1>2, <3>4
    <3>6. tab.user # NoUser /\ UNCHANGED <<cookie, heard, other, tab, pageTurns>>
      BY <1>4, <2>4 DEF Connected
    <3>7. QED
      BY <2>2, <3>2, <3>5, <3>6, ListSent DEF cs
  <2>5. QED
    BY <1>4, <2>3, <2>4 DEF Connected
<1>5. QED
  BY <1>3, <1>4

\* What a list leaves of a tab.
LEMMA ListedTab ==
  ASSUME NEW t \in Tab, TabFits(t), t.user # NoUser, NEW spaces \in SUBSET Space,
         NEW choice \in Space \cup {NoSpace}, NEW n, n = SpacesListed(t, spaces, choice)
  PROVE  /\ n \in Tab /\ TabFits(n)
         /\ n.user = t.user /\ n.leaving = t.leaving /\ n.authorized = spaces
         /\ n.shown \in {t.shown, NoSpace}
         /\ t.operation = "pending" => n = [t EXCEPT !.authorized = spaces]
         /\ t.link = NoSpace /\ ~t.initial /\ t.space \in spaces \cup {NoSpace} =>
              n.space = t.space
<1> DEFINE u == [t EXCEPT !.authorized = spaces]
           linked == IF t.link \in spaces THEN t.link ELSE NoSpace
<1>1. /\ u \in Tab /\ TabFits(u) /\ u.user = t.user /\ u.leaving = t.leaving
      /\ u.authorized = spaces /\ u.shown = t.shown /\ u.space = t.space
      /\ u.operation = t.operation
  BY DEF Tab, TabFits
<1>2. linked \in Space \cup {NoSpace}
  OBVIOUS
<1>3. n \in {u, Applied(u, linked), Applied(u, choice)}
      /\ (t.link = NoSpace /\ ~t.initial /\ t.space \in spaces \cup {NoSpace} => n = u)
  BY DEF SpacesListed
<1> HIDE DEF u, linked
<1>4. ASSUME NEW s \in Space \cup {NoSpace}
      PROVE  /\ Applied(u, s) \in Tab /\ TabFits(Applied(u, s))
             /\ Applied(u, s).user = t.user /\ Applied(u, s).leaving = t.leaving
             /\ Applied(u, s).authorized = spaces
             /\ Applied(u, s).shown \in {t.shown, NoSpace}
             /\ t.operation = "pending" => Applied(u, s) = u
  BY <1>1, AppliedTab
<1>5. QED
  BY <1>1, <1>2, <1>3, <1>4 DEF u

\* A list the tab still asked for gives it its workspaces.
LEMMA ListSeen ==
  ASSUME PageInv, NEW c \in Call, ListArrives(c), StillAsked(c)
  PROVE  PageInv' /\ PageFollows
<1>t. PageTypeOK /\ tab \in Tab /\ TabFits(tab) /\ call \in [Call -> Calls \cup {None}]
      /\ connecting \in {NotConnecting} \cup Connections /\ pageTurns \in 0 .. MaxPageTurns
  BY DEF PageInv, PageTypeOK, Connections
<1> DEFINE rest == [call EXCEPT ![c] = None]
           spaces == call[c].spaces
<1>1. /\ rest \in [Call -> Calls \cup {None}] /\ rest[c] = None
      /\ \A d \in Call : Quieter(rest[d], call[d])
  BY <1>t, OneDropped
<1>2. /\ call[c] \in Calls /\ call[c].kind = "list" /\ CallAnswered(c, "list", {"ok"})
      /\ call[c].fresh /\ call[c].by = tab.user
  BY <1>t, CallTyped DEF ListArrives, CallAnswered, StillAsked
<1>3. spaces \in SUBSET Space /\ ~call[c].old /\ tab.user # NoUser
  BY <1>2 DEF Calls, PageInv, CallFits
<1>4. PICK choice \in Choices(spaces) :
        LET t == SpacesListed(tab, spaces, choice)
            after == IF JoiningTab(c) THEN Joined(t, spaces) ELSE t
        IN /\ tab' = after
           /\ call' = IF after = [tab EXCEPT !.authorized = spaces] THEN rest
                      ELSE AppliedCalls(tab, rest)
  BY DEF ListArrives
<1>5. choice \in Space \cup {NoSpace}
  BY <1>3 DEF Choices
<1> DEFINE t == SpacesListed(tab, spaces, choice)
           u == [tab EXCEPT !.authorized = spaces]
<1>6. /\ t \in Tab /\ TabFits(t) /\ t.user = tab.user /\ t.leaving = tab.leaving
      /\ t.authorized = spaces /\ t.shown \in {tab.shown, NoSpace}
      /\ tab.operation = "pending" => t = u
      /\ tab.link = NoSpace /\ ~tab.initial /\ tab.space \in spaces \cup {NoSpace} =>
           t.space = tab.space
  BY <1>t, <1>3, <1>5, ListedTab
<1>7. /\ tab' = IF JoiningTab(c) THEN Joined(t, spaces) ELSE t
      /\ call' = IF tab' = u THEN rest ELSE AppliedCalls(tab, rest)
  BY <1>4
<1>8. /\ u.space = tab.space /\ u.blocked = tab.blocked /\ u.operation = tab.operation
  BY <1>t DEF Tab
<1> HIDE DEF t, u, rest, spaces
\* What a connection that was waiting selects.
<1>9. /\ tab' \in Tab /\ TabFits(tab') /\ tab'.user = tab.user /\ tab'.leaving = tab.leaving
      /\ tab'.authorized = spaces /\ tab'.shown \in {tab.shown, NoSpace}
      /\ tab.operation = "pending" => tab'.space = tab.space /\ tab'.blocked = tab.blocked
      /\ connecting # NotConnecting /\ ~connecting.unchosen => tab' = t
  <2>1. CASE tab' = t
    BY <1>6, <1>8, <2>1
  <2>2. CASE tab' # t
    <3>1. JoiningTab(c) /\ tab' = [Applied(t, connecting.space) EXCEPT !.link = NoSpace]
          /\ connecting.unchosen
      BY <1>7, <2>2 DEF Joined
    <3>2. connecting.space \in Space
      BY <1>t, <3>1 DEF JoiningTab, Connections
    <3> DEFINE a == Applied(t, connecting.space)
    <3>3. /\ a \in Tab /\ TabFits(a) /\ a.user = t.user /\ a.leaving = t.leaving
          /\ a.authorized = t.authorized /\ a.shown \in {t.shown, NoSpace}
          /\ t.operation = "pending" => a = t
      BY <1>6, <3>2, AppliedTab
    <3> HIDE DEF a
    <3>4. /\ tab' \in Tab /\ TabFits(tab') /\ tab'.user = a.user /\ tab'.leaving = a.leaving
          /\ tab'.authorized = a.authorized /\ tab'.shown = a.shown
          /\ tab'.space = a.space /\ tab'.blocked = a.blocked
      BY <3>1, <3>3 DEF Tab, TabFits, a
    <3>5. tab.operation = "pending" => a = t /\ t = u
      BY <1>6, <1>8, <3>3
    <3>6. QED
      BY <1>6, <1>8, <3>1, <3>3, <3>4, <3>5
  <2>3. QED
    BY <2>1, <2>2
<1>10. /\ AppliedCalls(tab, rest) \in [Call -> Calls \cup {None}]
       /\ tab.operation = "pending" => AppliedCalls(tab, rest) = rest
       /\ \A d \in Call : /\ Quieter(AppliedCalls(tab, rest)[d], rest[d])
                          /\ ((AppliedCalls(tab, rest)[d] = None) <=> (rest[d] = None))
                          /\ tab.operation # "pending" /\ rest[d] # None
                               /\ AppliedCalls(tab, rest)[d].kind = "feed" =>
                               ~AppliedCalls(tab, rest)[d].fresh
  BY <1>1, AppliedQuiet
<1>11. /\ call' \in [Call -> Calls \cup {None}] /\ call'[c] = None
       /\ \A d \in Call : Quieter(call'[d], call[d])
  <2>1. ASSUME NEW d \in Call
        PROVE  Quieter(AppliedCalls(tab, rest)[d], call[d])
    BY <1>1, <1>10, QuieterFurther
  <2>2. QED
    BY <1>1, <1>7, <1>10, <2>1
<1>12. \/ tab'.space = tab.space /\ (tab'.blocked => tab.blocked)
       \/ \A d \in Call : call'[d] \in Calls /\ call'[d].kind = "feed" => ~call'[d].fresh
  BY <1>7, <1>8, <1>9, <1>10, NoneIsNoCall
<1>13. UNCHANGED <<around, pageTurns>> /\ connecting' \in {NotConnecting, connecting}
       /\ (connecting' = NotConnecting => connecting = NotConnecting \/ JoiningTab(c))
  BY DEF ListArrives, behind
<1>14. PageInv'
  BY <1>t, <1>9, <1>11, <1>12, <1>13, TabTurns
<1>15. PageFollows
  <2>1. connecting # NotConnecting /\ connecting' = NotConnecting /\ ~connecting.unchosen
          /\ tab.link = NoSpace /\ ~tab.initial /\ tab.space \in tab'.authorized \cup {NoSpace} =>
          tab'.space = tab.space
    BY <1>6, <1>9
  <2>2. QED
    BY <1>2, <1>3, <1>9, <1>11, <2>1 DEF PageFollows
<1>16. QED
  BY <1>14, <1>15

\* The list arrives, or does not.
LEMMA ListEnds ==
  ASSUME PageInv, NEW c \in Call, ListArrives(c) \/ ListFails(c)
  PROVE  PageInv' /\ PageFollows
<1>t. PageTypeOK /\ call \in [Call -> Calls \cup {None}]
  BY DEF PageInv, PageTypeOK
<1> DEFINE rest == [call EXCEPT ![c] = None]
<1>1. rest \in [Call -> Calls \cup {None}] /\ \A d \in Call : Quieter(rest[d], call[d])
  BY <1>t, OneDropped
<1>0. UNCHANGED behind
  BY DEF ListArrives, ListFails
<1>2. CASE call' = rest /\ UNCHANGED tab /\ connecting' \in {connecting, NotConnecting}
  BY <1>0, <1>1, <1>2, OnlyQuieter DEF behind, around
<1>3. CASE tab' = ClearIdentity(tab) /\ call' = ClearedCalls(rest) /\ connecting' = Elsewhere
  BY <1>0, <1>3, IdentityEnds
<1>4. CASE ListArrives(c) /\ StillAsked(c)
  BY <1>4, ListSeen
<1>5. CASE ListArrives(c) /\ ~StillAsked(c)
  BY <1>2, <1>5 DEF ListArrives
<1>6. CASE ListFails(c)
  BY <1>2, <1>3, <1>6 DEF ListFails
<1>7. QED
  BY <1>4, <1>5, <1>6

\* Another workspace is shown, or none.
LEMMA SpaceTurns ==
  ASSUME PageInv, NEW s \in Space \cup {NoSpace}, NEW l \in Space \cup {NoSpace},
         tab' = [Applied(tab, s) EXCEPT !.link = l], call' = AppliedCalls(tab, call),
         UNCHANGED around, pageTurns' \in 0 .. MaxPageTurns,
         connecting' \in {NotConnecting} \cup Connections,
         connecting' = NotConnecting => connecting = NotConnecting
  PROVE  PageInv' /\ PageFollows
<1>t. PageTypeOK /\ tab \in Tab /\ TabFits(tab) /\ call \in [Call -> Calls \cup {None}]
  BY DEF PageInv, PageTypeOK
<1> DEFINE a == Applied(tab, s)
<1>1. /\ a \in Tab /\ TabFits(a) /\ a.user = tab.user /\ a.leaving = tab.leaving
      /\ a.authorized = tab.authorized /\ a.shown \in {tab.shown, NoSpace}
      /\ tab.operation = "pending" => a = tab
  BY <1>t, AppliedTab
<1>2. tab' = [a EXCEPT !.link = l]
  OBVIOUS
<1> HIDE DEF a
<1>3. /\ tab' \in Tab /\ TabFits(tab') /\ tab'.user = tab.user /\ tab'.leaving = tab.leaving
      /\ tab'.authorized = tab.authorized /\ tab'.shown \in {tab.shown, NoSpace}
      /\ tab.operation = "pending" => tab'.space = tab.space /\ tab'.blocked = tab.blocked
  BY <1>1, <1>2 DEF Tab, TabFits
<1>4. /\ call' \in [Call -> Calls \cup {None}]
      /\ \A d \in Call : /\ Quieter(call'[d], call[d])
                         /\ tab.operation # "pending" /\ call[d] # None
                              /\ call'[d].kind = "feed" => ~call'[d].fresh
                         /\ ((call'[d] = None) <=> (call[d] = None))
  BY <1>t, AppliedQuiet
<1>5. \/ tab'.space = tab.space /\ (tab'.blocked => tab.blocked)
      \/ \A d \in Call : call'[d] \in Calls /\ call'[d].kind = "feed" => ~call'[d].fresh
  BY <1>3, <1>4, NoneIsNoCall
<1>6. PageInv'
  BY <1>3, <1>4, <1>5, TabTurns
<1>7. PageFollows
  BY <1>3 DEF PageFollows
<1>8. QED
  BY <1>6, <1>7

\* The tab's address changes and nothing of what it shows.
LEMMA LinkTurns ==
  ASSUME PageInv, NEW l \in Space \cup {NoSpace}, tab' = [tab EXCEPT !.link = l],
         UNCHANGED <<around, call, connecting>>, pageTurns' \in 0 .. MaxPageTurns
  PROVE  PageInv' /\ PageFollows
<1>t. PageTypeOK /\ tab \in Tab /\ TabFits(tab) /\ call \in [Call -> Calls \cup {None}]
      /\ connecting \in {NotConnecting} \cup Connections
  BY DEF PageInv, PageTypeOK, Connections
<1>1. /\ tab' \in Tab /\ TabFits(tab') /\ tab'.user = tab.user /\ tab'.leaving = tab.leaving
      /\ tab'.authorized = tab.authorized /\ tab'.shown = tab.shown
      /\ tab'.space = tab.space /\ tab'.blocked = tab.blocked
  BY <1>t DEF Tab, TabFits
<1>2. \A d \in Call : Quieter(call'[d], call[d])
  BY <1>t, QuietIsQuieter
<1>3. /\ call' \in [Call -> Calls \cup {None}] /\ UNCHANGED around
      /\ connecting' \in {NotConnecting} \cup Connections /\ connecting' = connecting
  BY <1>t
<1>4. PageInv'
  BY <1>1, <1>2, <1>3, TabTurns
<1>5. PageFollows
  BY <1>1, <1>3 DEF PageFollows
<1>6. QED
  BY <1>4, <1>5

\* A person's choice is marked on the connection that waits.
LEMMA ChosenTyped ==
  ASSUME NEW k \in Connections
  PROVE  [k EXCEPT !.unchosen = FALSE] \in Connections
BY DEF Connections

LEMMA ConnectionChosen ==
  ASSUME PageInv,
         \/ connecting' = connecting
         \/ connecting # NotConnecting /\ connecting' = [connecting EXCEPT !.unchosen = FALSE]
  PROVE  /\ connecting' \in {NotConnecting} \cup Connections
         /\ connecting' = NotConnecting => connecting = NotConnecting
<1>1. connecting \in {NotConnecting} \cup Connections
  BY DEF PageInv, PageTypeOK, Connections
<1>2. NotConnecting \notin Connections
  BY DEF Connections, NotConnecting
<1>3. QED
  BY <1>1, <1>2, ChosenTyped

\* A tab chooses a workspace, by hand or from its list.
LEMMA Chosen ==
  ASSUME PageInv, NEW s \in Space \cup {NoSpace}, Choose(s)
  PROVE  PageInv' /\ PageFollows
<1>t. PageTypeOK /\ tab \in Tab
  BY DEF PageInv, PageTypeOK
<1>1. PICK to \in IF s = NoSpace /\ tab.user # NoUser /\ tab.link # NoSpace
                 THEN Choices(tab.authorized) ELSE {s} :
        tab' = [Applied(tab, to) EXCEPT !.link = NoSpace]
  BY DEF Choose
<1>2. to \in Space \cup {NoSpace}
  BY <1>t, <1>1 DEF Choices, Tab
<1>3. /\ connecting' \in {NotConnecting} \cup Connections
      /\ connecting' = NotConnecting => connecting = NotConnecting
  BY ConnectionChosen DEF Choose
<1>4. pageTurns' \in 0 .. MaxPageTurns
  BY <1>t, TurnTyped DEF Choose
<1>5. call' = AppliedCalls(tab, call) /\ UNCHANGED around /\ NoSpace \in Space \cup {NoSpace}
  BY DEF Choose
<1>6. QED
  BY <1>1, <1>2, <1>3, <1>4, <1>5, SpaceTurns

\* The address moves before the workspace: the link is set either way.
LEMMA LinkAnyway ==
  ASSUME NEW t \in Tab, NEW s \in Space \cup {NoSpace}, NEW l \in Space \cup {NoSpace}
  PROVE  Applied([t EXCEPT !.link = l], s) = [Applied(t, s) EXCEPT !.link = l]
BY DEF Applied, Tab

\* A link names a workspace, that may not be listed yet.
LEMMA LinkFollowed ==
  ASSUME PageInv, NEW l \in Space \cup {NoSpace}, FollowLink(l)
  PROVE  PageInv' /\ PageFollows
<1>t. PageTypeOK /\ tab \in Tab
  BY DEF PageInv, PageTypeOK
<1> DEFINE to == IF l = NoSpace THEN NoSpace ELSE IF l \in tab.authorized THEN l ELSE NoSpace
<1>1. to \in Space \cup {NoSpace}
  OBVIOUS
<1>2. pageTurns' \in 0 .. MaxPageTurns /\ UNCHANGED around
  BY <1>t, TurnTyped DEF FollowLink
<1>3. ASSUME NEW s \in Space \cup {NoSpace}, tab' = Applied([tab EXCEPT !.link = l], s),
             call' = AppliedCalls(tab, call),
             \/ connecting' = connecting
             \/ connecting # NotConnecting /\ connecting' = [connecting EXCEPT !.unchosen = FALSE]
      PROVE  PageInv' /\ PageFollows
  <2>1. tab' = [Applied(tab, s) EXCEPT !.link = l]
    BY <1>t, <1>3, LinkAnyway
  <2>2. /\ connecting' \in {NotConnecting} \cup Connections
        /\ connecting' = NotConnecting => connecting = NotConnecting
    BY <1>3, ConnectionChosen
  <2>3. QED
    BY <1>2, <1>3, <2>1, <2>2, SpaceTurns
<1>4. CASE tab' = [tab EXCEPT !.link = l] /\ UNCHANGED <<call, connecting>>
  BY <1>2, <1>4, LinkTurns
<1>5. CASE /\ \E s \in Choices(tab.authorized) : tab' = Applied([tab EXCEPT !.link = l], s)
           /\ call' = AppliedCalls(tab, call) /\ UNCHANGED connecting
  <2>1. Choices(tab.authorized) \subseteq Space \cup {NoSpace}
    BY <1>t DEF Choices, Tab
  <2>2. QED
    BY <1>3, <1>5, <2>1
<1>6. CASE /\ tab' = Applied([tab EXCEPT !.link = l], to)
           /\ call' = AppliedCalls(tab, call)
           /\ connecting' = IF connecting = NotConnecting \/ tab.operation = "pending"
                            THEN connecting ELSE [connecting EXCEPT !.unchosen = FALSE]
  BY <1>1, <1>3, <1>6
<1>7. QED
  BY <1>4, <1>5, <1>6 DEF FollowLink

\* A tab connects an installation.
LEMMA ConnectionBegins ==
  ASSUME PageInv, (\E s \in Space : Connect(s)) \/ ConnectFails
  PROVE  PageInv' /\ PageFollows
<1>t. PageTypeOK /\ tab \in Tab /\ TabFits(tab) /\ call \in [Call -> Calls \cup {None}]
      /\ connecting \in {NotConnecting} \cup Connections
  BY DEF PageInv, PageTypeOK, Connections
<1>1. UNCHANGED <<around, tab, call>>
  BY DEF Connect, ConnectFails, behind
<1>2. connecting' \in {NotConnecting} \cup Connections
  <2>1. ASSUME NEW s \in Space, Connect(s)
        PROVE  connecting' \in Connections
    <3>1. tab.user \in User
      BY <1>t, <2>1 DEF Connect, Tab
    <3>2. QED
      BY <2>1, <3>1 DEF Connect, Connections
  <2>2. QED
    BY <2>1 DEF ConnectFails
<1>3. pageTurns' \in 0 .. MaxPageTurns
  BY <1>t, TurnTyped DEF Connect, ConnectFails, behind
<1>4. \A d \in Call : Quieter(call'[d], call[d])
  BY <1>t, <1>1, QuietIsQuieter
<1>5. PageTypeOK'
  BY <1>t, <1>1, <1>2, <1>3 DEF PageTypeOK, around, Connections
<1>6. TabFits(tab') /\ \A d \in Call : CallFits(call'[d], tab')
  BY <1>1 DEF PageInv
<1>7. Calm
  BY <1>1 DEF Calm
<1>8. QED
  BY <1>5, <1>6, <1>7, PageMoves

-----------------------------------------------------------------------------
(* The feed and the operations. *)

\* A tab asks for a feed.
LEMMA FeedSent ==
  ASSUME PageInv, NEW c \in Call, AskFeed(c)
  PROVE  PageInv' /\ PageFollows
<1>t. PageTypeOK /\ tab \in Tab /\ connecting \in {NotConnecting} \cup Connections
      /\ pageTurns \in 0 .. MaxPageTurns
  BY DEF PageInv, PageTypeOK, Connections
<1> DEFINE b == Blank("feed")
           cs == Sent(c, "feed", call)
           k == [b EXCEPT !.of = tab.space]
<1>1. /\ b \in Calls /\ b.kind = "feed" /\ b.by = tab.user /\ b.fresh /\ ~b.old
  BY <1>t, BlankTyped
<1>2. cs \in [Call -> Calls \cup {None}] /\ cs[c] = b
  BY <1>t, SentQuiet
<1>3. call' = [cs EXCEPT ![c].of = tab.space]
  BY DEF AskFeed
<1> HIDE DEF cs, b
<1>4. call' = [cs EXCEPT ![c] = k]
  BY <1>2, <1>3
<1>5. k \in Calls /\ k.kind = "feed" /\ k.by = tab.user /\ k.of = tab.space /\ ~k.old
  BY <1>t, <1>1 DEF Calls, Tab
<1>6. CallFits(k, tab)
  BY <1>5 DEF CallFits, AskFeed
<1> HIDE DEF k
<1>7. /\ UNCHANGED <<around, tab>> /\ pageTurns' \in 0 .. MaxPageTurns
      /\ connecting' \in {NotConnecting} \cup Connections
      /\ connecting' = NotConnecting => connecting = NotConnecting
  BY <1>t DEF AskFeed, behind
<1>8. cs = Sent(c, "feed", call)
  BY DEF cs
<1>9. QED
  BY <1>4, <1>5, <1>6, <1>7, <1>8, OneSent

\* A feed arrives and is shown, if nothing silenced its request.
LEMMA FeedShown ==
  ASSUME PageInv, NEW c \in Call, FeedArrives(c)
  PROVE  PageInv' /\ PageFollows
<1>t. PageTypeOK /\ tab \in Tab /\ TabFits(tab) /\ call \in [Call -> Calls \cup {None}]
      /\ connecting \in {NotConnecting} \cup Connections /\ pageTurns \in 0 .. MaxPageTurns
  BY DEF PageInv, PageTypeOK, Connections
<1>1. /\ call' \in [Call -> Calls \cup {None}] /\ call'[c] = None
      /\ \A d \in Call : Quieter(call'[d], call[d])
  BY <1>t, OneDropped DEF FeedArrives
<1>2. /\ call[c] \in Calls /\ call[c].kind = "feed" /\ CallAnswered(c, "feed", {"ok"})
  BY <1>t, CallTyped DEF FeedArrives, CallAnswered
<1>3. call[c].fresh => /\ ~call[c].old /\ call[c].by = tab.user /\ tab.user # NoUser
                       /\ call[c].of = tab.space /\ ~tab.blocked
  BY <1>2 DEF PageInv, CallFits
<1>4. /\ tab' \in Tab /\ TabFits(tab') /\ tab'.user = tab.user /\ tab'.leaving = tab.leaving
      /\ tab'.authorized = tab.authorized /\ tab'.space = tab.space /\ tab'.blocked = tab.blocked
      /\ (tab' = tab \/ call[c].fresh)
  <2>1. CASE call[c].fresh
    <3>1. tab' = [tab EXCEPT !.shown = tab.space]
      BY <1>3, <2>1 DEF FeedArrives
    <3>2. QED
      BY <1>t, <1>3, <2>1, <3>1 DEF Tab, TabFits
  <2>2. CASE ~call[c].fresh
    BY <1>t, <2>2 DEF FeedArrives
  <2>3. QED
    BY <2>1, <2>2
<1>5. /\ UNCHANGED around /\ pageTurns' \in 0 .. MaxPageTurns /\ connecting' = connecting
      /\ connecting' \in {NotConnecting} \cup Connections
  BY <1>t DEF FeedArrives, behind
<1>6. PageInv'
  BY <1>1, <1>4, <1>5, TabTurns
<1>7. PageFollows
  BY <1>1, <1>2, <1>3, <1>4, <1>5 DEF PageFollows
<1>8. QED
  BY <1>6, <1>7

\* The page is hidden or shown again, and the requests that would fill it are as before or
\* count no more.
LEMMA PageDims ==
  ASSUME PageInv, tab' \in Tab, TabFits(tab'), tab'.user = tab.user, tab'.leaving = tab.leaving,
         tab'.authorized = tab.authorized, tab'.shown \in {tab.shown, NoSpace},
         tab'.space = tab.space,
         call' \in [Call -> Calls \cup {None}], \A d \in Call : Quieter(call'[d], call[d]),
         \/ tab'.blocked => tab.blocked
         \/ \A d \in Call : call'[d] \in Calls /\ call'[d].kind = "feed" => ~call'[d].fresh,
         UNCHANGED <<behind, connecting>>
  PROVE  PageInv' /\ PageFollows
<1>1. /\ UNCHANGED around /\ pageTurns' \in 0 .. MaxPageTurns /\ connecting' = connecting
      /\ connecting' \in {NotConnecting} \cup Connections
  BY DEF behind, PageInv, PageTypeOK, Connections
<1>2. PageInv'
  BY <1>1, TabTurns
<1>3. PageFollows
  BY <1>1 DEF PageFollows
<1>4. QED
  BY <1>2, <1>3

\* Fewer feed requests count.
LEMMA PrivateCleared ==
  ASSUME NEW cs \in [Call -> Calls \cup {None}], \A d \in Call : Quieter(cs[d], call[d]),
         NEW calls, calls = ClearPrivate(cs)
  PROVE  /\ calls \in [Call -> Calls \cup {None}]
         /\ \A d \in Call : /\ Quieter(calls[d], call[d])
                            /\ calls[d] \in Calls /\ calls[d].kind = "feed" => ~calls[d].fresh
<1>1. calls = Overtaken({"feed"}, cs)
  BY DEF ClearPrivate
<1>2. /\ calls \in [Call -> Calls \cup {None}]
      /\ \A d \in Call : /\ Quieter(calls[d], cs[d]) /\ ((calls[d] = None) <=> (cs[d] = None))
                         /\ calls[d].kind \in {"feed"} /\ cs[d] # None => ~calls[d].fresh
  BY <1>1, OvertakenQuiet
<1>3. \A d \in Call : Quieter(calls[d], call[d])
  BY <1>2, QuieterFurther
<1>4. QED
  BY <1>2, <1>3, NoneIsNoCall

\* A feed does not arrive.
LEMMA FeedLost ==
  ASSUME PageInv, NEW c \in Call, FeedFails(c)
  PROVE  PageInv' /\ PageFollows
<1>t. PageTypeOK /\ tab \in Tab /\ TabFits(tab) /\ call \in [Call -> Calls \cup {None}]
  BY DEF PageInv, PageTypeOK
<1> DEFINE rest == [call EXCEPT ![c] = None]
<1>0. UNCHANGED behind
  BY DEF FeedFails
<1>1. rest \in [Call -> Calls \cup {None}] /\ \A d \in Call : Quieter(rest[d], call[d])
  BY <1>t, OneDropped
<1>2. CASE call' = rest /\ UNCHANGED <<tab, connecting>>
  BY <1>0, <1>1, <1>2, OnlyQuieter DEF behind, around
<1>3. CASE tab' = [tab EXCEPT !.shown = NoSpace] /\ call' = rest /\ UNCHANGED connecting
  <2>1. /\ tab' \in Tab /\ TabFits(tab') /\ tab'.user = tab.user /\ tab'.leaving = tab.leaving
        /\ tab'.authorized = tab.authorized /\ tab'.shown = NoSpace /\ tab'.space = tab.space
        /\ tab'.blocked = tab.blocked
    BY <1>t, <1>3 DEF Tab, TabFits
  <2>2. QED
    BY <1>0, <1>1, <1>3, <2>1, PageDims
<1>4. CASE tab' = ClearIdentity(tab) /\ call' = ClearedCalls(rest) /\ connecting' = Elsewhere
  BY <1>0, <1>4, IdentityEnds
<1>5. CASE tab' = FailPrivate(tab) /\ call' = ClearPrivate(rest) /\ UNCHANGED connecting
  <2>1. /\ tab' \in Tab /\ TabFits(tab') /\ tab'.user = tab.user /\ tab'.leaving = tab.leaving
        /\ tab'.authorized = tab.authorized /\ tab'.shown = NoSpace /\ tab'.space = tab.space
    BY <1>t, <1>5 DEF FailPrivate, Tab, TabFits
  <2>2. /\ call' \in [Call -> Calls \cup {None}]
        /\ \A d \in Call : /\ Quieter(call'[d], call[d])
                           /\ call'[d] \in Calls /\ call'[d].kind = "feed" => ~call'[d].fresh
    BY <1>1, <1>5, PrivateCleared
  <2>3. QED
    BY <1>0, <1>5, <2>1, <2>2, PageDims
<1>6. QED
  BY <1>2, <1>3, <1>4, <1>5 DEF FeedFails

\* An operation begins in the workspace on show.
LEMMA OperationBegins ==
  ASSUME PageInv, NEW c \in Call, Operate(c)
  PROVE  PageInv' /\ PageFollows
<1>t. PageTypeOK /\ tab \in Tab /\ TabFits(tab) /\ call \in [Call -> Calls \cup {None}]
      /\ connecting \in {NotConnecting} \cup Connections
  BY DEF PageInv, PageTypeOK, Connections
<1> DEFINE o == ClearPrivate(call)
           p == Overtaken({"operation"}, o)
           k == Blank("operation")
<1>1. \A d \in Call : Quieter(call[d], call[d])
  BY <1>t, QuietIsQuieter
<1>2. /\ o \in [Call -> Calls \cup {None}]
      /\ \A d \in Call : /\ Quieter(o[d], call[d])
                         /\ o[d] \in Calls /\ o[d].kind = "feed" => ~o[d].fresh
  BY <1>t, <1>1, PrivateCleared
<1>3. call' = [p EXCEPT ![c] = k]
  BY DEF Operate
<1> HIDE DEF o
<1>4. /\ p \in [Call -> Calls \cup {None}] /\ \A d \in Call : Quieter(p[d], o[d])
  BY <1>2, OvertakenQuiet
<1>5. k \in Calls /\ k.kind = "operation"
  BY <1>t, BlankTyped
<1> HIDE DEF p, k
<1>6. /\ call' \in [Call -> Calls \cup {None}] /\ call'[c] = k
      /\ \A d \in Call \ {c} : call'[d] = p[d]
  BY <1>3, <1>4, <1>5
<1>7. /\ tab' \in Tab /\ TabFits(tab') /\ tab'.user = tab.user /\ tab'.leaving = tab.leaving
      /\ tab'.authorized = tab.authorized /\ tab'.shown = NoSpace /\ tab'.space = tab.space
  BY <1>t DEF Operate, Tab, TabFits
<1>8. ASSUME NEW d \in Call
      PROVE  CallFits(call'[d], tab')
  <2>1. CASE d = c
    BY <1>5, <1>6, <2>1 DEF CallFits
  <2>2. CASE d # c
    <3>1. call'[d] = p[d] /\ Quieter(p[d], o[d]) /\ Quieter(o[d], call[d])
      BY <1>2, <1>4, <1>6, <2>2
    <3>2. Quieter(call'[d], call[d]) /\ CallFits(call[d], tab)
      BY <3>1, QuieterFurther DEF PageInv
    <3>3. call'[d] \in Calls /\ call'[d].kind = "feed" => ~call'[d].fresh
      BY <1>2, <3>1, NoneIsNoCall DEF Quieter
    <3>4. QED
      BY <1>7, <3>2, <3>3, QuieterFits
  <2>3. QED
    BY <2>1, <2>2
<1>9. pageTurns' \in 0 .. MaxPageTurns /\ UNCHANGED <<around, connecting>>
  BY <1>t, TurnTyped DEF Operate
<1>10. PageTypeOK'
  BY <1>t, <1>6, <1>7, <1>9 DEF PageTypeOK, around, Connections
<1>11. Calm
  BY <1>7, <1>9 DEF Calm
<1>12. QED
  BY <1>7, <1>8, <1>10, <1>11, PageMoves

\* An operation ends.
LEMMA OperationDone ==
  ASSUME PageInv, NEW c \in Call, OperationEnds(c)
  PROVE  PageInv' /\ PageFollows
<1>t. PageTypeOK /\ tab \in Tab /\ TabFits(tab) /\ call \in [Call -> Calls \cup {None}]
  BY DEF PageInv, PageTypeOK
<1> DEFINE rest == [call EXCEPT ![c] = None]
<1>0. UNCHANGED behind
  BY DEF OperationEnds
<1>1. rest \in [Call -> Calls \cup {None}] /\ \A d \in Call : Quieter(rest[d], call[d])
  BY <1>t, OneDropped
<1>2. CASE tab' = ClearIdentity(tab) /\ call' = ClearedCalls(rest) /\ connecting' = Elsewhere
  BY <1>0, <1>2, IdentityEnds
<1>3. CASE call' = rest /\ UNCHANGED <<tab, connecting>>
  BY <1>0, <1>1, <1>3, OnlyQuieter DEF behind, around
<1>4. CASE /\ tab' = [tab EXCEPT !.operation = "none", !.blocked = FALSE]
           /\ call' = rest /\ UNCHANGED connecting
  <2>1. /\ tab' \in Tab /\ TabFits(tab') /\ tab'.user = tab.user /\ tab'.leaving = tab.leaving
        /\ tab'.authorized = tab.authorized /\ tab'.shown = tab.shown /\ tab'.space = tab.space
        /\ ~tab'.blocked
    BY <1>t, <1>4 DEF Tab, TabFits
  <2>2. QED
    BY <1>0, <1>1, <1>4, <2>1, PageDims
<1>5. CASE /\ tab' \in {tab, FailPrivate(tab), FailPrivate([tab EXCEPT !.operation = "failed"])}
           /\ call' = ClearPrivate(rest) /\ UNCHANGED connecting
  <2>1. /\ tab' \in Tab /\ TabFits(tab') /\ tab'.user = tab.user /\ tab'.leaving = tab.leaving
        /\ tab'.authorized = tab.authorized /\ tab'.shown \in {tab.shown, NoSpace}
        /\ tab'.space = tab.space
    BY <1>t, <1>5 DEF FailPrivate, Tab, TabFits
  <2>2. /\ call' \in [Call -> Calls \cup {None}]
        /\ \A d \in Call : /\ Quieter(call'[d], call[d])
                           /\ call'[d] \in Calls /\ call'[d].kind = "feed" => ~call'[d].fresh
    BY <1>1, <1>5, PrivateCleared
  <2>3. QED
    BY <1>0, <1>5, <2>1, <2>2, PageDims
<1>6. QED
  BY <1>2, <1>3, <1>4, <1>5 DEF OperationEnds

\* The page tries again, or is hidden.
LEMMA PageAgain ==
  ASSUME PageInv, RetryPage \/ HidePage
  PROVE  PageInv' /\ PageFollows
<1>t. PageTypeOK /\ tab \in Tab /\ TabFits(tab) /\ call \in [Call -> Calls \cup {None}]
  BY DEF PageInv, PageTypeOK
<1>1. /\ tab' \in Tab /\ TabFits(tab') /\ tab'.user = tab.user /\ tab'.leaving = tab.leaving
      /\ tab'.authorized = tab.authorized /\ tab'.shown \in {tab.shown, NoSpace}
      /\ tab'.space = tab.space /\ (tab'.blocked => tab.blocked)
  BY <1>t DEF RetryPage, HidePage, Tab, TabFits
<1>2. /\ call' \in [Call -> Calls \cup {None}]
      /\ \A d \in Call : Quieter(call'[d], call[d])
  <2>1. PICK kinds \in {{"operation"}, {"feed"}} : call' = Overtaken(kinds, call)
    BY DEF RetryPage, HidePage, ClearPrivate
  <2>2. QED
    BY <1>t, <2>1, OvertakenQuiet
<1>3. UNCHANGED <<behind, connecting>>
  BY DEF RetryPage, HidePage
<1>4. QED
  BY <1>1, <1>2, <1>3, PageDims

-----------------------------------------------------------------------------
LEMMA PageStart ==
  ASSUME PageInit
  PROVE  PageInv
<1>1. tab \in Tab /\ TabFits(tab)
  BY DEF PageInit, Tab, TabFits
<1>2. call \in [Call -> Calls \cup {None}] /\ \A c \in Call : CallFits(call[c], tab)
  BY NoneFits DEF PageInit
<1>3. heard \in Seq({"session-clearing", "session-changed"})
  BY DEF PageInit
<1>4. pageTurns \in 0 .. MaxPageTurns
  BY PageIdentityAssumption DEF PageInit
<1>5. PageTypeOK
  BY <1>1, <1>2, <1>3, <1>4 DEF PageInit, PageTypeOK
<1>6. QED
  BY <1>1, <1>2, <1>5 DEF PageInv

LEMMA PageRests ==
  ASSUME PageInv, UNCHANGED pageVars
  PROVE  PageInv' /\ PageFollows
<1>1. PageTypeOK'
  BY DEF PageInv, PageTypeOK, pageVars
<1>2. TabFits(tab') /\ \A c \in Call : CallFits(call'[c], tab')
  BY DEF PageInv, pageVars
<1>3. Calm
  BY DEF Calm, pageVars
<1>4. QED
  BY <1>1, <1>2, <1>3, PageMoves

\* A step keeps the invariant and may do what PageFollows says.
LEMMA PageInvStep ==
  ASSUME PageInv, [PageNext]_pageVars
  PROVE  PageInv' /\ PageFollows
<1>1. CASE UNCHANGED pageVars
  BY <1>1, PageRests
<1>2. CASE CookieTurns \/ (\E u \in User : SpacesTurn(u)) \/ OtherClears \/ OtherLeft
  BY <1>2, AroundTurns
<1>3. CASE HearOtherTab
  BY <1>3, HearsOther
<1>4. ASSUME NEW c \in Call,
             \/ Serve(c) \/ LoadSession(c) \/ SessionArrives(c) \/ SessionFails(c)
             \/ LeaveAccount(c) \/ LogoutEnds(c)
      PROVE  PageInv' /\ PageFollows
  BY <1>4, Served, SessionSent, SessionSeen, AccountLeft
<1>5. ASSUME NEW c \in Call,
             \/ (\E kept \in BOOLEAN : LoadWorkspaces(c, kept)) \/ ListArrives(c) \/ ListFails(c)
             \/ Connected(c)
      PROVE  PageInv' /\ PageFollows
  BY <1>5, WorkspacesAsked, ListEnds
<1>6. ASSUME NEW c \in Call,
             AskFeed(c) \/ FeedArrives(c) \/ FeedFails(c) \/ Operate(c) \/ OperationEnds(c)
      PROVE  PageInv' /\ PageFollows
  BY <1>6, FeedSent, FeedShown, FeedLost, OperationBegins, OperationDone
<1>7. ASSUME NEW s \in Space \cup {NoSpace}, Choose(s) \/ FollowLink(s)
      PROVE  PageInv' /\ PageFollows
  BY <1>7, Chosen, LinkFollowed
<1>8. CASE (\E s \in Space : Connect(s)) \/ ConnectFails
  BY <1>8, ConnectionBegins
<1>9. CASE RetryPage \/ HidePage
  BY <1>9, PageAgain
<1>10. QED
  BY <1>1, <1>2, <1>3, <1>4, <1>5, <1>6, <1>7, <1>8, <1>9 DEF PageNext

\* Every request that counts was begun after the tab last changed its user or workspace.
LEMMA PageInvariance == PageSpec => []PageInv
<1>1. PageInit => PageInv
  BY PageStart
<1>2. PageInv /\ [PageNext]_pageVars => PageInv'
  BY PageInvStep
<1>3. QED
  BY <1>1, <1>2, PTL DEF PageSpec

\* The invariant has the types, and a tab that leaves shows nothing.
LEMMA PageInvHides == PageInv => PageTypeOK /\ PageHides
<1>1. SUFFICES ASSUME PageInv
               PROVE  PageTypeOK /\ PageHides
  OBVIOUS
<1>2. TabFits(tab) /\ PageTypeOK
  BY <1>1 DEF PageInv
<1>3. QED
  BY <1>2 DEF TabFits, PageHides

\* What a tab shows is its user's, of a workspace on that user's list, and an answer to an
\* older identity never changes it (useWorkspaceSession).
THEOREM PageShowsItsUser == PageSpec => PageSafe
<1>1. PageInv /\ [PageNext]_pageVars => [PageHides' /\ PageFollows]_pageVars
  <2>1. ASSUME PageInv, [PageNext]_pageVars
        PROVE  PageHides' /\ PageFollows
    <3>1. PageInv' /\ PageFollows
      BY <2>1, PageInvStep
    <3>2. PageHides'
      BY <3>1, PageInvHides, PTL
    <3>3. QED
      BY <3>1, <3>2
  <2>2. QED
    BY <2>1
<1>2. QED
  BY <1>1, PageInvariance, PTL DEF PageSpec, PageSafe

-----------------------------------------------------------------------------
(* Requests of one browser (Principals). *)

\* A request past its first check is of the person whose row its cookie names, past the
\* second its token is that person's too; data read without a session is never answered,
\* since a session that has ended does not come back.
AskedFits(a) ==
  /\ a.at # "local" =>
       a.cookie \in Cookie /\ a.user \in Person /\ a.user = rowOf[a.cookie].user
  /\ a.at \notin {"local", "verify"} => a.token \in Tokens \ {NoToken} /\ a.token.user = a.user
  /\ a.at = "recheck" /\ ~a.fresh => ~rowOf[a.cookie].live
  /\ a.at \in {"last", "answered"} => a.fresh

PrincipalInv ==
  /\ PrincipalTypeOK
  /\ \A c \in Cookie : rowOf[c].live => rowOf[c].user \in Person
  /\ \A q \in Asking : asking[q] = Unasked \/ AskedFits(asking[q])

\* Tokens of somebody: what is not NoToken.
LEMMA TokenTyped ==
  ASSUME PrincipalAssumption, NEW t \in Tokens, t # NoToken
  PROVE  t.user \in Person /\ t.token \in 0 .. MaxTurns + 1
BY DEF Tokens

LEMMA AskingTyped ==
  ASSUME PrincipalTypeOK, NEW q \in Asking, asking[q] # Unasked
  PROVE  asking[q] \in RequestUnderWay
BY DEF PrincipalTypeOK

\* What a request that becomes r has to meet.
LEMMA OneRequestMoves ==
  ASSUME PrincipalInv, NEW q \in Asking, NEW r \in RequestUnderWay \cup {Unasked},
         asking' = [asking EXCEPT ![q] = r], rowOf' = rowOf,
         r = Unasked \/ AskedFits(r)
  PROVE  /\ asking' \in [Asking -> RequestUnderWay \cup {Unasked}]
         /\ (\A c \in Cookie : rowOf[c].live => rowOf[c].user \in Person)'
         /\ (\A p \in Asking : asking[p] = Unasked \/ AskedFits(asking[p]))'
BY DEF PrincipalInv, PrincipalTypeOK, AskedFits

\* Rows change without becoming another person's or coming back.
LEMMA RowsMove ==
  ASSUME PrincipalInv, rowOf' \in [Cookie -> [user : Person \cup {Nobody}, live : BOOLEAN]],
         UNCHANGED asking,
         \A c \in Cookie : rowOf[c].user \in Person =>
           rowOf'[c].user = rowOf[c].user /\ (rowOf'[c].live => rowOf[c].live)
  PROVE  (\A q \in Asking : asking[q] = Unasked \/ AskedFits(asking[q]))'
<1>1. SUFFICES ASSUME NEW q \in Asking, asking[q] # Unasked
               PROVE  AskedFits(asking[q])'
  OBVIOUS
<1>2. AskedFits(asking[q]) /\ asking[q] \in RequestUnderWay
  BY <1>1, AskingTyped DEF PrincipalInv
<1>3. QED
  BY <1>2 DEF AskedFits

LEMMA PrincipalStart == PrincipalInit => PrincipalInv
BY PrincipalAssumption DEF PrincipalInit, PrincipalInv, PrincipalTypeOK, Tokens, NoToken

\* Every step of a request, of a sign-in and of the provider.
LEMMA PrincipalStep ==
  ASSUME PrincipalAssumption, PrincipalInv, [PrincipalNext]_principalVars
  PROVE  PrincipalInv'
<1> USE PrincipalAssumption
<1>t. PrincipalTypeOK /\ NoToken \in Tokens
  BY DEF PrincipalInv, Tokens
<1>1. CASE UNCHANGED principalVars
  BY <1>1 DEF principalVars, PrincipalInv, PrincipalTypeOK, AskedFits
<1>2. ASSUME NEW p \in Person, TokenExpires(p)
      PROVE  PrincipalInv'
  <2>1. provider' \in [Person -> [token : 0 .. MaxTurns + 1, valid : BOOLEAN]]
    <3>1. PICK x \in [token : 0 .. MaxTurns + 1, valid : BOOLEAN] : x = provider[p]
      BY <1>t DEF PrincipalTypeOK
    <3>2. QED
      BY <1>2, <1>t, <3>1 DEF TokenExpires, PrincipalTypeOK
  <2>2. turns' \in 0 .. MaxTurns /\ UNCHANGED <<rowOf, held, asking>>
    BY <1>2, <1>t DEF TokenExpires, PrincipalTypeOK
  <2>3. QED
    BY <2>1, <2>2 DEF PrincipalInv, PrincipalTypeOK, AskedFits
<1>3. ASSUME NEW p \in Person, NEW c \in Cookie, EnterAs(p, c)
      PROVE  PrincipalInv'
  <2>1. /\ rowOf' \in [Cookie -> [user : Person \cup {Nobody}, live : BOOLEAN]]
        /\ \A d \in Cookie : rowOf[d].user \in Person =>
             rowOf'[d].user = rowOf[d].user /\ (rowOf'[d].live => rowOf[d].live)
        /\ \A d \in Cookie : rowOf'[d].live => rowOf'[d].user \in Person
    <3>1. SUFFICES ASSUME NEW d \in Cookie
                   PROVE  /\ rowOf'[d] \in [user : Person \cup {Nobody}, live : BOOLEAN]
                          /\ rowOf[d].user \in Person =>
                               rowOf'[d].user = rowOf[d].user /\ (rowOf'[d].live => rowOf[d].live)
                          /\ rowOf'[d].live => rowOf'[d].user \in Person
      BY <1>3 DEF EnterAs
    <3>2. PICK x \in [user : Person \cup {Nobody}, live : BOOLEAN] : x = rowOf[d]
      BY <1>t DEF PrincipalTypeOK
    <3>3. x.live => x.user \in Person
      BY <3>2 DEF PrincipalInv
    <3>4. rowOf'[d] = IF d = c THEN [user |-> p, live |-> TRUE]
                      ELSE IF d = held.cookie THEN [x EXCEPT !.live = FALSE] ELSE x
      BY <1>3, <3>2 DEF EnterAs
    <3>5. d = c => x.user = Nobody
      BY <1>3, <3>2 DEF EnterAs
    <3>6. CASE d = c
      BY <3>2, <3>4, <3>5, <3>6
    <3>7. CASE d # c
      BY <3>2, <3>3, <3>4, <3>7
    <3>8. QED
      BY <3>6, <3>7
  <2>2. /\ provider' \in [Person -> [token : 0 .. MaxTurns + 1, valid : BOOLEAN]]
        /\ provider'[p].token \in 1 .. MaxTurns + 1
    <3>1. PICK x \in [token : 0 .. MaxTurns + 1, valid : BOOLEAN] : x = provider[p]
      BY <1>t DEF PrincipalTypeOK
    <3>2. provider' = [provider EXCEPT ![p] = [token |-> x.token + 1, valid |-> TRUE]]
      BY <1>3, <1>t, <3>1 DEF EnterAs, PrincipalTypeOK
    <3>3. x.token + 1 \in 1 .. MaxTurns + 1
      BY <1>3, <3>1 DEF EnterAs
    <3>4. QED
      BY <1>t, <3>2, <3>3 DEF PrincipalTypeOK
  <2>3. held' \in [cookie : Cookie \cup {NoCookie}, token : Tokens]
    BY <1>3, <2>2 DEF EnterAs, Tokens
  <2>4. UNCHANGED <<asking, turns>>
    BY <1>3 DEF EnterAs
  <2>5. (\A q \in Asking : asking[q] = Unasked \/ AskedFits(asking[q]))'
    BY <2>1, <2>4, RowsMove
  <2>6. QED
    BY <1>t, <2>1, <2>2, <2>3, <2>4, <2>5 DEF PrincipalInv, PrincipalTypeOK
<1>4. ASSUME NEW c \in Cookie, rowOf' = [rowOf EXCEPT ![c].live = FALSE], UNCHANGED asking
      PROVE  /\ rowOf' \in [Cookie -> [user : Person \cup {Nobody}, live : BOOLEAN]]
             /\ \A d \in Cookie : rowOf'[d].live => rowOf'[d].user \in Person
             /\ (\A q \in Asking : asking[q] = Unasked \/ AskedFits(asking[q]))'
  <2>1. PICK x \in [user : Person \cup {Nobody}, live : BOOLEAN] : x = rowOf[c]
    BY <1>t DEF PrincipalTypeOK
  <2>2. rowOf' = [rowOf EXCEPT ![c] = [x EXCEPT !.live = FALSE]]
    BY <1>4, <1>t, <2>1 DEF PrincipalTypeOK
  <2>3. /\ rowOf' \in [Cookie -> [user : Person \cup {Nobody}, live : BOOLEAN]]
        /\ \A d \in Cookie : rowOf'[d].live => rowOf'[d].user \in Person
        /\ \A d \in Cookie : rowOf[d].user \in Person =>
             rowOf'[d].user = rowOf[d].user /\ (rowOf'[d].live => rowOf[d].live)
    BY <1>t, <2>1, <2>2 DEF PrincipalTypeOK, PrincipalInv
  <2>4. QED
    BY <1>4, <2>3, RowsMove
<1>5. ASSUME NEW c \in Cookie, SessionOver(c)
      PROVE  PrincipalInv'
  <2>1. turns' \in 0 .. MaxTurns /\ UNCHANGED <<provider, held, asking>>
    BY <1>5, <1>t DEF SessionOver, PrincipalTypeOK
  <2>2. QED
    BY <1>4, <1>5, <1>t, <2>1 DEF SessionOver, PrincipalInv, PrincipalTypeOK
<1>6. CASE SignOut
  <2>1. held.cookie \in Cookie /\ held.token \in Tokens
    BY <1>6, <1>t DEF SignOut, LiveRow, PrincipalTypeOK
  <2>2. held' \in [cookie : Cookie \cup {NoCookie}, token : Tokens]
    BY <1>6, <1>t DEF SignOut
  <2>3. provider' \in [Person -> [token : 0 .. MaxTurns + 1, valid : BOOLEAN]]
    <3>1. CASE UNCHANGED provider
      BY <3>1, <1>t DEF PrincipalTypeOK
    <3>2. CASE held.token # NoToken /\ provider' = [provider EXCEPT ![held.token.user].valid = FALSE]
      <4>1. held.token.user \in Person
        BY <3>2, <2>1, TokenTyped
      <4>2. PICK x \in [token : 0 .. MaxTurns + 1, valid : BOOLEAN] : x = provider[held.token.user]
        BY <4>1, <1>t DEF PrincipalTypeOK
      <4>3. QED
        BY <3>2, <4>1, <4>2, <1>t DEF PrincipalTypeOK
    <3>3. QED
      BY <1>6, <3>1, <3>2 DEF SignOut
  <2>4. UNCHANGED <<asking, turns>> /\ rowOf' = [rowOf EXCEPT ![held.cookie].live = FALSE]
    BY <1>6 DEF SignOut
  <2>5. QED
    BY <1>4, <1>t, <2>1, <2>2, <2>3, <2>4 DEF PrincipalInv, PrincipalTypeOK
<1>7. ASSUME NEW q \in Asking, NEW r \in RequestUnderWay \cup {Unasked},
             asking' = [asking EXCEPT ![q] = r], rowOf' = rowOf,
             r = Unasked \/ AskedFits(r),
             provider' \in [Person -> [token : 0 .. MaxTurns + 1, valid : BOOLEAN]],
             held' \in [cookie : Cookie \cup {NoCookie}, token : Tokens],
             turns' \in 0 .. MaxTurns
      PROVE  PrincipalInv'
  <2>1. /\ asking' \in [Asking -> RequestUnderWay \cup {Unasked}]
        /\ (\A c \in Cookie : rowOf[c].live => rowOf[c].user \in Person)'
        /\ (\A p \in Asking : asking[p] = Unasked \/ AskedFits(asking[p]))'
    BY <1>7, OneRequestMoves
  <2>2. QED
    BY <1>7, <2>1, <1>t DEF PrincipalInv, PrincipalTypeOK
<1>8. ASSUME NEW q \in Asking, NEW s \in BOOLEAN, SendRequest(q, s)
      PROVE  PrincipalInv'
  <2> DEFINE r == [at |-> "local", stream |-> s, cookie |-> held.cookie,
                   token |-> held.token, user |-> Nobody, set |-> NoToken, fresh |-> FALSE]
  <2>1. r \in RequestUnderWay /\ AskedFits(r)
    BY <1>t DEF RequestUnderWay, PrincipalTypeOK, AskedFits
  <2>2. asking' = [asking EXCEPT ![q] = r]
    BY <1>8 DEF SendRequest
  <2>3. turns' \in 0 .. MaxTurns /\ UNCHANGED <<rowOf, provider, held>>
    BY <1>8, <1>t DEF SendRequest, PrincipalTypeOK
  <2> HIDE DEF r
  <2>4. QED
    BY <1>7, <1>t, <2>1, <2>2, <2>3 DEF PrincipalTypeOK
<1>9. ASSUME NEW q \in Asking,
             \/ Local(q) \/ Verify(q) \/ Check(q) \/ ReadData(q) \/ AssertActive(q)
             \/ LastCheck(q) \/ AnswerArrives(q)
      PROVE  PrincipalInv'
  <2>1. asking[q] # Unasked
    BY <1>9 DEF Local, Verify, Check, ReadData, AssertActive, LastCheck, AnswerArrives, Unasked
  <2>2. PICK a \in RequestUnderWay : a = asking[q]
    BY <2>1, <1>t, AskingTyped
  <2>3. AskedFits(a)
    BY <2>1, <2>2 DEF PrincipalInv
  <2>4. ASSUME NEW r \in RequestUnderWay, AskedFits(r),
               asking' = [asking EXCEPT ![q] = r],
               UNCHANGED <<rowOf, provider, held, turns>>
        PROVE  PrincipalInv'
    BY <1>7, <1>t, <2>4 DEF PrincipalTypeOK
  <2>5. ASSUME Denied(q), UNCHANGED <<rowOf, provider, held, turns>>
        PROVE  PrincipalInv'
    BY <1>7, <1>t, <2>5 DEF Denied, PrincipalTypeOK
  <2>6. a.cookie \in Cookie \cup {NoCookie} /\ a.token \in Tokens /\ a.user \in Person \cup {Nobody}
        /\ a.stream \in BOOLEAN /\ a.fresh \in BOOLEAN /\ a.set \in Tokens
        /\ (LiveRow(a.cookie) => a.cookie \in Cookie /\ rowOf[a.cookie].live
                                 /\ rowOf[a.cookie].user \in Person)
    BY <2>2, <1>t DEF RequestUnderWay, LiveRow, PrincipalInv
  <2>7. CASE Local(q)
    <3>1. CASE LiveRow(a.cookie)
      <4> DEFINE r == [a EXCEPT !.at = "verify", !.user = rowOf[a.cookie].user]
      <4>1. r \in RequestUnderWay /\ AskedFits(r)
        BY <2>2, <2>6, <3>1 DEF RequestUnderWay, AskedFits
      <4>2. asking' = [asking EXCEPT ![q] = r]
        BY <2>2, <2>7, <3>1, <1>t DEF Local, PrincipalTypeOK
      <4> HIDE DEF r
      <4>3. QED
        BY <2>4, <2>7, <4>1, <4>2 DEF Local
    <3>2. CASE ~LiveRow(a.cookie)
      BY <2>2, <2>5, <2>7, <3>2 DEF Local
    <3>3. QED
      BY <3>1, <3>2
  <2>8. ASSUME NEW to \in {"check", "read", "last", "answered"},
               asking' = [asking EXCEPT ![q].at = to],
               UNCHANGED <<rowOf, provider, held, turns>>,
               a.at \notin {"local", "verify"} \/ (a.at = "verify" /\ a.token # NoToken /\ a.token.user = a.user),
               to \in {"last", "answered"} => a.fresh
        PROVE  PrincipalInv'
    <3> DEFINE r == [a EXCEPT !.at = to]
    <3>1. r \in RequestUnderWay /\ AskedFits(r)
      BY <2>2, <2>3, <2>6, <2>8 DEF RequestUnderWay, AskedFits
    <3>2. asking' = [asking EXCEPT ![q] = r]
      BY <2>2, <2>8, <1>t DEF PrincipalTypeOK
    <3> HIDE DEF r
    <3>3. QED
      BY <2>4, <2>8, <3>1, <3>2
  <2>9. CASE Verify(q)
    <3> DEFINE t == a.token
    <3>1. CASE Denied(q) /\ UNCHANGED provider
      BY <2>5, <2>9, <3>1 DEF Verify
    <3>2. CASE /\ Verified(t) /\ SamePerson(q, t)
               /\ Step(q, "verify", "check") /\ UNCHANGED provider
      BY <2>2, <2>8, <2>9, <3>2 DEF Verify, Verified, SamePerson, Step
    <3>3. CASE /\ t # NoToken /\ ~Verified(t) /\ SamePerson(q, t)
               /\ t.token <= MaxTurns
               /\ LET now == provider[t.user].token
                      new == [user |-> t.user, token |-> IF t.token = now THEN now + 1 ELSE now]
                  IN /\ provider' = [provider EXCEPT ![t.user] = [token |-> new.token, valid |-> TRUE]]
                     /\ asking' = [asking EXCEPT ![q].at = "check", ![q].token = new, ![q].set = new]
      <4>1. t.user \in Person /\ t.token \in Nat
        BY <2>6, <3>3, TokenTyped
      <4>2. PICK x \in [token : 0 .. MaxTurns + 1, valid : BOOLEAN] : x = provider[t.user]
        BY <4>1, <1>t DEF PrincipalTypeOK
      <4> DEFINE n == IF t.token = x.token THEN x.token + 1 ELSE x.token
                 new == [user |-> t.user, token |-> n]
                 r == [a EXCEPT !.at = "check", !.token = new, !.set = new]
      <4>3. n \in 0 .. MaxTurns + 1
        BY <3>3, <4>1, <4>2
      <4>4. /\ provider' = [provider EXCEPT ![t.user] = [token |-> n, valid |-> TRUE]]
            /\ asking' = [asking EXCEPT ![q] = r]
        BY <2>2, <3>3, <4>2, <1>t DEF PrincipalTypeOK
      <4> HIDE DEF n
      <4>5. provider' \in [Person -> [token : 0 .. MaxTurns + 1, valid : BOOLEAN]]
        BY <4>1, <4>3, <4>4, <1>t DEF PrincipalTypeOK
      <4>6. new \in Tokens \ {NoToken} /\ new.user = a.user
        BY <2>2, <3>3, <4>1, <4>3 DEF Tokens, NoToken, SamePerson
      <4> HIDE DEF new
      <4>7. r \in RequestUnderWay /\ AskedFits(r)
        BY <2>2, <2>3, <2>6, <2>9, <4>6 DEF RequestUnderWay, AskedFits, Verify
      <4>8. UNCHANGED <<rowOf, held, turns>>
        BY <2>9 DEF Verify
      <4> HIDE DEF r
      <4>9. QED
        BY <1>7, <1>t, <4>4, <4>5, <4>7, <4>8 DEF PrincipalTypeOK
    <3>4. QED
      BY <2>2, <2>9, <3>1, <3>2, <3>3 DEF Verify
  <2>10. CASE Check(q)
    BY <2>2, <2>5, <2>8, <2>10 DEF Check, Step
  <2>11. CASE ReadData(q)
    <3> DEFINE l == LiveRow(a.cookie)
               r == [a EXCEPT !.at = "recheck", !.fresh = l]
    <3>1. a.at \notin {"local", "verify"} /\ asking' = [asking EXCEPT ![q] = r]
          /\ UNCHANGED <<rowOf, provider, held, turns>>
      BY <2>2, <2>11, <1>t DEF ReadData, PrincipalTypeOK
    <3>2. a.cookie \in Cookie
      BY <2>3, <3>1 DEF AskedFits
    <3>3. l \in BOOLEAN /\ (~l => ~rowOf[a.cookie].live)
      BY <3>2, <1>t DEF LiveRow, PrincipalTypeOK
    <3> HIDE DEF l
    <3>4. r \in RequestUnderWay
      BY <2>2, <2>6, <3>3 DEF RequestUnderWay
    <3>5. AskedFits(r)
      BY <2>2, <2>3, <3>1, <3>3 DEF RequestUnderWay, AskedFits
    <3> HIDE DEF r
    <3>6. QED
      BY <2>4, <3>1, <3>4, <3>5
  <2>12. CASE AssertActive(q)
    <3>1. CASE LiveRow(a.cookie) /\ Step(q, "recheck", "last")
      <4>1. a.fresh
        BY <2>2, <2>3, <2>6, <3>1 DEF AskedFits, Step
      <4>2. QED
        BY <2>2, <2>8, <2>12, <3>1, <4>1 DEF AssertActive, Step
    <3>2. CASE Denied(q)
      BY <2>5, <2>12, <3>2 DEF AssertActive
    <3>3. QED
      BY <2>2, <2>12, <3>1, <3>2 DEF AssertActive
  <2>13. CASE LastCheck(q)
    <3>1. CASE Step(q, "last", "answered")
      <4>1. a.fresh
        BY <2>2, <2>3, <3>1 DEF AskedFits, Step
      <4>2. QED
        BY <2>2, <2>8, <2>13, <3>1, <4>1 DEF LastCheck, Step
    <3>2. CASE Denied(q)
      BY <2>5, <2>13, <3>2 DEF LastCheck
    <3>3. QED
      BY <2>13, <3>1, <3>2 DEF LastCheck
  <2>14. CASE AnswerArrives(q)
    <3>1. a.at = "answered" /\ UNCHANGED <<rowOf, provider, turns>>
      BY <2>2, <2>14 DEF AnswerArrives
    <3>2. held' \in [cookie : Cookie \cup {NoCookie}, token : Tokens]
      <4>1. PICK h \in [cookie : Cookie \cup {NoCookie}, token : Tokens] : h = held
        BY <1>t DEF PrincipalTypeOK
      <4>2. held' = IF a.set = NoToken THEN h ELSE [h EXCEPT !.token = a.set]
        BY <2>2, <2>14, <4>1 DEF AnswerArrives
      <4>3. QED
        BY <2>6, <4>1, <4>2
    <3>3. CASE a.stream
      <4> DEFINE r == [a EXCEPT !.at = "open", !.set = NoToken]
      <4>1. r \in RequestUnderWay /\ AskedFits(r)
        BY <2>2, <2>3, <2>6, <3>1, <1>t DEF RequestUnderWay, AskedFits
      <4>2. asking' = [asking EXCEPT ![q] = r]
        BY <2>2, <2>14, <3>3, <1>t DEF AnswerArrives, PrincipalTypeOK
      <4> HIDE DEF r
      <4>3. QED
        BY <1>7, <1>t, <3>1, <3>2, <4>1, <4>2 DEF PrincipalTypeOK
    <3>4. CASE ~a.stream
      <4>1. asking' = [asking EXCEPT ![q] = Unasked]
        BY <2>2, <2>14, <3>4 DEF AnswerArrives, Denied
      <4>2. QED
        BY <1>7, <1>t, <3>1, <3>2, <4>1 DEF PrincipalTypeOK
    <3>5. QED
      BY <3>3, <3>4
  <2>15. QED
    BY <1>9, <2>7, <2>9, <2>10, <2>11, <2>12, <2>13, <2>14
<1>10. QED
  BY <1>1, <1>2, <1>3, <1>5, <1>6, <1>8, <1>9 DEF PrincipalNext

\* A request that was let in has its person's live session and token.
THEOREM PrincipalInvariance == PrincipalSpec => []PrincipalInv
BY PrincipalAssumption, PrincipalStart, PrincipalStep, PTL DEF PrincipalSpec

\* What is answered was read while its session was there, for the person whose session
\* and whose token the request brought (auth.ts).
THEOREM PrincipalsAreSafe == PrincipalSpec => []PrincipalsSafe
<1>1. PrincipalInv => PrincipalsSafe
  BY DEF PrincipalInv, AskedFits, PrincipalsSafe
<1>2. QED
  BY <1>1, PrincipalInvariance, PTL

-----------------------------------------------------------------------------
(* The addresses of the pages (Links). *)

Keys == {"workspace", "scene", "env", "repo", "type", "tag", "q", "period", "from", "to", "week",
         "person", "repository"}

\* The parameters of an address.
Searched(s) ==
  /\ s = [k \in DOMAIN s |-> s[k]]
  /\ DOMAIN s \subseteq Keys
  /\ \A k \in DOMAIN s : s[k] \in ParamValues[k]

LinkInv ==
  /\ address \in [path : PagePaths \cup {"/x"}, search : {address.search}]
  /\ Searched(address.search)
  /\ thisDay \in LinkDays

LEMMA ParamKeys == DOMAIN ParamValues = Keys
BY DEF ParamValues, Keys

LEMMA ValuesOf ==
  /\ ParamValues["workspace"] = {"mine", "unknown"}
  /\ ParamValues["repo"] = {"plain", "spaced", "long", "odd"}
  /\ ParamValues["tag"] = {"plain", "upper", "long", "other"}
  /\ ParamValues["q"] = {"spaced", "cut", "long", "odd"}
  /\ ParamValues["period"] = Presets \cup FeedPeriods \cup {"other"}
  /\ ParamValues["from"] = LinkDays \cup {0}
  /\ ParamValues["to"] = LinkDays \cup {0}
  /\ ParamValues["week"] = LinkDays \cup {0}
BY DEF ParamValues

LEMMA WithTyped ==
  ASSUME NEW s, Searched(s), NEW k \in Keys, NEW v \in ParamValues[k]
  PROVE  Searched(With(s, k, v))
BY DEF Searched, With

\* A page and what it reads.
Routed(r) ==
  /\ r = [page |-> r.page, of |-> r.of]
  /\ r.page \in PagePaths
  /\ Searched(r.of)

\* A page that reads all that is said of it, and as it stands: what parseRoute returns.
Own(r) ==
  /\ Routed(r)
  /\ \A k \in DOMAIN r.of : Understands(r.page, k, r.of) /\ AsRead(k, r.of[k]) = r.of[k]

LEMMA AsReadTyped ==
  ASSUME NEW k \in Keys, NEW v \in ParamValues[k]
  PROVE  AsRead(k, v) \in ParamValues[k] /\ AsRead(k, AsRead(k, v)) = AsRead(k, v)
BY ValuesOf DEF AsRead

\* How a parameter reads does not change whether it is read.
LEMMA ReadAgain ==
  ASSUME NEW path \in PagePaths, NEW s, Searched(s), NEW t, Searched(t), NEW k \in DOMAIN t,
         k \in DOMAIN s, t[k] = AsRead(k, s[k]), Understands(path, k, s),
         "period" \in DOMAIN s /\ Understands(path, "period", s) => "period" \in DOMAIN t,
         "period" \in DOMAIN s /\ "period" \in DOMAIN t => t.period = s.period
  PROVE  Understands(path, k, t)
<1>1. k \in Keys /\ s[k] \in ParamValues[k]
  BY DEF Searched
<1>2. CASE k \in {"from", "to"}
  BY <1>2 DEF Understands, Presets, FeedPeriods, PagePaths
<1>3. CASE k \in {"period", "week", "workspace"}
  BY <1>3 DEF Understands, AsRead
<1>4. CASE k \in {"repo", "tag", "q"}
  BY <1>1, <1>4, ValuesOf DEF Understands, AsRead
<1>5. CASE k \in {"scene", "env", "type", "person", "repository"}
  BY <1>5 DEF Understands, AsRead
<1>6. QED
  BY <1>1, <1>2, <1>3, <1>4, <1>5 DEF Keys

\* What is read from an address names only parameters of the address.
LEMMA ReadOwn ==
  ASSUME NEW a, Searched(a.search)
  PROVE  /\ Own(ParseRoute(a))
         /\ ParseRoute(a).page = IF a.path \in PagePaths THEN a.path ELSE "/"
         /\ DOMAIN ParseRoute(a).of \subseteq DOMAIN a.search
<1> DEFINE path == IF a.path \in PagePaths THEN a.path ELSE "/"
           keys == {k \in DOMAIN a.search : Understands(path, k, a.search)}
           t == [k \in keys |-> AsRead(k, a.search[k])]
<1>1. ParseRoute(a) = [page |-> path, of |-> t]
  BY DEF ParseRoute
<1>2. path \in PagePaths
  BY DEF PagePaths
<1>3. keys \subseteq DOMAIN a.search /\ keys \subseteq Keys
  BY DEF Searched
<1>4. Searched(t) /\ \A k \in keys : AsRead(k, t[k]) = t[k]
  <2>1. \A k \in keys : a.search[k] \in ParamValues[k]
    BY DEF Searched
  <2>2. \A k \in keys : t[k] \in ParamValues[k] /\ AsRead(k, t[k]) = t[k]
    BY <1>3, <2>1, AsReadTyped
  <2>3. QED
    BY <1>3, <2>2 DEF Searched
<1>5. \A k \in keys : Understands(path, k, t)
  <2>1. "period" \in DOMAIN a.search /\ "period" \in DOMAIN t => t.period = a.search.period
    BY DEF AsRead
  <2>2. "period" \in DOMAIN a.search /\ Understands(path, "period", a.search) => "period" \in DOMAIN t
    OBVIOUS
  <2>3. SUFFICES ASSUME NEW k \in keys
                 PROVE  Understands(path, k, t)
    OBVIOUS
  <2>4. k \in DOMAIN t /\ k \in DOMAIN a.search /\ t[k] = AsRead(k, a.search[k])
        /\ Understands(path, k, a.search)
    OBVIOUS
  <2> HIDE DEF t, keys, path
  <2>5. QED
    BY <1>2, <1>4, <2>1, <2>2, <2>4, ReadAgain
<1>6. DOMAIN t = keys
  OBVIOUS
<1> HIDE DEF t, keys, path
<1>7. QED
  BY <1>1, <1>2, <1>3, <1>4, <1>5, <1>6 DEF Own, Routed, path

\* A page writes all that it reads.
LEMMA OwnWritten ==
  ASSUME NEW r, Own(r)
  PROVE  /\ \A k \in DOMAIN r.of : Writes(r, k)
         /\ RouteHref(r) = [path |-> r.page, search |-> r.of]
<1>1. ASSUME NEW k \in DOMAIN r.of
      PROVE  Writes(r, k)
  <2>1. Understands(r.page, k, r.of) /\ k \in Keys
    BY DEF Own, Routed, Searched
  <2>2. CASE k \in {"period", "from", "to"}
    BY <2>1, <2>2 DEF Understands, Writes, FeedPeriods, Presets
  <2>3. CASE k \notin {"period", "from", "to"}
    BY <2>1, <2>3 DEF Understands, Writes, Keys
  <2>4. QED
    BY <2>2, <2>3
<1>2. {k \in DOMAIN r.of : Writes(r, k)} = DOMAIN r.of
  BY <1>1
<1>3. r.of = [k \in DOMAIN r.of |-> r.of[k]]
  BY DEF Own, Routed, Searched
<1>4. QED
  BY <1>1, <1>2, <1>3 DEF RouteHref, Restrict

\* ... and reads it again as it was.
LEMMA OwnReadBack ==
  ASSUME NEW r, Own(r), NEW a, a = [path |-> r.page, search |-> r.of]
  PROVE  ParseRoute(a) = r
<1>1. a.path = r.page /\ a.search = r.of /\ r.page \in PagePaths
      /\ r = [page |-> r.page, of |-> r.of]
  BY DEF Own, Routed
<1> DEFINE keys == {k \in DOMAIN r.of : Understands(r.page, k, r.of)}
<1>2. ParseRoute(a) = [page |-> r.page, of |-> [k \in keys |-> AsRead(k, r.of[k])]]
  BY <1>1 DEF ParseRoute
<1>3. keys = DOMAIN r.of
  BY DEF Own
<1>4. [k \in DOMAIN r.of |-> AsRead(k, r.of[k])] = r.of
  <2>1. \A k \in DOMAIN r.of : AsRead(k, r.of[k]) = r.of[k]
    BY DEF Own
  <2>2. r.of = [k \in DOMAIN r.of |-> r.of[k]]
    BY DEF Own, Routed, Searched
  <2>3. QED
    BY <2>1, <2>2
<1>5. QED
  BY <1>1, <1>2, <1>3, <1>4

\* A page that is told its workspace reads as before in all else.
LEMMA WorkspaceTold ==
  ASSUME NEW r, Own(r), NEW s, s = With(r.of, "workspace", "mine")
  PROVE  /\ Own([page |-> r.page, of |-> s])
         /\ CurrentHref(r) = [path |-> r.page, search |-> s]
         /\ DOMAIN s = DOMAIN r.of \cup {"workspace"} /\ s.workspace = "mine"
         /\ \A k \in DOMAIN r.of : k # "workspace" => s[k] = r.of[k]
<1> DEFINE q == [page |-> r.page, of |-> s]
<1>1. /\ DOMAIN s = DOMAIN r.of \cup {"workspace"} /\ s.workspace = "mine"
      /\ \A k \in DOMAIN r.of : k # "workspace" => s[k] = r.of[k]
  BY DEF With
<1>2. Searched(s)
  BY WithTyped, ValuesOf DEF Own, Routed, Keys
<1>3. ASSUME NEW k \in DOMAIN s
      PROVE  Understands(r.page, k, s) /\ AsRead(k, s[k]) = s[k]
  <2>1. CASE k = "workspace"
    BY <1>1, <2>1 DEF Understands, AsRead
  <2>2. CASE k # "workspace"
    <3>1. k \in DOMAIN r.of /\ s[k] = r.of[k] /\ Understands(r.page, k, r.of)
          /\ AsRead(k, r.of[k]) = r.of[k] /\ k \in Keys
      BY <1>1, <1>2, <2>2 DEF Own, Searched
    <3>2. "period" \in DOMAIN r.of => "period" \in DOMAIN s /\ s.period = r.of.period
      BY <1>1
    <3>3. CASE k \in {"from", "to"}
      BY <3>1, <3>2, <3>3 DEF Understands
    <3>4. CASE k \notin {"from", "to"}
      BY <2>2, <3>1, <3>4 DEF Understands, Keys
    <3>5. QED
      BY <3>3, <3>4
  <2>3. QED
    BY <2>1, <2>2
<1>4. Own(q)
  BY <1>2, <1>3 DEF Own, Routed
<1>5. [r EXCEPT !.of = With(@, "workspace", "mine")] = q
  BY DEF Own, Routed
<1>6. CurrentHref(r) = [path |-> r.page, search |-> s]
  BY <1>4, <1>5, OwnWritten DEF CurrentHref
<1>7. QED
  BY <1>1, <1>4, <1>6


-----------------------------------------------------------------------------
(* What a saved view keeps of a page that says where it is. *)

Timed == {"period", "from", "to", "week"}

LEMMA KeepsUntimed ==
  ASSUME NEW path, NEW k \in Keys, NEW v, Keeps(path, k, v)
  PROVE  k \notin Timed
BY DEF Keeps, Timed, Keys

\* The ways a view can keep its period: the page, what it says of the period, and what is kept.
Rolling(path, s, p) ==
  /\ path = "/"
  /\ PeriodIn(s, "7d") \in Presets \ {"custom"}
  /\ p = [period |-> PeriodIn(s, "7d")]

Fixed(path, s, p, now) ==
  /\ path = "/"
  /\ PeriodIn(s, "7d") = "custom"
  /\ CustomRange(s, now) # NoRange
  /\ p = [from |-> s["from"], to |-> s["to"], period |-> "custom"]

FeedRolling(path, s, p) ==
  /\ path = "/feed"
  /\ DOMAIN s \cap {"from", "to"} = {}
  /\ PeriodIn(s, "24h") \in FeedPeriods
  /\ p = [period |-> PeriodIn(s, "24h")]

FeedFixed(path, s, p, now) ==
  /\ path = "/feed"
  /\ CustomRange(s, now) # NoRange
  /\ p = [from |-> s["from"], to |-> s["to"]]

OneWeek(path, s, p, now) ==
  /\ path = "/recap"
  /\ "week" \in DOMAIN s /\ IsWeek(s["week"], now)
  /\ p = [week |-> s["week"]]

Timeless(path, s, p) ==
  /\ path = "/health" \/ (path = "/recap" /\ "week" \notin DOMAIN s)
  /\ p = <<>>

LEMMA DaysOfRange ==
  ASSUME NEW x \in Nat, NEW y \in Nat, NEW now \in Nat
  PROVE  IF y <= now /\ x <= y /\ y - x + 1 <= RangeLimit
         THEN DayRange(x, y, now) = <<x, y>> ELSE DayRange(x, y, now) = NoRange
BY LinkAssumption DEF DayRange

LEMMA RangeOrNone ==
  ASSUME NEW s, Searched(s), NEW now \in LinkDays, CustomRange(s, now) # NoRange
  PROVE  /\ {"from", "to"} \subseteq DOMAIN s
         /\ s["from"] \in LinkDays /\ s["to"] \in LinkDays
         /\ CustomRange(s, now) = <<s["from"], s["to"]>>
         /\ s["to"] <= now /\ s["from"] <= s["to"] /\ s["to"] - s["from"] + 1 <= RangeLimit
<1>1. {"from", "to"} \subseteq DOMAIN s /\ s["from"] # 0 /\ s["to"] # 0
  BY DEF CustomRange
<1>2. s["from"] \in LinkDays /\ s["to"] \in LinkDays
  BY <1>1, ValuesOf DEF Searched
<1>3. LinkDays \subseteq Nat /\ RangeLimit \in Nat
  BY LinkAssumption
<1>4. CustomRange(s, now) = DayRange(s["from"], s["to"], now)
  BY <1>1 DEF CustomRange
<1>5. s["from"] \in Nat /\ s["to"] \in Nat /\ now \in Nat
  BY <1>2, <1>3
<1>6. IF s["to"] <= now /\ s["from"] <= s["to"] /\ s["to"] - s["from"] + 1 <= RangeLimit
      THEN CustomRange(s, now) = <<s["from"], s["to"]>> ELSE CustomRange(s, now) = NoRange
  BY <1>4, <1>5, DaysOfRange
<1>7. QED
  BY <1>1, <1>2, <1>6

\* A range stays one on later days.
LEMMA RangeStays ==
  ASSUME NEW s, Searched(s), NEW now \in LinkDays, CustomRange(s, now) # NoRange,
         NEW d \in LinkDays, now <= d,
         NEW t, {"from", "to"} \subseteq DOMAIN t, t["from"] = s["from"], t["to"] = s["to"]
  PROVE  CustomRange(t, d) = <<s["from"], s["to"]>> /\ CustomRange(t, d) # NoRange
<1>1. /\ s["from"] \in LinkDays /\ s["to"] \in LinkDays
      /\ s["to"] <= now /\ s["from"] <= s["to"] /\ s["to"] - s["from"] + 1 <= RangeLimit
  BY RangeOrNone
<1>2. LinkDays \subseteq Nat \ {0} /\ RangeLimit \in Nat
  BY LinkAssumption
<1>3. CustomRange(t, d) = DayRange(s["from"], s["to"], d)
  BY <1>1, <1>2 DEF CustomRange
<1>4. DayRange(s["from"], s["to"], d) = <<s["from"], s["to"]>>
  <2>1. s["from"] \in Nat /\ s["to"] \in Nat /\ d \in Nat /\ now \in Nat
    BY <1>1, <1>2
  <2> DEFINE x == s["from"]
             y == s["to"]
  <2>2. y <= now /\ now <= d /\ x <= y /\ y - x + 1 <= RangeLimit
    BY <1>1
  <2>3. x \in Nat /\ y \in Nat
    BY <2>1
  <2> HIDE DEF x, y
  <2>4. DayRange(x, y, d) = <<x, y>>
    BY <2>1, <2>2, <2>3, DaysOfRange
  <2>5. QED
    BY <2>4 DEF x, y
<1>5. <<s["from"], s["to"]>> # NoRange
  BY DEF NoRange
<1>6. QED
  BY <1>3, <1>4, <1>5

LEMMA CustomOnly ==
  ASSUME NEW s, Searched(s), NEW now \in LinkDays, NEW custom,
         custom = {[from |-> r[1], to |-> r[2]] : r \in {CustomRange(s, now)} \ {NoRange}}
  PROVE  custom = IF CustomRange(s, now) = NoRange THEN {}
                  ELSE {[from |-> s["from"], to |-> s["to"]]}
<1>1. CASE CustomRange(s, now) = NoRange
  BY <1>1
<1>2. CASE CustomRange(s, now) # NoRange
  <2>1. CustomRange(s, now) = <<s["from"], s["to"]>>
    BY <1>2, RangeOrNone
  <2>2. QED
    BY <1>2, <2>1
<1>3. QED
  BY <1>1, <1>2

\* A period is kept in one of these ways or refused.
LEMMA PeriodKeptAs ==
  ASSUME NEW path \in PagePaths, NEW s, Searched(s), NEW now \in LinkDays
  PROVE  /\ \A p : \/ Rolling(path, s, p) \/ Fixed(path, s, p, now)
                  \/ FeedRolling(path, s, p) \/ FeedFixed(path, s, p, now)
                  \/ OneWeek(path, s, p, now) \/ Timeless(path, s, p)
                    => PeriodKept(path, s, now) = {p}
         /\ PeriodKept(path, s, now) # {} =>
              \E p : \/ Rolling(path, s, p) \/ Fixed(path, s, p, now)
                   \/ FeedRolling(path, s, p) \/ FeedFixed(path, s, p, now)
                   \/ OneWeek(path, s, p, now) \/ Timeless(path, s, p)
<1> DEFINE custom == {[from |-> r[1], to |-> r[2]] : r \in {CustomRange(s, now)} \ {NoRange}}
<1>0. custom = IF CustomRange(s, now) = NoRange THEN {}
               ELSE {[from |-> s["from"], to |-> s["to"]]}
  BY CustomOnly
<1> DEFINE kept ==
      CASE path = "/" ->
            LET period == PeriodIn(s, "7d")
            IN IF period = "custom" THEN {With(c, "period", period) : c \in custom}
               ELSE {[period |-> q] : q \in {period} \cap Presets}
       [] path = "/feed" ->
            IF DOMAIN s \cap {"from", "to"} # {} THEN custom
            ELSE {[period |-> q] : q \in {PeriodIn(s, "24h")} \cap FeedPeriods}
       [] path = "/recap" /\ "week" \in DOMAIN s ->
            IF IsWeek(s.week, now) THEN {[week |-> s.week]} ELSE {}
       [] OTHER -> {<<>>}
<1>1. PeriodKept(path, s, now) = kept
  BY DEF PeriodKept
<1>2. CASE path = "/"
  <2>1. kept = IF PeriodIn(s, "7d") = "custom" THEN {With(c, "period", "custom") : c \in custom}
               ELSE {[period |-> q] : q \in {PeriodIn(s, "7d")} \cap Presets}
    BY <1>2
  <2>2. With([from |-> s["from"], to |-> s["to"]], "period", "custom")
          = [from |-> s["from"], to |-> s["to"], period |-> "custom"]
    BY DEF With
  <2> HIDE DEF kept, custom
  <2>3. PeriodIn(s, "7d") = "custom" /\ CustomRange(s, now) # NoRange =>
          kept = {[from |-> s["from"], to |-> s["to"], period |-> "custom"]}
    BY <1>0, <2>1, <2>2
  <2>4. PeriodIn(s, "7d") = "custom" /\ CustomRange(s, now) = NoRange => kept = {}
    BY <1>0, <2>1
  <2>5. PeriodIn(s, "7d") # "custom" =>
          kept = IF PeriodIn(s, "7d") \in Presets THEN {[period |-> PeriodIn(s, "7d")]} ELSE {}
    BY <2>1
  <2>6. QED
    BY <1>1, <1>2, <2>3, <2>4, <2>5
       DEF Rolling, Fixed, FeedRolling, FeedFixed, OneWeek, Timeless
<1>3. CASE path = "/feed"
  <2>1. kept = IF DOMAIN s \cap {"from", "to"} # {} THEN custom
               ELSE {[period |-> q] : q \in {PeriodIn(s, "24h")} \cap FeedPeriods}
    BY <1>3
  <2>2. CustomRange(s, now) # NoRange => {"from", "to"} \subseteq DOMAIN s
    BY RangeOrNone
  <2> HIDE DEF kept, custom
  <2>3. CustomRange(s, now) # NoRange => kept = {[from |-> s["from"], to |-> s["to"]]}
    BY <1>0, <2>1, <2>2
  <2>4. DOMAIN s \cap {"from", "to"} # {} /\ CustomRange(s, now) = NoRange => kept = {}
    BY <1>0, <2>1
  <2>5. DOMAIN s \cap {"from", "to"} = {} =>
          kept = IF PeriodIn(s, "24h") \in FeedPeriods THEN {[period |-> PeriodIn(s, "24h")]} ELSE {}
    BY <2>1
  <2>6. QED
    BY <1>1, <1>3, <2>2, <2>3, <2>4, <2>5
       DEF Rolling, Fixed, FeedRolling, FeedFixed, OneWeek, Timeless
<1>4. CASE path \in {"/recap", "/health"}
  <2>1. kept = IF path = "/recap" /\ "week" \in DOMAIN s
               THEN IF IsWeek(s["week"], now) THEN {[week |-> s["week"]]} ELSE {}
               ELSE {<<>>}
    BY <1>4
  <2> HIDE DEF kept, custom
  <2>2. QED
    BY <1>1, <1>4, <2>1 DEF Rolling, Fixed, FeedRolling, FeedFixed, OneWeek, Timeless
<1>5. QED
  BY <1>2, <1>3, <1>4 DEF PagePaths


Ways(path, s, p, now) ==
  \/ Rolling(path, s, p) \/ Fixed(path, s, p, now)
  \/ FeedRolling(path, s, p) \/ FeedFixed(path, s, p, now)
  \/ OneWeek(path, s, p, now) \/ Timeless(path, s, p)

\* The search of the view: what is kept, and the period.
ViewWith(path, s, p) ==
  [k \in {k \in DOMAIN s : Keeps(path, k, s[k])} \cup DOMAIN p |->
     IF k \in DOMAIN p THEN p[k] ELSE s[k]]

\* A view is kept exactly in one of these ways.
LEMMA ViewKept ==
  ASSUME NEW path \in PagePaths, NEW s, Searched(s), NEW now \in LinkDays,
         "workspace" \in DOMAIN s, s["workspace"] = "mine",
         NEW a, a = [path |-> path, search |-> s], NEW n, n = NormalizeView(a, now)
  PROVE  /\ n # NotSaved => \E p : Ways(path, s, p, now)
         /\ \A p : Ways(path, s, p, now) =>
              n = [path |-> path, search |-> ViewWith(path, s, p)] /\ n # NotSaved
<1> DEFINE period == PeriodKept(path, s, now)
           kept == {k \in DOMAIN s : Keeps(path, k, s[k])}
<1>1. n = IF period = {} THEN NotSaved
          ELSE LET p == CHOOSE p \in period : TRUE
               IN [path |-> path,
                   search |-> [k \in kept \cup DOMAIN p |-> IF k \in DOMAIN p THEN p[k] ELSE s[k]]]
  BY DEF NormalizeView
<1>2. /\ period # {} => \E p : Ways(path, s, p, now)
      /\ \A p : Ways(path, s, p, now) => period = {p}
  BY PeriodKeptAs DEF Ways
<1>3. ASSUME NEW p, Ways(path, s, p, now)
      PROVE  n = [path |-> path, search |-> ViewWith(path, s, p)] /\ n # NotSaved
  <2>1. period = {p}
    BY <1>2, <1>3
  <2> HIDE DEF period
  <2>2. (CHOOSE q \in period : TRUE) = p
    BY <2>1
  <2>3. n = [path |-> path, search |-> ViewWith(path, s, p)]
    BY <1>1, <2>1, <2>2 DEF ViewWith
  <2>4. n.path = path
    BY <2>3
  <2>5. NotSaved.path = "none"
    BY DEF NotSaved
  <2>6. QED
    BY <2>3, <2>4, <2>5 DEF PagePaths
<1>4. QED
  BY <1>1, <1>2, <1>3

\* What is kept of a period.
LEMMA PeriodTyped ==
  ASSUME NEW path \in PagePaths, NEW s, Searched(s), NEW now \in LinkDays, NEW p,
         Ways(path, s, p, now)
  PROVE  /\ DOMAIN p \subseteq Timed
         /\ \A k \in DOMAIN p : p[k] \in ParamValues[k]
<1>1. CASE Rolling(path, s, p)
  BY <1>1, ValuesOf DEF Rolling, Timed
<1>2. CASE Fixed(path, s, p, now)
  <2>1. CustomRange(s, now) # NoRange
    BY <1>2 DEF Fixed
  <2>2. s["from"] \in LinkDays /\ s["to"] \in LinkDays
    BY <2>1, RangeOrNone
  <2>3. "custom" \in Presets
    BY DEF Presets
  <2>4. QED
    BY <1>2, <2>2, <2>3, ValuesOf DEF Fixed, Timed
<1>3. CASE FeedRolling(path, s, p)
  BY <1>3, ValuesOf DEF FeedRolling, Timed
<1>4. CASE FeedFixed(path, s, p, now)
  <2>1. CustomRange(s, now) # NoRange
    BY <1>4 DEF FeedFixed
  <2>2. s["from"] \in LinkDays /\ s["to"] \in LinkDays
    BY <2>1, RangeOrNone
  <2>3. QED
    BY <1>4, <2>2, ValuesOf DEF FeedFixed, Timed
<1>5. CASE OneWeek(path, s, p, now)
  BY <1>5 DEF OneWeek, Timed, Searched
<1>6. CASE Timeless(path, s, p)
  BY <1>6 DEF Timeless
<1>7. QED
  BY <1>1, <1>2, <1>3, <1>4, <1>5, <1>6 DEF Ways

\* The view says the same of its period as the page did, on any later day.
LEMMA PeriodStays ==
  ASSUME NEW path \in PagePaths, NEW s, Searched(s), NEW now \in LinkDays, NEW p,
         Ways(path, s, p, now), NEW d \in LinkDays, now <= d, NEW t,
         DOMAIN t \cap Timed = DOMAIN p, \A k \in DOMAIN p : t[k] = p[k]
  PROVE  Ways(path, t, p, d)
<1>1. CASE Rolling(path, s, p)
  BY <1>1 DEF Ways, Rolling, PeriodIn, Timed
<1>2. CASE Fixed(path, s, p, now)
  <2>1. CustomRange(s, now) # NoRange /\ DOMAIN p = {"from", "to", "period"}
        /\ p["from"] = s["from"] /\ p["to"] = s["to"] /\ p["period"] = "custom"
    BY <1>2 DEF Fixed
  <2>2. {"from", "to"} \subseteq DOMAIN t /\ t["from"] = s["from"] /\ t["to"] = s["to"]
    BY <2>1
  <2>3. CustomRange(t, d) # NoRange
    BY <2>1, <2>2, RangeStays
  <2>4. PeriodIn(t, "7d") = "custom"
    BY <2>1 DEF PeriodIn
  <2>5. p = [from |-> t["from"], to |-> t["to"], period |-> "custom"]
    BY <1>2, <2>2 DEF Fixed
  <2>6. Fixed(path, t, p, d)
    BY <1>2, <2>3, <2>4, <2>5 DEF Fixed
  <2>7. QED
    BY <2>6 DEF Ways
<1>3. CASE FeedRolling(path, s, p)
  BY <1>3 DEF Ways, FeedRolling, PeriodIn, Timed
<1>4. CASE FeedFixed(path, s, p, now)
  <2>1. CustomRange(s, now) # NoRange /\ DOMAIN p = {"from", "to"}
        /\ p["from"] = s["from"] /\ p["to"] = s["to"]
    BY <1>4 DEF FeedFixed
  <2>2. {"from", "to"} \subseteq DOMAIN t /\ t["from"] = s["from"] /\ t["to"] = s["to"]
    BY <2>1
  <2>3. CustomRange(t, d) # NoRange
    BY <2>1, <2>2, RangeStays
  <2>4. p = [from |-> t["from"], to |-> t["to"]]
    BY <1>4, <2>2 DEF FeedFixed
  <2>5. FeedFixed(path, t, p, d)
    BY <1>4, <2>3, <2>4 DEF FeedFixed
  <2>6. QED
    BY <2>5 DEF Ways
<1>5. CASE OneWeek(path, s, p, now)
  <2>1. /\ "week" \in DOMAIN s /\ IsWeek(s["week"], now) /\ p = [week |-> s["week"]]
        /\ path = "/recap"
    BY <1>5 DEF OneWeek
  <2>2. s["week"] \in Nat /\ now \in Nat /\ d \in Nat
    BY <2>1, ValuesOf, LinkAssumption DEF Searched
  <2>3. IsWeek(s["week"], d)
    <3> DEFINE w == s["week"]
    <3>1. w \in Nat /\ w # 0 /\ w <= now /\ w % 7 = 0
      BY <2>1, <2>2 DEF IsWeek
    <3> HIDE DEF w
    <3>2. w # 0 /\ w <= d /\ w % 7 = 0
      BY <2>2, <3>1
    <3>3. QED
      BY <3>2 DEF IsWeek, w
  <2>4. "week" \in DOMAIN t /\ t["week"] = s["week"]
    BY <2>1
  <2>5. OneWeek(path, t, p, d)
    BY <2>1, <2>3, <2>4 DEF OneWeek
  <2>6. QED
    BY <2>5 DEF Ways
<1>6. CASE Timeless(path, s, p)
  <2>1. "week" \notin DOMAIN t
    BY <1>6 DEF Timeless, Timed
  <2>2. Timeless(path, t, p)
    BY <1>6, <2>1 DEF Timeless
  <2>3. QED
    BY <2>2 DEF Ways
<1>7. QED
  BY <1>1, <1>2, <1>3, <1>4, <1>5, <1>6 DEF Ways

\* What there is to know of the search of a view.
ViewFits(path, s, p, v) ==
  /\ Searched(v)
  /\ DOMAIN v = {k \in DOMAIN s : Keeps(path, k, s[k])} \cup DOMAIN p
  /\ DOMAIN v \cap Timed = DOMAIN p
  /\ \A k \in DOMAIN p : v[k] = p[k]
  /\ \A k \in DOMAIN v \ DOMAIN p : k \in DOMAIN s /\ Keeps(path, k, s[k]) /\ v[k] = s[k]
  /\ "workspace" \in DOMAIN v /\ v["workspace"] = "mine"

\* The kept view is an address of the page.
LEMMA ViewTyped ==
  ASSUME NEW path \in PagePaths, NEW s, Searched(s), NEW now \in LinkDays, NEW p,
         Ways(path, s, p, now), "workspace" \in DOMAIN s, s["workspace"] = "mine",
         NEW v, v = ViewWith(path, s, p)
  PROVE  ViewFits(path, s, p, v)
<1> DEFINE kept == {k \in DOMAIN s : Keeps(path, k, s[k])}
<1>1. DOMAIN p \subseteq Timed /\ \A k \in DOMAIN p : p[k] \in ParamValues[k]
  BY PeriodTyped
<1>2. kept \subseteq Keys /\ kept \cap Timed = {}
  BY KeepsUntimed DEF Searched
<1>3. /\ v = [k \in DOMAIN v |-> v[k]]
      /\ DOMAIN v = kept \cup DOMAIN p
      /\ \A k \in DOMAIN p : v[k] = p[k]
      /\ \A k \in DOMAIN v \ DOMAIN p : k \in kept /\ v[k] = s[k]
  BY DEF ViewWith
<1>4. DOMAIN v \cap Timed = DOMAIN p
  BY <1>1, <1>2, <1>3
<1>5. DOMAIN v \subseteq Keys
  BY <1>1, <1>2, <1>3 DEF Timed, Keys
<1>6. \A k \in DOMAIN v : v[k] \in ParamValues[k]
  <2> HIDE DEF kept
  <2>1. \A k \in kept : s[k] \in ParamValues[k]
    BY DEF kept, Searched
  <2>2. QED
    BY <1>1, <1>3, <2>1
<1>7. "workspace" \in kept /\ "workspace" \notin DOMAIN p
  BY <1>1 DEF Keeps, Timed
<1>8. Searched(v)
  BY <1>3, <1>5, <1>6 DEF Searched
<1>9. QED
  BY <1>3, <1>4, <1>7, <1>8 DEF ViewFits

\* A saved view is as it is: saved again, then or later, it stays.
LEMMA ViewStays ==
  ASSUME NEW path \in PagePaths, NEW s, Searched(s), NEW now \in LinkDays, NEW p,
         Ways(path, s, p, now), "workspace" \in DOMAIN s, s["workspace"] = "mine",
         NEW v, v = ViewWith(path, s, p), NEW d \in LinkDays, now <= d,
         NEW a, a = [path |-> path, search |-> v]
  PROVE  Ways(path, v, p, d) /\ NormalizeView(a, d) = a
<1>1. /\ Searched(v)
      /\ DOMAIN v = {k \in DOMAIN s : Keeps(path, k, s[k])} \cup DOMAIN p
      /\ DOMAIN v \cap Timed = DOMAIN p
      /\ \A k \in DOMAIN p : v[k] = p[k]
      /\ \A k \in DOMAIN v \ DOMAIN p : k \in DOMAIN s /\ Keeps(path, k, s[k]) /\ v[k] = s[k]
      /\ "workspace" \in DOMAIN v /\ v["workspace"] = "mine"
  <2>1. ViewFits(path, s, p, v)
    BY ViewTyped
  <2>2. QED
    BY <2>1 DEF ViewFits
<1>2. Ways(path, v, p, d)
  BY <1>1, PeriodStays
<1>3. ViewWith(path, v, p) = v
  <2>1. {k \in DOMAIN v : Keeps(path, k, v[k])} \cup DOMAIN p = DOMAIN v
    BY <1>1
  <2>2. v = [k \in DOMAIN v |-> v[k]]
    BY <1>1 DEF Searched
  <2>3. \A k \in DOMAIN v : (IF k \in DOMAIN p THEN p[k] ELSE v[k]) = v[k]
    BY <1>1
  <2>4. ViewWith(path, v, p) = [k \in DOMAIN v |-> IF k \in DOMAIN p THEN p[k] ELSE v[k]]
    BY <2>1 DEF ViewWith
  <2>5. QED
    BY <2>2, <2>3, <2>4
<1>4. NormalizeView(a, d) = [path |-> path, search |-> ViewWith(path, v, p)]
  BY <1>1, <1>2, ViewKept
<1>5. QED
  BY <1>2, <1>3, <1>4


\* The days that a page shows which says of its period what is kept as p.
DaysOf(path, p, d) ==
  IF "from" \in DOMAIN p THEN <<p["from"], p["to"]>>
  ELSE IF "period" \in DOMAIN p THEN RangeOf(p["period"], <<>>, d)
  ELSE IF "week" \in DOMAIN p THEN <<p["week"], p["week"] + 6>>
  ELSE IF path = "/recap" THEN <<d - 7 - (d % 7), d - 1 - (d % 7)>>
  ELSE <<d, d>>

LEMMA RangeWithout ==
  ASSUME NEW q \in Presets \cup FeedPeriods, q # "custom", NEW s, NEW d
  PROVE  RangeOf(q, s, d) = RangeOf(q, <<>>, d) /\ RangeOf(q, s, d) # NoRange
<1>1. q \in {"today", "24h", "7d", "30d", "month"}
  BY DEF Presets, FeedPeriods
<1>2. RangeOf(q, s, d) = RangeOf(q, <<>>, d)
  BY <1>1 DEF RangeOf
<1>3. /\ RangeOf("today", s, d) = <<d, d>> /\ RangeOf("24h", s, d) = <<d - 1, d>>
      /\ RangeOf("7d", s, d) = <<d - 6, d>> /\ RangeOf("30d", s, d) = <<d - 29, d>>
      /\ RangeOf("month", s, d) = <<MonthStart(d), d>>
  BY DEF RangeOf
<1>4. \A x, y : <<x, y>> # NoRange
  BY DEF NoRange
<1>5. QED
  BY <1>1, <1>2, <1>3, <1>4

\* A way says which days the page shows.
LEMMA WayShown ==
  ASSUME NEW path \in PagePaths, NEW x, Searched(x), NEW d \in LinkDays, NEW p,
         Ways(path, x, p, d), NEW r, r = [page |-> path, of |-> x]
  PROVE  ShownDays(r, d) = DaysOf(path, p, d) /\ ShownDays(r, d) # NoRange
<1>0. r.page = path /\ r.of = x
  OBVIOUS
<1>n. \A i, j : <<i, j>> # NoRange
  BY DEF NoRange
<1>1. CASE Rolling(path, x, p)
  <2>1. ShownDays(r, d) = RangeOf(PeriodIn(x, "7d"), x, d)
    BY <1>0, <1>1 DEF ShownDays, Rolling
  <2>2. DaysOf(path, p, d) = RangeOf(PeriodIn(x, "7d"), <<>>, d)
    BY <1>1 DEF DaysOf, Rolling
  <2>3. PeriodIn(x, "7d") \in Presets \cup FeedPeriods /\ PeriodIn(x, "7d") # "custom"
    BY <1>1 DEF Rolling
  <2>4. QED
    BY <2>1, <2>2, <2>3, RangeWithout
<1>2. CASE Fixed(path, x, p, d)
  <2>1. ShownDays(r, d) = RangeOf("custom", x, d)
    BY <1>0, <1>2 DEF ShownDays, Fixed
  <2>2. RangeOf("custom", x, d) = CustomRange(x, d)
    BY DEF RangeOf
  <2>3. CustomRange(x, d) = <<x["from"], x["to"]>>
    BY <1>2, RangeOrNone DEF Fixed
  <2>4. DaysOf(path, p, d) = <<x["from"], x["to"]>>
    BY <1>2 DEF DaysOf, Fixed
  <2>5. QED
    BY <1>n, <2>1, <2>2, <2>3, <2>4
<1>3. CASE FeedRolling(path, x, p)
  <2>1. ShownDays(r, d) = RangeOf(PeriodIn(x, "24h"), x, d)
    BY <1>0, <1>3 DEF ShownDays, FeedRolling
  <2>2. DaysOf(path, p, d) = RangeOf(PeriodIn(x, "24h"), <<>>, d)
    BY <1>3 DEF DaysOf, FeedRolling
  <2>3. PeriodIn(x, "24h") \in Presets \cup FeedPeriods /\ PeriodIn(x, "24h") # "custom"
    BY <1>3 DEF FeedRolling, FeedPeriods
  <2>4. QED
    BY <2>1, <2>2, <2>3, RangeWithout
<1>4. CASE FeedFixed(path, x, p, d)
  <2>1. CustomRange(x, d) = <<x["from"], x["to"]>> /\ {"from", "to"} \subseteq DOMAIN x
    BY <1>4, RangeOrNone DEF FeedFixed
  <2>2. ShownDays(r, d) = CustomRange(x, d)
    BY <1>0, <1>4, <2>1 DEF ShownDays, FeedFixed
  <2>3. DaysOf(path, p, d) = <<x["from"], x["to"]>>
    BY <1>4 DEF DaysOf, FeedFixed
  <2>4. QED
    BY <1>n, <2>1, <2>2, <2>3
<1>5. CASE OneWeek(path, x, p, d)
  <2>1. ShownDays(r, d) = <<x["week"], x["week"] + 6>>
    BY <1>0, <1>5 DEF ShownDays, OneWeek
  <2>2. DaysOf(path, p, d) = <<x["week"], x["week"] + 6>>
    BY <1>5 DEF DaysOf, OneWeek
  <2>3. QED
    BY <1>n, <2>1, <2>2
<1>6. CASE Timeless(path, x, p)
  <2>1. ShownDays(r, d) = IF path = "/recap" THEN <<d - 7 - (d % 7), d - 1 - (d % 7)>> ELSE <<d, d>>
    BY <1>0, <1>6 DEF ShownDays, Timeless
  <2>2. DaysOf(path, p, d) = IF path = "/recap" THEN <<d - 7 - (d % 7), d - 1 - (d % 7)>> ELSE <<d, d>>
    BY <1>6 DEF DaysOf, Timeless
  <2>3. QED
    BY <1>n, <2>1, <2>2
<1>7. QED
  BY <1>1, <1>2, <1>3, <1>4, <1>5, <1>6 DEF Ways

\* A page that shows some days says so in one of these ways.
LEMMA ShownWay ==
  ASSUME NEW r, Own(r), NEW d \in LinkDays, ShownDays(r, d) # NoRange
  PROVE  \E p : Ways(r.page, r.of, p, d)
<1> DEFINE path == r.page
           x == r.of
<1>0. path \in PagePaths /\ Searched(x)
  BY DEF Own, Routed
<1>1. CASE path = "/"
  <2>1. PeriodIn(x, "7d") \in Presets
    <3>1. "period" \in DOMAIN x => x.period \in Presets
      BY <1>1 DEF Own, Understands
    <3>2. "7d" \in Presets
      BY DEF Presets
    <3>3. QED
      BY <3>1, <3>2 DEF PeriodIn
  <2>2. CASE PeriodIn(x, "7d") # "custom"
    <3>1. Rolling(path, x, [period |-> PeriodIn(x, "7d")])
      BY <1>1, <2>1, <2>2 DEF Rolling
    <3>2. QED
      BY <3>1 DEF Ways
  <2>3. CASE PeriodIn(x, "7d") = "custom"
    <3>1. ShownDays(r, d) = CustomRange(x, d)
      BY <1>1, <2>3 DEF ShownDays, RangeOf
    <3>2. Fixed(path, x, [from |-> x["from"], to |-> x["to"], period |-> "custom"], d)
      BY <1>1, <2>3, <3>1 DEF Fixed
    <3>3. QED
      BY <3>2 DEF Ways
  <2>4. QED
    BY <2>2, <2>3
<1>2. CASE path = "/feed"
  <2>1. CASE DOMAIN x \cap {"from", "to"} # {}
    <3>1. ShownDays(r, d) = CustomRange(x, d)
      BY <1>2, <2>1 DEF ShownDays
    <3>2. FeedFixed(path, x, [from |-> x["from"], to |-> x["to"]], d)
      BY <1>2, <3>1 DEF FeedFixed
    <3>3. QED
      BY <3>2 DEF Ways
  <2>2. CASE DOMAIN x \cap {"from", "to"} = {}
    <3>1. "period" \in DOMAIN x => x.period \in FeedPeriods
      BY <1>2 DEF Own, Understands
    <3>2. PeriodIn(x, "24h") \in FeedPeriods
      BY <3>1 DEF PeriodIn, FeedPeriods
    <3>3. FeedRolling(path, x, [period |-> PeriodIn(x, "24h")])
      BY <1>2, <2>2, <3>2 DEF FeedRolling
    <3>4. QED
      BY <3>3 DEF Ways
  <2>3. QED
    BY <2>1, <2>2
<1>3. CASE path = "/recap"
  <2>1. CASE "week" \in DOMAIN x
    <3>1. IsWeek(x["week"], d)
      BY <1>3, <2>1 DEF ShownDays
    <3>2. OneWeek(path, x, [week |-> x["week"]], d)
      BY <1>3, <2>1, <3>1 DEF OneWeek
    <3>3. QED
      BY <3>2 DEF Ways
  <2>2. CASE "week" \notin DOMAIN x
    <3>1. Timeless(path, x, <<>>)
      BY <1>3, <2>2 DEF Timeless
    <3>2. QED
      BY <3>1 DEF Ways
  <2>3. QED
    BY <2>1, <2>2
<1>4. CASE path = "/health"
  <2>1. Timeless(path, x, <<>>)
    BY <1>4 DEF Timeless
  <2>2. QED
    BY <2>1 DEF Ways
<1>5. QED
  BY <1>0, <1>1, <1>2, <1>3, <1>4 DEF PagePaths

\* Two searches that say the same of their period keep it in the same way.
LEMMA SameTimes ==
  ASSUME NEW path \in PagePaths, NEW x, Searched(x), NEW y, NEW d, NEW p,
         DOMAIN x \cap Timed = DOMAIN y \cap Timed, \A k \in DOMAIN x \cap Timed : x[k] = y[k],
         Ways(path, x, p, d)
  PROVE  Ways(path, y, p, d)
<1>1. /\ \A k \in Timed : k \in DOMAIN x <=> k \in DOMAIN y
      /\ \A k \in Timed : k \in DOMAIN x => x[k] = y[k]
  OBVIOUS
<1>2. /\ "period" \in Timed /\ "from" \in Timed /\ "to" \in Timed /\ "week" \in Timed
  BY DEF Timed
<1>3. PeriodIn(x, "7d") = PeriodIn(y, "7d") /\ PeriodIn(x, "24h") = PeriodIn(y, "24h")
  BY <1>1, <1>2 DEF PeriodIn
<1>4. CustomRange(x, d) = CustomRange(y, d)
      /\ (CustomRange(x, d) # NoRange => /\ {"from", "to"} \subseteq DOMAIN x
                                         /\ x["from"] = y["from"] /\ x["to"] = y["to"])
  BY <1>1, <1>2 DEF CustomRange
<1>5. /\ DOMAIN x \cap {"from", "to"} = {} <=> DOMAIN y \cap {"from", "to"} = {}
      /\ "week" \in DOMAIN x <=> "week" \in DOMAIN y
      /\ "week" \in DOMAIN x => x["week"] = y["week"]
  BY <1>1, <1>2
<1>6. QED
  BY <1>3, <1>4, <1>5 DEF Ways, Rolling, Fixed, FeedRolling, FeedFixed, OneWeek, Timeless


\* What a page keeps of what it read, or could not be saved with it.
LEMMA KeptOrUnkept ==
  ASSUME NEW path \in PagePaths, NEW x, Searched(x), NEW k \in DOMAIN x, Understands(path, k, x),
         k \notin Timed
  PROVE  Unkept(k, x[k]) \/ Keeps(path, k, x[k])
<1>1. k \in Keys /\ x[k] \in ParamValues[k]
  BY DEF Searched
<1>2. CASE k \in {"repo", "tag", "q"}
  BY <1>1, <1>2, ValuesOf DEF Understands, Unkept, Keeps
<1>3. CASE k \in {"workspace", "env", "scene", "type", "person", "repository"}
  BY <1>3 DEF Understands, Keeps
<1>4. QED
  BY <1>1, <1>2, <1>3 DEF Keys, Timed

\* Opened again, a view is on its page with what it kept and the same period.
LEMMA ViewOpened ==
  ASSUME NEW path \in PagePaths, NEW s, Own([page |-> path, of |-> s]),
         "workspace" \in DOMAIN s, s["workspace"] = "mine",
         NEW now \in LinkDays, NEW p, Ways(path, s, p, now),
         NEW v, v = ViewWith(path, s, p), NEW o, o = ParseRoute([path |-> path, search |-> v])
  PROVE  /\ o = [page |-> path, of |-> o.of] /\ Searched(o.of)
         /\ "workspace" \in DOMAIN o.of /\ o.of["workspace"] = "mine"
         /\ \A k \in DOMAIN s \ OfPeriod :
              Unkept(k, s[k]) \/ (k \in DOMAIN o.of /\ o.of[k] = s[k])
         /\ DOMAIN o.of \subseteq DOMAIN s
         /\ \A d \in LinkDays : now <= d => Ways(path, o.of, p, d)
<1> DEFINE x == o.of
<1>s. /\ Searched(s)
      /\ \A k \in DOMAIN s : Understands(path, k, s) /\ AsRead(k, s[k]) = s[k]
  BY DEF Own, Routed
<1>1. /\ Searched(v)
      /\ DOMAIN v = {k \in DOMAIN s : Keeps(path, k, s[k])} \cup DOMAIN p
      /\ DOMAIN v \cap Timed = DOMAIN p
      /\ \A k \in DOMAIN p : v[k] = p[k]
      /\ \A k \in DOMAIN v \ DOMAIN p : k \in DOMAIN s /\ Keeps(path, k, s[k]) /\ v[k] = s[k]
      /\ "workspace" \in DOMAIN v /\ v["workspace"] = "mine"
  <2>1. ViewFits(path, s, p, v)
    BY <1>s, ViewTyped
  <2>2. QED
    BY <2>1 DEF ViewFits
<1>2. DOMAIN p \subseteq Timed
  BY <1>s, PeriodTyped
<1>3. /\ o = [page |-> path, of |-> x]
      /\ DOMAIN x = {k \in DOMAIN v : Understands(path, k, v)}
      /\ \A k \in DOMAIN x : x[k] = AsRead(k, v[k])
  BY DEF ParseRoute
<1>4. Searched(x)
  <2>1. Own(o)
    BY <1>1, ReadOwn
  <2>2. QED
    BY <2>1 DEF Own, Routed
<1> HIDE DEF x
\* What is not of the period is read as it stood.
<1>5. ASSUME NEW k \in DOMAIN s, Keeps(path, k, s[k])
      PROVE  k \in DOMAIN x /\ x[k] = s[k]
  <2>1. k \notin Timed
    BY <1>s, <1>5, KeepsUntimed DEF Searched
  <2>2. k \in DOMAIN v /\ v[k] = s[k]
    BY <1>1, <1>2, <1>5, <2>1
  <2>3. Understands(path, k, v)
    BY <1>s, <2>1, <2>2 DEF Understands, Timed, Searched, Keys
  <2>4. QED
    BY <1>3, <1>s, <2>2, <2>3
\* What is of the period is read unless it is the page's default.
<1>6. ASSUME NEW k \in DOMAIN p, Understands(path, k, v)
      PROVE  k \in DOMAIN x /\ x[k] = p[k]
  <2>1. k \in DOMAIN v /\ v[k] = p[k] /\ k \in Timed
    BY <1>1, <1>2
  <2>2. AsRead(k, v[k]) = v[k]
    BY <2>1 DEF AsRead, Timed
  <2>3. QED
    BY <1>3, <1>6, <2>1, <2>2
<1>7. \A k \in DOMAIN x \ DOMAIN p : k \in DOMAIN s /\ k \notin Timed
  BY <1>1, <1>3
<1>8. ASSUME \A k \in DOMAIN p : Understands(path, k, v)
      PROVE  \A d \in LinkDays : now <= d => Ways(path, x, p, d)
  <2>1. DOMAIN x \cap Timed = DOMAIN p /\ \A k \in DOMAIN p : x[k] = p[k]
    BY <1>2, <1>6, <1>7, <1>8
  <2>2. QED
    BY <1>s, <2>1, PeriodStays
<1>9. /\ \A d \in LinkDays : now <= d => Ways(path, x, p, d)
      /\ DOMAIN x \cap DOMAIN p \subseteq DOMAIN s
      /\ \A k \in DOMAIN s \cap {"week"} : k \in DOMAIN x /\ x[k] = s[k]
  <2>w. path # "/recap" => "week" \notin DOMAIN s
    BY <1>s DEF Understands
  <2>1. CASE Rolling(path, s, p)
    <3> DEFINE q == PeriodIn(s, "7d")
    <3>1. /\ path = "/" /\ DOMAIN p = {"period"} /\ p["period"] = q
          /\ q \in Presets \ {"custom"} /\ p = [period |-> q]
      BY <2>1 DEF Rolling
    <3>2. q # "7d" => "period" \in DOMAIN s
      BY DEF PeriodIn
    <3> HIDE DEF q
    <3>3. Understands(path, "period", v) <=> q # "7d"
      BY <1>1, <3>1 DEF Understands, PagePaths
    <3>4. "period" \in DOMAIN x <=> q # "7d"
      BY <1>1, <1>3, <3>1, <3>3
    <3>5. "period" \in DOMAIN x => x["period"] = q
      BY <1>6, <3>1, <3>3, <3>4
    <3>6. PeriodIn(x, "7d") = q
      BY <3>4, <3>5 DEF PeriodIn
    <3>7. Rolling(path, x, p)
      BY <3>1, <3>6 DEF Rolling
    <3>8. QED
      BY <2>w, <3>1, <3>2, <3>4, <3>7 DEF Ways
  <2>2. CASE Fixed(path, s, p, now)
    <3>1. /\ path = "/" /\ DOMAIN p = {"from", "to", "period"} /\ p["period"] = "custom"
          /\ PeriodIn(s, "7d") = "custom" /\ CustomRange(s, now) # NoRange
      BY <2>2 DEF Fixed
    <3>2. v["period"] = "custom" /\ "period" \in DOMAIN v
      BY <1>1, <3>1
    <3>3. \A k \in DOMAIN p : Understands(path, k, v)
      BY <3>1, <3>2 DEF Understands, Presets
    <3>4. {"from", "to"} \subseteq DOMAIN s /\ "period" \in DOMAIN s
      BY <1>s, <3>1, RangeOrNone DEF PeriodIn
    <3>5. QED
      BY <1>8, <2>w, <3>1, <3>3, <3>4
  <2>3. CASE FeedRolling(path, s, p)
    <3> DEFINE q == PeriodIn(s, "24h")
    <3>1. /\ path = "/feed" /\ DOMAIN p = {"period"} /\ p["period"] = q
          /\ q \in FeedPeriods /\ p = [period |-> q]
      BY <2>3 DEF FeedRolling
    <3>2. q # "24h" => "period" \in DOMAIN s
      BY DEF PeriodIn
    <3> HIDE DEF q
    <3>3. Understands(path, "period", v) <=> q # "24h"
      BY <1>1, <3>1 DEF Understands, PagePaths
    <3>4. "period" \in DOMAIN x <=> q # "24h"
      BY <1>1, <1>3, <3>1, <3>3
    <3>5. "period" \in DOMAIN x => x["period"] = q
      BY <1>6, <3>1, <3>3, <3>4
    <3>6. PeriodIn(x, "24h") = q
      BY <3>4, <3>5 DEF PeriodIn
    <3>7. DOMAIN x \cap {"from", "to"} = {}
      BY <1>7, <3>1 DEF Timed
    <3>8. FeedRolling(path, x, p)
      BY <3>1, <3>6, <3>7 DEF FeedRolling
    <3>9. QED
      BY <2>w, <3>1, <3>2, <3>4, <3>8 DEF Ways
  <2>4. CASE FeedFixed(path, s, p, now)
    <3>1. path = "/feed" /\ DOMAIN p = {"from", "to"} /\ CustomRange(s, now) # NoRange
      BY <2>4 DEF FeedFixed
    <3>2. \A k \in DOMAIN p : Understands(path, k, v)
      BY <3>1 DEF Understands
    <3>3. {"from", "to"} \subseteq DOMAIN s
      BY <1>s, <3>1, RangeOrNone
    <3>4. QED
      BY <1>8, <2>w, <3>1, <3>2, <3>3
  <2>5. CASE OneWeek(path, s, p, now)
    <3>1. path = "/recap" /\ DOMAIN p = {"week"} /\ "week" \in DOMAIN s /\ p["week"] = s["week"]
      BY <2>5 DEF OneWeek
    <3>2. \A k \in DOMAIN p : Understands(path, k, v)
      BY <3>1 DEF Understands
    <3>3. QED
      BY <1>6, <1>8, <3>1, <3>2
  <2>6. CASE Timeless(path, s, p)
    <3>1. DOMAIN p = {} /\ "week" \notin DOMAIN s
      BY <2>6, <2>w DEF Timeless
    <3>2. QED
      BY <1>8, <3>1
  <2>7. QED
    BY <2>1, <2>2, <2>3, <2>4, <2>5, <2>6 DEF Ways
<1>10. ASSUME NEW k \in DOMAIN s \ OfPeriod
       PROVE  Unkept(k, s[k]) \/ (k \in DOMAIN x /\ x[k] = s[k])
  <2>1. CASE k = "week"
    BY <1>9, <2>1
  <2>2. CASE k # "week"
    <3>1. k \notin Timed
      BY <2>2 DEF Timed, OfPeriod
    <3>2. Unkept(k, s[k]) \/ Keeps(path, k, s[k])
      BY <1>s, <3>1, KeptOrUnkept
    <3>3. QED
      BY <1>5, <3>2
  <2>3. QED
    BY <2>1, <2>2
<1>11. "workspace" \in DOMAIN x /\ x["workspace"] = "mine"
  <2>1. Keeps(path, "workspace", s["workspace"])
    BY DEF Keeps
  <2>2. QED
    BY <1>5, <2>1
<1>12. DOMAIN x \subseteq DOMAIN s
  BY <1>7, <1>9
<1>13. QED
  BY <1>3, <1>4, <1>9, <1>10, <1>11, <1>12 DEF x


\* What a label calls fixed stays, and what it calls rolling goes on.
LEMMA LabelKept ==
  ASSUME NEW path \in PagePaths, NEW v, Searched(v), NEW now \in LinkDays, NEW p,
         Ways(path, v, p, now), DOMAIN v \cap Timed = DOMAIN p,
         NEW a, a = [path |-> path, search |-> v], NEW d \in LinkDays
  PROVE  /\ PeriodLabel(a) = "fixed" => DaysOf(path, p, d) = DaysOf(path, p, now)
         /\ PeriodLabel(a) = "rolling" /\ path # "/recap" /\ d # now =>
              DaysOf(path, p, d) # DaysOf(path, p, now)
<1> DEFINE period == PeriodIn(v, IF path = "/" THEN "7d" ELSE "24h")
<1>0. PeriodLabel(a) =
        CASE {"from", "to"} \subseteq DOMAIN v -> "fixed"
          [] path = "/recap" -> IF "week" \in DOMAIN v THEN "fixed" ELSE "rolling"
          [] path \in {"/", "/feed"} /\ DOMAIN v \cap {"from", "to"} = {} ->
               IF period = "month" THEN "month" ELSE "rolling"
          [] OTHER -> "current view"
  BY DEF PeriodLabel
<1>t. {"from", "to", "week"} \subseteq Timed
  BY DEF Timed
<1>1. ASSUME NEW q \in Presets \cup FeedPeriods, q \notin {"custom", "month"}, d # now
      PROVE  RangeOf(q, <<>>, d) # RangeOf(q, <<>>, now)
  <2>1. q \in {"today", "24h", "7d", "30d"}
    BY <1>1 DEF Presets, FeedPeriods
  <2>2. \E x, y : RangeOf(q, <<>>, d) = <<x, d>> /\ RangeOf(q, <<>>, now) = <<y, now>>
    BY <2>1 DEF RangeOf
  <2>3. QED
    BY <1>1, <2>2
<1>2. CASE Rolling(path, v, p)
  <2>1. /\ path = "/" /\ DOMAIN p = {"period"} /\ p["period"] = period
        /\ period \in Presets \ {"custom"}
    BY <1>2 DEF Rolling
  <2>2. DOMAIN v \cap {"from", "to"} = {}
    BY <1>t, <2>1
  <2> HIDE DEF period
  <2>3. PeriodLabel(a) = IF period = "month" THEN "month" ELSE "rolling"
    BY <1>0, <2>1, <2>2
  <2>4. \A e : DaysOf(path, p, e) = RangeOf(period, <<>>, e)
    BY <2>1 DEF DaysOf
  <2>5. QED
    BY <1>1, <2>1, <2>3, <2>4
<1>3. CASE FeedRolling(path, v, p)
  <2>1. /\ path = "/feed" /\ DOMAIN p = {"period"} /\ p["period"] = period
        /\ period \in FeedPeriods /\ "custom" \notin FeedPeriods
    BY <1>3 DEF FeedRolling, FeedPeriods
  <2>2. DOMAIN v \cap {"from", "to"} = {}
    BY <1>t, <2>1
  <2> HIDE DEF period
  <2>3. PeriodLabel(a) = IF period = "month" THEN "month" ELSE "rolling"
    BY <1>0, <2>1, <2>2
  <2>4. \A e : DaysOf(path, p, e) = RangeOf(period, <<>>, e)
    BY <2>1 DEF DaysOf
  <2>5. QED
    BY <1>1, <2>1, <2>3, <2>4
<1>4. CASE Fixed(path, v, p, now) \/ FeedFixed(path, v, p, now)
  <2>1. {"from", "to"} \subseteq DOMAIN p /\ path # "/recap" /\ path \in {"/", "/feed"}
    BY <1>4 DEF Fixed, FeedFixed
  <2>2. {"from", "to"} \subseteq DOMAIN v
    BY <2>1
  <2>3. PeriodLabel(a) = "fixed"
    BY <1>0, <2>1, <2>2
  <2>4. \A e : DaysOf(path, p, e) = <<p["from"], p["to"]>>
    BY <2>1 DEF DaysOf
  <2>5. QED
    BY <2>3, <2>4
<1>5. CASE OneWeek(path, v, p, now)
  <2>1. DOMAIN p = {"week"} /\ path = "/recap"
    BY <1>5 DEF OneWeek
  <2>2. \A e : DaysOf(path, p, e) = <<p["week"], p["week"] + 6>>
    BY <2>1 DEF DaysOf
  <2>3. QED
    BY <2>1, <2>2
<1>6. CASE Timeless(path, v, p)
  <2>1. DOMAIN p = {} /\ path \in {"/recap", "/health"}
    BY <1>6 DEF Timeless
  <2>2. "from" \notin DOMAIN v /\ "week" \notin DOMAIN v
    BY <1>t, <2>1
  <2>3. PeriodLabel(a) = IF path = "/recap" THEN "rolling" ELSE "current view"
    BY <1>0, <2>1, <2>2
  <2>4. QED
    BY <2>1, <2>3
<1>7. QED
  BY <1>2, <1>3, <1>4, <1>5, <1>6 DEF Ways

\* A page reads back the address it writes, and a saved view shows, on a later day, the days
\* its period stands for (link-state, saved-views).
LEMMA LinksAreSafe == LinkInv => LinksSafe
<1> SUFFICES ASSUME LinkInv
             PROVE  LinksSafe
  OBVIOUS
<1> DEFINE route == ParseRoute(address)
           saved == NormalizeView(CurrentHref(route), thisDay)
           opened == ParseRoute(saved)
           ordinary == DOMAIN route.of \ (OfPeriod \cup {"workspace"})
           path == route.page
           s == With(route.of, "workspace", "mine")
           own == [page |-> path, of |-> s]
<1>1. Own(route) /\ thisDay \in LinkDays
  BY ReadOwn DEF LinkInv
<1>2. ParseRoute(RouteHref(route)) = route
  <2> HIDE DEF route
  <2>1. RouteHref(route) = [path |-> route.page, search |-> route.of]
    BY <1>1, OwnWritten
  <2>2. QED
    BY <1>1, <2>1, OwnReadBack
<1>3. /\ Own(own) /\ CurrentHref(route) = [path |-> path, search |-> s]
      /\ DOMAIN s = DOMAIN route.of \cup {"workspace"} /\ s["workspace"] = "mine"
      /\ \A k \in DOMAIN route.of : k # "workspace" => s[k] = route.of[k]
  <2> HIDE DEF route
  <2>1. QED
    BY <1>1, WorkspaceTold
<1>4. route = [page |-> path, of |-> route.of] /\ path \in PagePaths /\ Searched(route.of)
      /\ Searched(s) /\ "workspace" \in DOMAIN s
  BY <1>1, <1>3 DEF Own, Routed
<1> HIDE DEF route, s
<1>5. /\ saved # NotSaved => \E p : Ways(path, s, p, thisDay)
      /\ \A p : Ways(path, s, p, thisDay) =>
           saved = [path |-> path, search |-> ViewWith(path, s, p)] /\ saved # NotSaved
  BY <1>1, <1>3, <1>4, ViewKept
<1>t. /\ DOMAIN s \cap Timed = DOMAIN route.of \cap Timed
      /\ \A k \in DOMAIN s \cap Timed : s[k] = route.of[k]
  <2>1. "workspace" \notin Timed
    BY DEF Timed
  <2>2. QED
    BY <1>3, <2>1
<1>6. \A p, d : Ways(path, route.of, p, d) <=> Ways(path, s, p, d)
  <2>1. ASSUME NEW p, NEW d, Ways(path, route.of, p, d)
        PROVE  Ways(path, s, p, d)
    BY <1>4, <1>t, <2>1, SameTimes
  <2>2. ASSUME NEW p, NEW d, Ways(path, s, p, d)
        PROVE  Ways(path, route.of, p, d)
    BY <1>4, <1>t, <2>2, SameTimes
  <2>3. QED
    BY <2>1, <2>2
<1>7. ShownDays(route, thisDay) # NoRange => saved # NotSaved
  <2>1. SUFFICES ASSUME ShownDays(route, thisDay) # NoRange
                 PROVE  saved # NotSaved
    OBVIOUS
  <2>2. PICK p : Ways(path, route.of, p, thisDay)
    BY <1>1, <2>1, ShownWay
  <2>3. QED
    BY <1>5, <1>6, <2>2
<1>8. ASSUME saved # NotSaved
      PROVE  /\ \A d \in Later :
                  /\ NormalizeView(saved, d) = saved
                  /\ ShownDays(opened, d) = ShownDays(route, d)
                  /\ PeriodLabel(saved) = "fixed" =>
                       ShownDays(opened, d) = ShownDays(opened, thisDay)
                  /\ PeriodLabel(saved) = "rolling" /\ opened.page # "/recap" /\ d # thisDay =>
                       ShownDays(opened, d) # ShownDays(opened, thisDay)
             /\ opened.page = route.page /\ opened.of.workspace = "mine"
             /\ \A k \in ordinary :
                  Unkept(k, route.of[k]) \/ (k \in DOMAIN opened.of /\ opened.of[k] = route.of[k])
             /\ DOMAIN opened.of \subseteq DOMAIN route.of \cup {"workspace"}
  <2>1. PICK p : Ways(path, s, p, thisDay)
    BY <1>5, <1>8
  <2> DEFINE v == ViewWith(path, s, p)
             a == [path |-> path, search |-> v]
  <2>2. saved = a
    BY <1>5, <2>1
  <2>3. opened = ParseRoute(a)
    BY <2>2
  <2> HIDE DEF saved, opened, path
  <2>4. /\ opened = [page |-> path, of |-> opened.of] /\ Searched(opened.of)
        /\ "workspace" \in DOMAIN opened.of /\ opened.of["workspace"] = "mine"
        /\ \A k \in DOMAIN s \ OfPeriod :
             Unkept(k, s[k]) \/ (k \in DOMAIN opened.of /\ opened.of[k] = s[k])
        /\ DOMAIN opened.of \subseteq DOMAIN s
        /\ \A d \in LinkDays : thisDay <= d => Ways(path, opened.of, p, d)
    BY <1>1, <1>3, <1>4, <2>1, <2>3, ViewOpened, SMTT(60)
  <2>5. ViewFits(path, s, p, v)
    BY <1>1, <1>3, <1>4, <2>1, ViewTyped
  <2>6. LinkDays \subseteq Nat /\ thisDay <= thisDay
    BY <1>1, LinkAssumption
  <2> HIDE DEF v
  <2>7. ASSUME NEW d \in LinkDays, thisDay <= d
        PROVE  /\ Ways(path, v, p, d) /\ NormalizeView(a, d) = a
               /\ ShownDays(opened, d) = DaysOf(path, p, d)
               /\ ShownDays(route, d) = DaysOf(path, p, d)
    <3>1. Ways(path, v, p, d) /\ NormalizeView(a, d) = a
      BY <1>1, <1>3, <1>4, <2>1, <2>7, ViewStays DEF v
    <3>2. ShownDays(opened, d) = DaysOf(path, p, d)
      BY <1>4, <2>4, <2>7, WayShown
    <3>3. Ways(path, route.of, p, d)
      <4>1. CASE Rolling(path, s, p) \/ FeedRolling(path, s, p) \/ Timeless(path, s, p)
        BY <1>6, <4>1 DEF Ways
      <4>2. CASE Fixed(path, s, p, thisDay)
        <5>1. /\ {"from", "to"} \subseteq DOMAIN s
              /\ CustomRange(s, thisDay) # NoRange
          BY <1>1, <1>4, <4>2, RangeOrNone DEF Fixed
        <5>2. CustomRange(s, d) # NoRange
          BY <1>1, <1>4, <2>7, <5>1, RangeStays
        <5>3. Fixed(path, s, p, d)
          BY <4>2, <5>2 DEF Fixed
        <5>4. QED
          BY <1>6, <5>3 DEF Ways
      <4>3. CASE FeedFixed(path, s, p, thisDay)
        <5>1. /\ {"from", "to"} \subseteq DOMAIN s
              /\ CustomRange(s, thisDay) # NoRange
          BY <1>1, <1>4, <4>3, RangeOrNone DEF FeedFixed
        <5>2. CustomRange(s, d) # NoRange
          BY <1>1, <1>4, <2>7, <5>1, RangeStays
        <5>3. FeedFixed(path, s, p, d)
          BY <4>3, <5>2 DEF FeedFixed
        <5>4. QED
          BY <1>6, <5>3 DEF Ways
      <4>4. CASE OneWeek(path, s, p, thisDay)
        <5>1. OneWeek(path, v, p, d)
          BY <3>1, <4>4 DEF Ways, OneWeek, Rolling, Fixed, FeedRolling, FeedFixed, Timeless
        <5>2. IsWeek(s["week"], d)
          BY <4>4, <5>1 DEF OneWeek
        <5>3. OneWeek(path, s, p, d)
          BY <4>4, <5>2 DEF OneWeek
        <5>4. QED
          BY <1>6, <5>3 DEF Ways
      <4>5. QED
        BY <2>1, <4>1, <4>2, <4>3, <4>4 DEF Ways
    <3>4. ShownDays(route, d) = DaysOf(path, p, d)
      BY <1>4, <2>7, <3>3, WayShown
    <3>5. QED
      BY <3>1, <3>2, <3>4
  <2>8. ASSUME NEW d \in LinkDays
        PROVE  /\ PeriodLabel(a) = "fixed" => DaysOf(path, p, d) = DaysOf(path, p, thisDay)
               /\ PeriodLabel(a) = "rolling" /\ path # "/recap" /\ d # thisDay =>
                    DaysOf(path, p, d) # DaysOf(path, p, thisDay)
    <3>1. Ways(path, v, p, thisDay) /\ Searched(v) /\ DOMAIN v \cap Timed = DOMAIN p
      BY <1>1, <2>5, <2>6, <2>7 DEF ViewFits
    <3>2. QED
      BY <1>1, <1>4, <3>1, LabelKept
  <2>9. opened.page = path
    BY <2>4
  <2>10. ASSUME NEW d \in Later
         PROVE  /\ NormalizeView(saved, d) = saved
                /\ ShownDays(opened, d) = ShownDays(route, d)
                /\ PeriodLabel(saved) = "fixed" =>
                     ShownDays(opened, d) = ShownDays(opened, thisDay)
                /\ PeriodLabel(saved) = "rolling" /\ opened.page # "/recap" /\ d # thisDay =>
                     ShownDays(opened, d) # ShownDays(opened, thisDay)
    <3>1. d \in LinkDays /\ thisDay <= d
      BY <1>1, <2>6 DEF Later
    <3>2. ShownDays(opened, thisDay) = DaysOf(path, p, thisDay)
      BY <1>1, <2>6, <2>7
    <3>3. ShownDays(opened, d) = DaysOf(path, p, d) /\ ShownDays(route, d) = DaysOf(path, p, d)
          /\ NormalizeView(a, d) = a
      BY <2>7, <3>1
    <3>4. QED
      BY <2>2, <2>8, <2>9, <3>1, <3>2, <3>3
  <2>11. \A k \in ordinary :
           Unkept(k, route.of[k]) \/ (k \in DOMAIN opened.of /\ opened.of[k] = route.of[k])
    BY <1>3, <2>4
  <2>12. DOMAIN opened.of \subseteq DOMAIN route.of \cup {"workspace"}
    BY <1>3, <2>4
  <2>13. QED
    BY <2>4, <2>9, <2>10, <2>11, <2>12 DEF path
<1>9. QED
  BY <1>2, <1>7, <1>8, Zenon DEF LinksSafe, route


-----------------------------------------------------------------------------
(* The addresses that come about. *)

LEMMA AddressTyped ==
  ASSUME NEW r, Routed(r), NEW a, a = RouteHref(r)
  PROVE  a \in [path : PagePaths \cup {"/x"}, search : {a.search}] /\ Searched(a.search)
<1> DEFINE keys == {k \in DOMAIN r.of : Writes(r, k)}
<1>1. a = [path |-> r.page, search |-> [k \in keys |-> r.of[k]]]
  BY DEF RouteHref, Restrict
<1>2. keys \subseteq DOMAIN r.of
  OBVIOUS
<1> HIDE DEF keys
<1>3. Searched([k \in keys |-> r.of[k]])
  BY <1>2 DEF Routed, Searched
<1>4. QED
  BY <1>1, <1>3 DEF Routed

LEMMA LinkStart == LinkInit => LinkInv
<1> SUFFICES ASSUME LinkInit
             PROVE  LinkInv
  OBVIOUS
<1>1. address.search = <<>> /\ address \in [path : PagePaths \cup {"/x"}, search : {address.search}]
  BY DEF LinkInit
<1>2. Searched(<<>>)
  BY DEF Searched
<1>3. QED
  BY <1>1, <1>2 DEF LinkInit, LinkInv

\* Every step leaves an address of the parameters the pages know.
LEMMA LinkStep == LinkInv /\ [LinkNext]_linkVars => LinkInv'
<1> SUFFICES ASSUME LinkInv, [LinkNext]_linkVars
             PROVE  LinkInv'
  OBVIOUS
<1>1. CASE UNCHANGED linkVars
  BY <1>1 DEF LinkInv, linkVars, Searched
<1>2. ASSUME NEW key \in DOMAIN ParamValues, NEW value \in ParamValues[key],
             TypeAddress(key, value)
      PROVE  LinkInv'
  <2> DEFINE t == With(address.search, key, value)
  <2>1. Searched(t)
    BY ParamKeys, WithTyped DEF LinkInv
  <2>2. address' = [address EXCEPT !.search = t] /\ UNCHANGED thisDay
    BY <1>2 DEF TypeAddress
  <2> HIDE DEF t
  <2>3. address' = [path |-> address.path, search |-> t] /\ address.path \in PagePaths \cup {"/x"}
    BY <2>2 DEF LinkInv
  <2>4. address'.search = t /\ address' \in [path : PagePaths \cup {"/x"}, search : {t}]
    BY <2>3
  <2>5. QED
    BY <2>1, <2>2, <2>4 DEF LinkInv, Searched
<1>3. ASSUME NEW path \in PagePaths, TurnTo(path)
      PROVE  LinkInv'
  <2> DEFINE r == ParseRoute(address)
             q == [r EXCEPT !.page = path]
  <2>1. Own(r)
    BY ReadOwn DEF LinkInv
  <2>2. address' = RouteHref(q) /\ UNCHANGED thisDay
    BY <1>3 DEF TurnTo
  <2> HIDE DEF r
  <2>3. Routed(q)
    BY <2>1 DEF Own, Routed
  <2> HIDE DEF q
  <2>4. address' \in [path : PagePaths \cup {"/x"}, search : {address'.search}]
        /\ Searched(address'.search)
    BY <2>2, <2>3, AddressTyped
  <2>5. QED
    BY <2>2, <2>4 DEF LinkInv, Searched
<1>4. CASE OpenSaved
  <2> DEFINE r == ParseRoute(address)
             s == With(r.of, "workspace", "mine")
             saved == NormalizeView(CurrentHref(r), thisDay)
             o == ParseRoute(saved)
  <2>1. Own(r) /\ thisDay \in LinkDays
    BY ReadOwn DEF LinkInv
  <2>2. saved # NotSaved /\ address' = RouteHref(o) /\ UNCHANGED thisDay
    BY <1>4 DEF OpenSaved
  <2> HIDE DEF r
  <2>3. /\ Searched(s) /\ CurrentHref(r) = [path |-> r.page, search |-> s]
        /\ "workspace" \in DOMAIN s /\ s["workspace"] = "mine" /\ r.page \in PagePaths
    <3>1. /\ Own([page |-> r.page, of |-> s]) /\ CurrentHref(r) = [path |-> r.page, search |-> s]
          /\ DOMAIN s = DOMAIN r.of \cup {"workspace"} /\ s["workspace"] = "mine"
      BY <2>1, WorkspaceTold
    <3>2. QED
      BY <2>1, <3>1 DEF Own, Routed
  <2> HIDE DEF s
  <2>4. PICK p : Ways(r.page, s, p, thisDay)
    BY <2>1, <2>2, <2>3, ViewKept
  <2>5. saved = [path |-> r.page, search |-> ViewWith(r.page, s, p)]
    BY <2>1, <2>3, <2>4, ViewKept
  <2>6. Searched(saved.search)
    <3>1. ViewFits(r.page, s, p, ViewWith(r.page, s, p))
      BY <2>1, <2>3, <2>4, ViewTyped
    <3>2. QED
      BY <2>5, <3>1 DEF ViewFits
  <2> HIDE DEF saved
  <2>7. Routed(o)
    BY <2>6, ReadOwn DEF Own
  <2> HIDE DEF o
  <2>8. address' \in [path : PagePaths \cup {"/x"}, search : {address'.search}]
        /\ Searched(address'.search)
    BY <2>2, <2>7, AddressTyped
  <2>9. QED
    BY <2>2, <2>8 DEF LinkInv, Searched
<1>5. CASE NextDay
  BY <1>5 DEF NextDay, LinkInv, Searched
<1>6. QED
  BY <1>1, <1>2, <1>3, <1>4, <1>5 DEF LinkNext

\* The address always has the parameters the pages know, with values they may have.
LEMMA LinkInvariance == LinkSpec => []LinkInv
BY LinkStart, LinkStep, PTL DEF LinkSpec

LEMMA LinkInvTyped == LinkInv => LinkTypeOK
BY DEF LinkInv, Searched, LinkTypeOK

-----------------------------------------------------------------------------
(* Saved views (SavedViews). *)

Panes == [open : BOOLEAN, list : {"none", "whole", "old"}, busy : BOOLEAN, error : BOOLEAN]

ChangeSteps ==
  {"sent", "found", "allowed", "counted", "stored", "input", "failed", "listed"}

ViewChanges ==
  [step : ChangeSteps, kind : Kinds, id : 0 .. MaxViews, href : ViewSpace, heard : BOOLEAN]

ViewsTyped ==
  /\ views \in [ViewId -> ViewSpace \cup {NoSpaceYet}] /\ made \in 0 .. MaxViews
  /\ may \in {"see", "sign in", "nothing"} /\ ownerRow \in Dialog \cup {NoDialog}
  /\ dialog \in [Dialog -> Panes]
  /\ change \in [Dialog -> ViewChanges \cup {NoChange}]
  /\ load \in [Dialog -> {"none", "asked", "read", "superseded"}]

\* Who has counted holds the person's row, and there is room for one more view.
TableFits ==
  /\ Cardinality(Saved) <= ViewCap
  /\ \A d \in Dialog : change[d].step = "counted" =>
       ownerRow = d /\ Cardinality(Saved) < ViewCap

Waiting(c) == c # NoChange /\ c.heard

\* A dialog is busy exactly while it waits for its change; a list that its change has
\* overtaken is on show only until that is answered; and without a list it says why, or
\* asks for one.
PaneFits(x, c, l) ==
  /\ x.busy <=> Waiting(c)
  /\ x.list = "old" => c.step \in {"stored", "listed"} /\ Waiting(c)
  /\ x.open /\ ~x.busy /\ x.list = "none" /\ ~x.error => l \in {"asked", "read"}

SavedInv ==
  /\ ViewsTyped
  /\ TableFits
  /\ \A d \in Dialog : PaneFits(dialog[d], change[d], load[d])

LEMMA SavedFinite == IsFiniteSet(Saved) /\ Cardinality(Saved) \in Nat
<1>1. IsFiniteSet(ViewId)
  BY SavedViewAssumption, FS_Interval DEF ViewId
<1>2. QED
  BY <1>1, FS_Subset, FS_CardinalityType DEF Saved

\* A dialog, its change and its load become x, c and l.
LEMMA OneDialogMoves ==
  ASSUME SavedInv, NEW d \in Dialog, NEW x \in Panes, NEW c \in ViewChanges \cup {NoChange},
         NEW l \in {"none", "asked", "read", "superseded"},
         dialog' = [dialog EXCEPT ![d] = x], change' = [change EXCEPT ![d] = c],
         load' = [load EXCEPT ![d] = l], PaneFits(x, c, l)
  PROVE  /\ dialog' \in [Dialog -> Panes]
         /\ change' \in [Dialog -> ViewChanges \cup {NoChange}]
         /\ load' \in [Dialog -> {"none", "asked", "read", "superseded"}]
         /\ \A e \in Dialog : PaneFits(dialog'[e], change'[e], load'[e])
         /\ change'[d] = c /\ \A e \in Dialog \ {d} : change'[e] = change[e]
<1>1. /\ dialog \in [Dialog -> Panes]
      /\ change \in [Dialog -> ViewChanges \cup {NoChange}]
      /\ load \in [Dialog -> {"none", "asked", "read", "superseded"}]
      /\ \A e \in Dialog : PaneFits(dialog[e], change[e], load[e])
  BY DEF SavedInv, ViewsTyped
<1>2. /\ dialog' \in [Dialog -> Panes]
      /\ change' \in [Dialog -> ViewChanges \cup {NoChange}]
      /\ load' \in [Dialog -> {"none", "asked", "read", "superseded"}]
      /\ dialog'[d] = x /\ change'[d] = c /\ load'[d] = l
      /\ \A e \in Dialog \ {d} :
           dialog'[e] = dialog[e] /\ change'[e] = change[e] /\ load'[e] = load[e]
  BY <1>1
<1>3. QED
  BY <1>1, <1>2

\* While the table stays as it is.
LEMMA TableStays ==
  ASSUME SavedInv, NEW d \in Dialog, NEW x \in Panes, NEW c \in ViewChanges \cup {NoChange},
         NEW l \in {"none", "asked", "read", "superseded"},
         dialog' = [dialog EXCEPT ![d] = x], change' = [change EXCEPT ![d] = c],
         load' = [load EXCEPT ![d] = l], PaneFits(x, c, l),
         UNCHANGED <<views, made, may, ownerRow>>,
         c.step = "counted" => change[d].step = "counted"
  PROVE  SavedInv'
<1>1. /\ dialog' \in [Dialog -> Panes]
      /\ change' \in [Dialog -> ViewChanges \cup {NoChange}]
      /\ load' \in [Dialog -> {"none", "asked", "read", "superseded"}]
      /\ \A e \in Dialog : PaneFits(dialog'[e], change'[e], load'[e])
      /\ change'[d] = c /\ \A e \in Dialog \ {d} : change'[e] = change[e]
  BY OneDialogMoves, ZenonT(60)
<1>2. Saved' = Saved
  BY DEF Saved
<1>3. TableFits'
  BY <1>1, <1>2 DEF SavedInv, TableFits
<1>4. QED
  BY <1>1, <1>3 DEF SavedInv, ViewsTyped, PaneFits

LEMMA SavedStart == SavedInit => SavedInv
<1> SUFFICES ASSUME SavedInit PROVE SavedInv
  OBVIOUS
<1>1. ViewsTyped
  BY SavedViewAssumption DEF SavedInit, ViewsTyped, Panes, Closed
<1>2. Saved = {}
  BY DEF SavedInit, Saved
<1>3. TableFits
  BY <1>2, FS_EmptySet, SavedViewAssumption DEF TableFits, SavedInit, NoChange
<1>4. QED
  BY <1>1, <1>3 DEF SavedInv, SavedInit, PaneFits, Waiting, Closed

\* What a dialog, its change and its load are.
LEMMA PaneTyped ==
  ASSUME SavedInv, NEW d \in Dialog
  PROVE  /\ dialog[d] \in Panes /\ change[d] \in ViewChanges \cup {NoChange}
         /\ load[d] \in {"none", "asked", "read", "superseded"}
         /\ PaneFits(dialog[d], change[d], load[d])
         /\ dialog = [dialog EXCEPT ![d] = dialog[d]]
         /\ change = [change EXCEPT ![d] = change[d]]
         /\ load = [load EXCEPT ![d] = load[d]]
BY DEF SavedInv, ViewsTyped

LEMMA StepsSaid ==
  ASSUME NEW c \in ViewChanges \cup {NoChange}, c.step # "none"
  PROVE  c \in ViewChanges /\ c # NoChange
BY DEF NoChange

\* Acts of the dialog.
LEMMA DialogSteps ==
  ASSUME SavedInv, NEW d \in Dialog,
         \/ OpenDialog(d) \/ CloseDialog(d) \/ RetryLoad(d) \/ ReadViews(d) \/ ShowViews(d)
         \/ LoadFails(d) \/ RefuseHere(d)
         \/ \E kind \in Kinds, id \in 0 .. MaxViews, href \in ViewSpace :
              ChangeView(d, kind, id, href)
  PROVE  SavedInv'
<1>1. PICK x \in Panes : x = dialog[d]
  BY PaneTyped
<1>2. PICK c \in ViewChanges \cup {NoChange} : c = change[d]
  BY PaneTyped
<1>3. PICK l \in {"none", "asked", "read", "superseded"} : l = load[d]
  BY PaneTyped
<1>4. PaneFits(x, c, l) /\ x \in Panes
  BY <1>1, <1>2, <1>3, PaneTyped
<1>5. /\ dialog \in [Dialog -> Panes]
      /\ dialog = [dialog EXCEPT ![d] = x]
      /\ change = [change EXCEPT ![d] = c]
      /\ load = [load EXCEPT ![d] = l]
  BY <1>1, <1>2, <1>3, PaneTyped DEF SavedInv, ViewsTyped
<1>6. CASE OpenDialog(d)
  <2> DEFINE y == [Closed EXCEPT !.open = TRUE]
  <2>1. y \in Panes /\ PaneFits(y, c, "asked")
    BY <1>2, <1>6 DEF OpenDialog, Closed, Panes, PaneFits, Waiting
  <2>2. dialog' = [dialog EXCEPT ![d] = y] /\ load' = [load EXCEPT ![d] = "asked"]
        /\ change' = [change EXCEPT ![d] = c] /\ UNCHANGED <<views, made, may, ownerRow>>
    BY <1>5, <1>6 DEF OpenDialog, Loading, viewTable
  <2> HIDE DEF y
  <2>3. QED
    BY <1>2, <2>1, <2>2, TableStays, ZenonT(60)
<1>7. CASE CloseDialog(d)
  <2> DEFINE e == IF c = NoChange THEN c ELSE [c EXCEPT !.heard = FALSE]
  <2>1. e \in ViewChanges \cup {NoChange} /\ e.step = c.step /\ ~Waiting(e)
    BY DEF ViewChanges, Waiting
  <2>2. Closed \in Panes /\ PaneFits(Closed, e, "none")
    BY <2>1 DEF Closed, Panes, PaneFits
  <2>3. dialog' = [dialog EXCEPT ![d] = Closed] /\ load' = [load EXCEPT ![d] = "none"]
        /\ change' = [change EXCEPT ![d] = e] /\ UNCHANGED <<views, made, may, ownerRow>>
    BY <1>2, <1>7 DEF CloseDialog, viewTable
  <2> HIDE DEF e
  <2>4. QED
    BY <1>2, <2>1, <2>2, <2>3, TableStays, ZenonT(60)
<1>8. CASE RetryLoad(d)
  <2> DEFINE y == [x EXCEPT !.list = "none", !.error = FALSE]
  <2>1. y \in Panes /\ PaneFits(y, c, "asked")
    BY <1>4 DEF Panes, PaneFits
  <2>2. dialog' = [dialog EXCEPT ![d] = y] /\ load' = [load EXCEPT ![d] = "asked"]
        /\ change' = [change EXCEPT ![d] = c] /\ UNCHANGED <<views, made, may, ownerRow>>
    BY <1>1, <1>5, <1>8 DEF RetryLoad, Loading, viewTable
  <2> HIDE DEF y
  <2>3. QED
    BY <1>2, <2>1, <2>2, TableStays, ZenonT(60)
<1>9. CASE ReadViews(d)
  <2>1. PaneFits(x, c, "read")
    BY <1>4 DEF PaneFits
  <2>2. dialog' = [dialog EXCEPT ![d] = x] /\ load' = [load EXCEPT ![d] = "read"]
        /\ change' = [change EXCEPT ![d] = c] /\ UNCHANGED <<views, made, may, ownerRow>>
    BY <1>5, <1>9 DEF ReadViews, viewTable
  <2>3. QED
    BY <1>2, <2>1, <2>2, TableStays, ZenonT(60)
<1>10. CASE ShowViews(d)
  <2> DEFINE y == IF l = "read" THEN [x EXCEPT !.list = "whole"] ELSE x
  <2>1. y \in Panes /\ PaneFits(y, c, "none")
    BY <1>3, <1>4, <1>10 DEF Panes, PaneFits, ShowViews
  <2>2. dialog' = [dialog EXCEPT ![d] = y] /\ load' = [load EXCEPT ![d] = "none"]
        /\ change' = [change EXCEPT ![d] = c] /\ UNCHANGED <<views, made, may, ownerRow>>
    BY <1>1, <1>3, <1>5, <1>10 DEF ShowViews, ShownList, viewTable
  <2> HIDE DEF y
  <2>3. QED
    BY <1>2, <2>1, <2>2, TableStays, ZenonT(60)
<1>11. CASE LoadFails(d)
  <2> DEFINE y == [x EXCEPT !.error = TRUE]
  <2>1. y \in Panes /\ PaneFits(y, c, "none")
    BY <1>4 DEF Panes, PaneFits
  <2>2. dialog' = [dialog EXCEPT ![d] = y] /\ load' = [load EXCEPT ![d] = "none"]
        /\ change' = [change EXCEPT ![d] = c] /\ UNCHANGED <<views, made, may, ownerRow>>
    BY <1>1, <1>5, <1>11 DEF LoadFails, viewTable
  <2> HIDE DEF y
  <2>3. QED
    BY <1>2, <2>1, <2>2, TableStays, ZenonT(60)
<1>12. PICK m \in {"none", "superseded"} : Superseded(d) = [load EXCEPT ![d] = m]
  BY <1>3 DEF Superseded
<1>13. CASE RefuseHere(d)
  <2> DEFINE y == [x EXCEPT !.error = TRUE]
  <2>1. y \in Panes /\ PaneFits(y, c, m)
    BY <1>4 DEF Panes, PaneFits
  <2>2. dialog' = [dialog EXCEPT ![d] = y] /\ load' = [load EXCEPT ![d] = m]
        /\ change' = [change EXCEPT ![d] = c] /\ UNCHANGED <<views, made, may, ownerRow>>
    BY <1>1, <1>5, <1>12, <1>13 DEF RefuseHere, viewTable
  <2> HIDE DEF y
  <2>3. m \in {"none", "asked", "read", "superseded"}
    BY <1>12
  <2>4. QED
    BY <1>2, <2>1, <2>2, <2>3, TableStays, ZenonT(60)
<1>14. ASSUME NEW kind \in Kinds, NEW id \in 0 .. MaxViews, NEW href \in ViewSpace,
              ChangeView(d, kind, id, href)
       PROVE  SavedInv'
  <2> DEFINE y == [x EXCEPT !.busy = TRUE, !.error = FALSE]
             e == [step |-> "sent", kind |-> kind, id |-> id, href |-> href, heard |-> TRUE]
  <2>0. x.list # "old"
    BY <1>1, <1>2, <1>4, <1>14 DEF ChangeView, PaneFits, Waiting
  <2>1. e \in ViewChanges /\ Waiting(e) /\ e.step # "counted"
    BY DEF ViewChanges, ChangeSteps, Waiting, NoChange
  <2>2. y \in Panes /\ y.busy /\ y.list # "old"
    BY <2>0 DEF Panes
  <2>3. dialog' = [dialog EXCEPT ![d] = y] /\ load' = [load EXCEPT ![d] = m]
        /\ change' = [change EXCEPT ![d] = e] /\ UNCHANGED <<views, made, may, ownerRow>>
    BY <1>1, <1>5, <1>12, <1>14 DEF ChangeView, viewTable
  <2> HIDE DEF y, e
  <2>4. PaneFits(y, e, m)
    BY <2>1, <2>2 DEF PaneFits
  <2>5. QED
    BY <1>2, <1>12, <2>1, <2>2, <2>3, <2>4, TableStays, ZenonT(60)
<1>15. QED
  BY <1>6, <1>7, <1>8, <1>9, <1>10, <1>11, <1>13, <1>14

\* The change of a dialog goes on to another step, or its answer is shown, while the table
\* stays.
LEMMA ChangeSettles ==
  ASSUME SavedInv, NEW d \in Dialog,
         \/ Find(d) \/ Allow(d) \/ Forget(d) \/ ReadAfter(d)
         \/ ShowChanged(d) \/ ChangeRefused(d) \/ ChangeFails(d)
  PROVE  SavedInv'
<1>1. PICK x \in Panes : x = dialog[d]
  BY PaneTyped
<1>2. PICK c \in ViewChanges \cup {NoChange} : c = change[d]
  BY PaneTyped
<1>3. PICK l \in {"none", "asked", "read", "superseded"} : l = load[d]
  BY PaneTyped
<1>4. PaneFits(x, c, l)
  BY <1>1, <1>2, <1>3, PaneTyped
<1>5. /\ dialog = [dialog EXCEPT ![d] = x]
      /\ change = [change EXCEPT ![d] = c]
      /\ load = [load EXCEPT ![d] = l]
      /\ change \in [Dialog -> ViewChanges \cup {NoChange}]
      /\ dialog \in [Dialog -> Panes]
  BY <1>1, <1>2, <1>3, PaneTyped DEF SavedInv, ViewsTyped
<1>6. c \in ViewChanges /\ c # NoChange
  BY <1>2, StepsSaid
     DEF Find, Allow, Forget, ReadAfter, ShowChanged, ChangeRefused, ChangeFails, NoChange
<1>7. ASSUME NEW s \in ChangeSteps \ {"counted"}, NEW h \in ViewSpace,
             change' = [change EXCEPT ![d] = [c EXCEPT !.step = s, !.href = h]],
             x.list = "old" => s \in {"stored", "listed"},
             UNCHANGED <<dialog, load, views, made, may, ownerRow>>
      PROVE  SavedInv'
  <2> DEFINE e == [c EXCEPT !.step = s, !.href = h]
  <2>1. e \in ViewChanges /\ e # NoChange /\ e.heard = c.heard /\ e.step = s
    BY <1>6, <1>7 DEF ViewChanges, NoChange
  <2>2. change' = [change EXCEPT ![d] = e]
    BY <1>7
  <2> HIDE DEF e
  <2>3. PaneFits(x, e, l)
    BY <1>4, <1>6, <1>7, <2>1 DEF PaneFits, Waiting
  <2>4. dialog' = [dialog EXCEPT ![d] = x] /\ load' = [load EXCEPT ![d] = l]
    BY <1>5, <1>7
  <2>5. e \in ViewChanges \cup {NoChange} /\ e.step # "counted"
        /\ UNCHANGED <<views, made, may, ownerRow>>
    BY <1>7, <2>1
  <2>6. QED
    BY <2>2, <2>3, <2>4, <2>5, TableStays, ZenonT(60)
<1>8. ASSUME NEW s \in ChangeSteps \ {"counted"}, change' = To(d, s),
             x.list = "old" => s \in {"stored", "listed"},
             UNCHANGED <<dialog, load, views, made, may, ownerRow>>
      PROVE  SavedInv'
  <2>1. c.href \in ViewSpace /\ [c EXCEPT !.step = s] = [c EXCEPT !.step = s, !.href = c.href]
    BY <1>6 DEF ViewChanges
  <2>2. change' = [change EXCEPT ![d] = [c EXCEPT !.step = s]]
    BY <1>2, <1>5, <1>8 DEF To
  <2>3. QED
    BY <1>7, <1>8, <2>1, <2>2, ZenonT(60)
<1>9. x.list = "old" => c.step \in {"stored", "listed"}
  BY <1>4 DEF PaneFits
<1>10. CASE Find(d)
  <2>1. c.step = "sent" /\ x.list # "old" /\ UNCHANGED <<dialog, load, views, made, may, ownerRow>>
    BY <1>2, <1>9, <1>10 DEF Find, viewTable, viewPage
  <2>2. CASE change' = To(d, "failed")
    BY <1>8, <2>1, <2>2 DEF ChangeSteps
  <2>3. CASE ~(~SignedOn \/ (c.kind # "create" /\ c.id \notin Saved))
    <3>1. PICK h \in {c.href} \cup IF c.kind = "update" THEN {views[c.id]} ELSE {} :
            change' = [To(d, "found") EXCEPT ![d].href = h]
      BY <1>2, <1>10, <2>3 DEF Find
    <3>2. h \in ViewSpace
      BY <1>6, <2>3, <3>1 DEF ViewChanges, Saved, SavedInv, ViewsTyped
    <3>3. change' = [change EXCEPT ![d] = [c EXCEPT !.step = "found", !.href = h]]
      BY <1>2, <1>5, <3>1 DEF To
    <3>4. QED
      BY <1>7, <2>1, <3>2, <3>3 DEF ChangeSteps
  <2>4. QED
    BY <1>2, <1>10, <2>2, <2>3 DEF Find
<1>11. CASE Allow(d)
  <2>1. c.step = "found" /\ x.list # "old" /\ UNCHANGED <<dialog, load, views, made, may, ownerRow>>
    BY <1>2, <1>9, <1>11 DEF Allow, viewTable, viewPage
  <2>2. change' = To(d, "failed") \/ change' = To(d, "allowed")
    BY <1>11 DEF Allow
  <2>3. QED
    BY <1>8, <2>1, <2>2 DEF ChangeSteps
<1>12. CASE Forget(d)
  <2>1. ~c.heard /\ change' = [change EXCEPT ![d] = NoChange]
        /\ UNCHANGED <<dialog, load, views, made, may, ownerRow>>
    BY <1>2, <1>12 DEF Forget, viewTable, viewPage
  <2>2. PaneFits(x, NoChange, l)
    BY <1>4, <2>1 DEF PaneFits, Waiting
  <2>3. NoChange.step # "counted" /\ dialog' = [dialog EXCEPT ![d] = x]
        /\ load' = [load EXCEPT ![d] = l]
    BY <1>5, <2>1 DEF NoChange
  <2>4. /\ NoChange \in ViewChanges \cup {NoChange}
        /\ change' = [change EXCEPT ![d] = NoChange] /\ UNCHANGED <<views, made, may, ownerRow>>
    BY <2>1
  <2>5. QED
    BY <2>2, <2>3, <2>4, TableStays, ZenonT(60)
<1>13. CASE ReadAfter(d)
  BY <1>8, <1>13 DEF ReadAfter, viewTable, viewPage, ChangeSteps
<1>14. CASE ShowChanged(d)
  <2> DEFINE y == [x EXCEPT !.list = "whole", !.busy = FALSE]
  <2>1. y \in Panes /\ PaneFits(y, NoChange, l)
    BY DEF Panes, PaneFits, Waiting
  <2>2. dialog' = [dialog EXCEPT ![d] = y] /\ load' = [load EXCEPT ![d] = l]
        /\ change' = [change EXCEPT ![d] = NoChange] /\ UNCHANGED <<views, made, may, ownerRow>>
    BY <1>1, <1>5, <1>14 DEF ShowChanged, viewTable
  <2> HIDE DEF y
  <2>3. QED
    BY <2>1, <2>2, TableStays, ZenonT(60) DEF NoChange
<1>15. CASE ChangeRefused(d)
  <2> DEFINE y == [x EXCEPT !.error = TRUE, !.busy = FALSE]
  <2>1. x.list # "old"
    BY <1>2, <1>9, <1>15 DEF ChangeRefused
  <2>2. y \in Panes /\ PaneFits(y, NoChange, l)
    BY <2>1 DEF Panes, PaneFits, Waiting
  <2>3. dialog' = [dialog EXCEPT ![d] = y] /\ load' = [load EXCEPT ![d] = l]
        /\ change' = [change EXCEPT ![d] = NoChange] /\ UNCHANGED <<views, made, may, ownerRow>>
    BY <1>1, <1>5, <1>15 DEF ChangeRefused, viewTable
  <2> HIDE DEF y
  <2>4. QED
    BY <2>2, <2>3, TableStays, ZenonT(60) DEF NoChange
<1>16. CASE ChangeFails(d)
  <2> DEFINE y == [x EXCEPT !.list = "none", !.error = TRUE, !.busy = FALSE]
             e == [c EXCEPT !.heard = FALSE]
  <2>1. e \in ViewChanges /\ e.step = c.step /\ ~Waiting(e)
    BY <1>6 DEF ViewChanges, Waiting
  <2>2. y \in Panes /\ PaneFits(y, e, l)
    BY <2>1 DEF Panes, PaneFits
  <2>3. dialog' = [dialog EXCEPT ![d] = y] /\ load' = [load EXCEPT ![d] = l]
        /\ change' = [change EXCEPT ![d] = e] /\ UNCHANGED <<views, made, may, ownerRow>>
    BY <1>1, <1>2, <1>5, <1>16 DEF ChangeFails, viewTable
  <2> HIDE DEF y, e
  <2>4. QED
    BY <1>2, <2>1, <2>2, <2>3, TableStays, ZenonT(60)
<1>17. QED
  BY <1>10, <1>11, <1>12, <1>13, <1>14, <1>15, <1>16

\* The table is counted and written.
LEMMA TableSteps ==
  ASSUME SavedInv, NEW d \in Dialog,
         CountViews(d) \/ InsertView(d) \/ InsertFails(d) \/ WriteView(d)
  PROVE  SavedInv'
<1>1. PICK x \in Panes : x = dialog[d]
  BY PaneTyped
<1>2. PICK c \in ViewChanges \cup {NoChange} : c = change[d]
  BY PaneTyped
<1>3. PICK l \in {"none", "asked", "read", "superseded"} : l = load[d]
  BY PaneTyped
<1>4. PaneFits(x, c, l)
  BY <1>1, <1>2, <1>3, PaneTyped
<1>5. /\ dialog = [dialog EXCEPT ![d] = x]
      /\ change = [change EXCEPT ![d] = c]
      /\ load = [load EXCEPT ![d] = l]
      /\ change \in [Dialog -> ViewChanges \cup {NoChange}]
      /\ dialog \in [Dialog -> Panes]
  BY <1>1, <1>2, <1>3, PaneTyped DEF SavedInv, ViewsTyped
<1>6. c \in ViewChanges /\ c # NoChange /\ c.step \in {"allowed", "counted"} /\ x.list # "old"
  BY <1>2, <1>4, StepsSaid DEF CountViews, InsertView, InsertFails, WriteView, PaneFits
<1>7. /\ Cardinality(Saved) <= ViewCap
      /\ \A e \in Dialog : change[e].step = "counted" =>
           ownerRow = e /\ Cardinality(Saved) < ViewCap
  BY DEF SavedInv, TableFits
\* One step of the change, after which the list is another, perhaps.
<1>8. ASSUME NEW s \in ChangeSteps, change' = To(d, s),
             dialog' = dialog \/ (s = "stored" /\ NoLongerWhole(d)), load' = load
      PROVE  /\ dialog' \in [Dialog -> Panes]
             /\ change' \in [Dialog -> ViewChanges \cup {NoChange}]
             /\ load' \in [Dialog -> {"none", "asked", "read", "superseded"}]
             /\ \A e \in Dialog : PaneFits(dialog'[e], change'[e], load'[e])
             /\ change'[d].step = s /\ \A e \in Dialog \ {d} : change'[e] = change[e]
  <2> DEFINE f == [c EXCEPT !.step = s]
  <2>1. f \in ViewChanges /\ f # NoChange /\ f.heard = c.heard /\ f.step = s
    BY <1>6 DEF ViewChanges, NoChange
  <2>2. change' = [change EXCEPT ![d] = f]
    BY <1>2, <1>5, <1>8 DEF To
  <2> HIDE DEF f
  <2>3. PICK y \in Panes : /\ dialog' = [dialog EXCEPT ![d] = y]
                           /\ PaneFits(y, f, l)
    <3>1. CASE dialog' = dialog
      BY <1>4, <1>5, <1>6, <2>1, <3>1 DEF PaneFits, Waiting
    <3>2. CASE s = "stored" /\ NoLongerWhole(d) /\ c.heard /\ x.list # "none"
      <4> DEFINE y == [x EXCEPT !.list = "old"]
      <4>1. y \in Panes /\ PaneFits(y, f, l)
        BY <1>4, <1>6, <2>1, <3>2 DEF Panes, PaneFits, Waiting
      <4>2. dialog' = [dialog EXCEPT ![d] = y]
        BY <1>1, <1>2, <1>5, <3>2 DEF NoLongerWhole
      <4> HIDE DEF y
      <4>3. QED
        BY <4>1, <4>2
    <3>3. QED
      BY <1>1, <1>2, <1>8, <3>1, <3>2 DEF NoLongerWhole
  <2>4. load' = [load EXCEPT ![d] = l]
    BY <1>5, <1>8
  <2>5. /\ dialog' \in [Dialog -> Panes]
        /\ change' \in [Dialog -> ViewChanges \cup {NoChange}]
        /\ load' \in [Dialog -> {"none", "asked", "read", "superseded"}]
        /\ \A e \in Dialog : PaneFits(dialog'[e], change'[e], load'[e])
        /\ change'[d] = f /\ \A e \in Dialog \ {d} : change'[e] = change[e]
    BY <2>1, <2>2, <2>3, <2>4, OneDialogMoves, ZenonT(60)
  <2>6. QED
    BY <2>1, <2>5
<1>9. CASE CountViews(d)
  <2>1. UNCHANGED <<views, made, may, dialog, load>> /\ Saved' = Saved /\ ownerRow = NoDialog
    BY <1>9 DEF CountViews, viewPage, Saved
  <2>2. \A e \in Dialog : change[e].step # "counted"
    BY <1>7, <2>1, SavedViewAssumption
  <2>3. CASE change' = To(d, "input") /\ UNCHANGED ownerRow
    <3>1. /\ dialog' \in [Dialog -> Panes]
          /\ change' \in [Dialog -> ViewChanges \cup {NoChange}]
          /\ load' \in [Dialog -> {"none", "asked", "read", "superseded"}]
          /\ \A e \in Dialog : PaneFits(dialog'[e], change'[e], load'[e])
          /\ change'[d].step = "input" /\ \A e \in Dialog \ {d} : change'[e] = change[e]
      BY <1>8, <2>1, <2>3 DEF ChangeSteps
    <3>2. QED
      BY <1>7, <2>1, <2>2, <2>3, <3>1 DEF SavedInv, ViewsTyped, TableFits, PaneFits
  <2>4. CASE ~(Cardinality(Saved) >= ViewCap) /\ change' = To(d, "counted") /\ ownerRow' = d
    <3>1. /\ dialog' \in [Dialog -> Panes]
          /\ change' \in [Dialog -> ViewChanges \cup {NoChange}]
          /\ load' \in [Dialog -> {"none", "asked", "read", "superseded"}]
          /\ \A e \in Dialog : PaneFits(dialog'[e], change'[e], load'[e])
          /\ change'[d].step = "counted" /\ \A e \in Dialog \ {d} : change'[e] = change[e]
      BY <1>8, <2>1, <2>4 DEF ChangeSteps
    <3>2. Cardinality(Saved) < ViewCap
      BY <2>4, SavedFinite, SavedViewAssumption
    <3>3. TableFits'
      BY <1>7, <2>1, <2>2, <2>4, <3>1, <3>2 DEF TableFits
    <3>4. QED
      BY <2>1, <2>4, <3>1, <3>3 DEF SavedInv, ViewsTyped, PaneFits
  <2>5. QED
    BY <1>9, <2>3, <2>4 DEF CountViews
<1>10. CASE InsertView(d)
  <2>1. change' = To(d, "stored") /\ NoLongerWhole(d) /\ load' = load /\ UNCHANGED may
        /\ made' = made + 1 /\ made < MaxViews /\ ownerRow' = NoDialog
        /\ views' = [views EXCEPT ![made + 1] = c.href] /\ c.step = "counted"
    BY <1>2, <1>10 DEF InsertView
  <2>2. /\ dialog' \in [Dialog -> Panes]
        /\ change' \in [Dialog -> ViewChanges \cup {NoChange}]
        /\ load' \in [Dialog -> {"none", "asked", "read", "superseded"}]
        /\ \A e \in Dialog : PaneFits(dialog'[e], change'[e], load'[e])
        /\ change'[d].step = "stored" /\ \A e \in Dialog \ {d} : change'[e] = change[e]
    BY <1>8, <2>1 DEF ChangeSteps
  <2>3. made + 1 \in ViewId /\ made' \in 0 .. MaxViews
        /\ views' \in [ViewId -> ViewSpace \cup {NoSpaceYet}]
    <3>0. made \in 0 .. MaxViews /\ made < MaxViews /\ MaxViews \in Nat
      BY <2>1, SavedViewAssumption DEF SavedInv, ViewsTyped
    <3>1. made + 1 \in 1 .. MaxViews /\ made + 1 \in 0 .. MaxViews
      BY <3>0
    <3>2. c.href \in ViewSpace
      BY <1>6 DEF ViewChanges
    <3>3. QED
      BY <2>1, <3>1, <3>2 DEF SavedInv, ViewsTyped, ViewId
  <2>4. Saved' \subseteq Saved \cup {made + 1}
    BY <2>1, <2>3 DEF Saved, SavedInv, ViewsTyped
  <2>5. Cardinality(Saved') <= ViewCap
    <3>1. IsFiniteSet(Saved \cup {made + 1}) /\ Cardinality(Saved \cup {made + 1}) <= Cardinality(Saved) + 1
          /\ Cardinality(Saved \cup {made + 1}) \in Nat
      BY SavedFinite, FS_AddElement, FS_CardinalityType
    <3>2. Cardinality(Saved') <= Cardinality(Saved \cup {made + 1}) /\ Cardinality(Saved') \in Nat
      BY <2>4, <3>1, FS_Subset, FS_CardinalityType
    <3>3. Cardinality(Saved) < ViewCap
      BY <1>2, <1>7, <2>1
    <3> DEFINE A == Cardinality(Saved') B == Cardinality(Saved \cup {made + 1}) C == Cardinality(Saved)
    <3>4. A <= B /\ B <= C + 1 /\ C < ViewCap /\ A \in Nat /\ B \in Nat /\ C \in Nat /\ ViewCap \in Nat
      BY <3>1, <3>2, <3>3, SavedFinite, SavedViewAssumption
    <3> HIDE DEF A, B, C
    <3>5. A <= ViewCap
      BY <3>4
    <3>6. QED
      BY <3>5 DEF A
  <2>6. \A e \in Dialog : change'[e].step # "counted"
    BY <1>2, <1>7, <2>1, <2>2
  <2>7. TableFits'
    BY <2>5, <2>6 DEF TableFits
  <2>8. QED
    BY <2>1, <2>2, <2>3, <2>7 DEF SavedInv, ViewsTyped, PaneFits
<1>11. CASE InsertFails(d)
  <2>1. change' = To(d, "failed") /\ ownerRow' = NoDialog
        /\ UNCHANGED <<views, made, may, dialog, load>> /\ c.step = "counted" /\ Saved' = Saved
    BY <1>2, <1>11 DEF InsertFails, viewPage, Saved
  <2>2. /\ dialog' \in [Dialog -> Panes]
        /\ change' \in [Dialog -> ViewChanges \cup {NoChange}]
        /\ load' \in [Dialog -> {"none", "asked", "read", "superseded"}]
        /\ \A e \in Dialog : PaneFits(dialog'[e], change'[e], load'[e])
        /\ change'[d].step = "failed" /\ \A e \in Dialog \ {d} : change'[e] = change[e]
    BY <1>8, <2>1 DEF ChangeSteps
  <2>3. \A e \in Dialog : change'[e].step # "counted"
    BY <1>2, <1>7, <2>1, <2>2
  <2>4. TableFits'
    BY <1>7, <2>1, <2>3 DEF TableFits
  <2>5. QED
    BY <2>1, <2>2, <2>4 DEF SavedInv, ViewsTyped, PaneFits
<1>12. CASE WriteView(d)
  <2>1. UNCHANGED <<made, ownerRow, may, load>> /\ c.step = "allowed"
    BY <1>2, <1>12 DEF WriteView
  <2>2. /\ \/ change' = To(d, "stored") /\ (dialog' = dialog \/ NoLongerWhole(d))
           \/ change' = To(d, "failed") /\ dialog' = dialog
        /\ views' \in [ViewId -> ViewSpace \cup {NoSpaceYet}] /\ Saved' \subseteq Saved
    <3>1. CASE c.id \in Saved
      <4> DEFINE v == IF c.kind = "delete" THEN NoSpaceYet ELSE c.href
      <4>1. v \in ViewSpace \cup {NoSpaceYet}
        BY <1>6 DEF ViewChanges
      <4>2. views' = [views EXCEPT ![c.id] = v] /\ change' = To(d, "stored") /\ NoLongerWhole(d)
        BY <1>2, <1>12, <3>1 DEF WriteView
      <4> HIDE DEF v
      <4>3. QED
        BY <3>1, <4>1, <4>2 DEF Saved, SavedInv, ViewsTyped
    <3>2. CASE c.id \notin Saved
      BY <1>2, <1>12, <3>2 DEF WriteView, Saved, SavedInv, ViewsTyped
    <3>3. QED
      BY <3>1, <3>2
  <2>3. PICK s \in {"stored", "failed"} :
          change' = To(d, s) /\ (dialog' = dialog \/ (s = "stored" /\ NoLongerWhole(d)))
    BY <2>2
  <2>4. /\ dialog' \in [Dialog -> Panes]
        /\ change' \in [Dialog -> ViewChanges \cup {NoChange}]
        /\ load' \in [Dialog -> {"none", "asked", "read", "superseded"}]
        /\ \A e \in Dialog : PaneFits(dialog'[e], change'[e], load'[e])
        /\ change'[d].step = s /\ \A e \in Dialog \ {d} : change'[e] = change[e]
    BY <1>8, <2>1, <2>3 DEF ChangeSteps
  <2>5. Cardinality(Saved') <= Cardinality(Saved) /\ Cardinality(Saved') \in Nat
    BY <2>2, SavedFinite, FS_Subset, FS_CardinalityType
  <2>6. TableFits'
    <3> DEFINE A == Cardinality(Saved') C == Cardinality(Saved)
    <3>1. A <= C /\ A \in Nat /\ C \in Nat /\ C <= ViewCap /\ ViewCap \in Nat
      BY <1>7, <2>5, SavedFinite, SavedViewAssumption
    <3>2. \A e \in Dialog : change'[e].step = "counted" => ownerRow' = e /\ C < ViewCap
      BY <1>7, <2>1, <2>4
    <3> HIDE DEF A, C
    <3>3. A <= ViewCap /\ (C < ViewCap => A < ViewCap)
      BY <3>1
    <3>4. QED
      BY <3>2, <3>3 DEF A, TableFits
  <2>7. QED
    BY <2>1, <2>2, <2>4, <2>6 DEF SavedInv, ViewsTyped, PaneFits
<1>13. QED
  BY <1>9, <1>10, <1>11, <1>12

\* Every step of the table, of its lock and of the dialogs.
LEMMA SavedStep == SavedInv /\ [SavedNext]_savedVars => SavedInv'
<1> SUFFICES ASSUME SavedInv, [SavedNext]_savedVars PROVE SavedInv'
  OBVIOUS
<1>1. CASE UNCHANGED savedVars
  BY <1>1 DEF savedVars, SavedInv, ViewsTyped, TableFits, PaneFits, Saved
<1>2. CASE LoseWorkspaces \/ EndSession
  BY <1>2 DEF LoseWorkspaces, EndSession, viewTable, viewPage, SavedInv, ViewsTyped, TableFits,
              PaneFits, Saved
<1>3. QED
  BY <1>1, <1>2, DialogSteps, ChangeSettles, TableSteps DEF SavedNext

\* The dialogs, their requests and the table fit each other.
THEOREM SavedInvariance == SavedSpec => []SavedInv
BY SavedStart, SavedStep, PTL DEF SavedSpec

LEMMA SavedViewsTyped == SavedInv => SavedTypeOK
BY DEF SavedInv, ViewsTyped, SavedTypeOK, Panes, ViewChanges, ChangeSteps

\* A person's views stay within the limit; a list on show holds what its own dialog
\* changed; and a dialog is not left busy, nor waiting for a list nobody sends.
THEOREM SavedViewsAreSafe == SavedSpec => []SavedViewsSafe
<1>1. SavedInv => SavedViewsSafe
  BY DEF SavedInv, TableFits, PaneFits, Waiting, SavedViewsSafe
<1>2. QED
  BY <1>1, SavedInvariance, PTL

-----------------------------------------------------------------------------
(* What is said of a pull request (Radar). *)

\* What the rows of reviews or of checks are.
Listing(rows) ==
  /\ IsFiniteSet(DOMAIN rows) /\ DOMAIN rows \subseteq Nat
  /\ \A k \in DOMAIN rows : rows[k].at \in Nat

\* A row that counts rather than another about the same thing.
Ahead(rows, i, k) ==
  /\ rows[i].of = rows[k].of
  /\ rows[k].at < rows[i].at \/ (rows[i].at = rows[k].at /\ i < k)

\* Ahead is a strict order, total on the rows about one thing: the later time, then the id.
LEMMA AheadOrders ==
  ASSUME NEW rows, Listing(rows)
  PROVE  /\ \A i, j, k \in DOMAIN rows : Ahead(rows, i, j) /\ Ahead(rows, j, k) => Ahead(rows, i, k)
         /\ \A i \in DOMAIN rows : ~Ahead(rows, i, i)
         /\ \A i, k \in DOMAIN rows : rows[i].of = rows[k].of =>
              i = k \/ Ahead(rows, i, k) \/ Ahead(rows, k, i)
BY DEF Listing, Ahead

\* Of the rows about one thing, some row is ahead of all others.
LEMMA FirstOfAny ==
  ASSUME NEW rows, Listing(rows), NEW k \in DOMAIN rows
  PROVE  \E f \in DOMAIN rows : /\ rows[f].of = rows[k].of
                                /\ \A i \in DOMAIN rows : ~Ahead(rows, i, f)
<1> DEFINE D == DOMAIN rows
           Behind(j) == {i \in D : Ahead(rows, i, j)}
           T == {Behind(j) : j \in {j \in D : rows[j].of = rows[k].of}}
<1>1. IsWellFoundedOn(StrictSubsetOrdering(D), FiniteSubsetsOf(D))
  BY FS_StrictSubsetOrderingWellFounded
<1>t. IsFiniteSet(D)
  BY DEF Listing
<1>2. T \subseteq FiniteSubsetsOf(D) /\ T # {}
  <2>1. \A j \in D : Behind(j) \in SUBSET D /\ IsFiniteSet(Behind(j))
    BY <1>t, FS_Subset
  <2>2. QED
    BY <2>1 DEF FiniteSubsetsOf
<1>3. PICK x \in T : \A y \in T : ~ (<<y, x>> \in StrictSubsetOrdering(D))
  <2> HIDE DEF T, D
  <2>1. QED
    BY <1>1, <1>2, WFMin
<1>4. PICK f \in {j \in D : rows[j].of = rows[k].of} : x = Behind(f)
  BY <1>3
<1>5. ASSUME NEW i \in D, Ahead(rows, i, f)
      PROVE  FALSE
  <2>1. i \in {j \in D : rows[j].of = rows[k].of}
    BY <1>4, <1>5 DEF Ahead
  <2>2. Behind(i) \in T
    BY <2>1
  <2>3. Behind(i) \subseteq Behind(f)
    BY <1>4, <1>5, AheadOrders
  <2>4. i \in Behind(f) /\ i \notin Behind(i)
    BY <1>5, AheadOrders
  <2>5. Behind(i) \in FiniteSubsetsOf(D) /\ Behind(f) \in FiniteSubsetsOf(D)
    BY <1>2, <1>3, <1>4, <2>2
  <2> HIDE DEF Behind, T, D
  <2>6. <<Behind(i), Behind(f)>> \in StrictSubsetOrdering(D)
    BY <2>3, <2>4, <2>5 DEF StrictSubsetOrdering, FiniteSubsetsOf
  <2>7. QED
    BY <1>3, <1>4, <2>2, <2>6
<1>6. QED
  BY <1>4, <1>5

\* A set whose elements are all one has one element.
LEMMA OneOfSet ==
  ASSUME NEW S, NEW x, x \in S, \A y \in S : y = x
  PROVE  Cardinality(S) = 1
<1>1. S = {x}
  OBVIOUS
<1>2. QED
  BY <1>1, FS_Singleton

\* The digest takes, for each thing, one of the rows that the page may take.
LEMMA LowestChosen ==
  ASSUME NEW rows, Listing(rows)
  PROVE  LowestOf(rows) \in OneForEach(rows)
<1>1. LowestOf(rows) = {k \in DOMAIN rows : \A i \in DOMAIN rows : ~Ahead(rows, i, k)}
  BY AheadOrders DEF LowestOf, Ahead, Rivals, Listing
<1>2. LowestOf(rows) \subseteq {k \in DOMAIN rows : \A i \in Rivals(rows, k) : rows[i].at <= rows[k].at}
  BY DEF LowestOf, Rivals, Listing
<1>3. ASSUME NEW k \in DOMAIN rows
      PROVE  Cardinality({i \in LowestOf(rows) : rows[i].of = rows[k].of}) = 1
  <2>1. PICK f \in DOMAIN rows : /\ rows[f].of = rows[k].of
                                 /\ \A i \in DOMAIN rows : ~Ahead(rows, i, f)
    BY FirstOfAny
  <2> DEFINE S == {i \in LowestOf(rows) : rows[i].of = rows[k].of}
  <2>2. f \in S
    BY <1>1, <2>1
  <2>3. \A i \in S : i = f
    BY <1>1, <2>1, AheadOrders
  <2> HIDE DEF S
  <2>4. Cardinality(S) = 1
    BY <2>2, <2>3, OneOfSet
  <2>5. QED
    BY <2>4 DEF S
<1>4. QED
  BY <1>2, <1>3 DEF OneForEach

\* Without ties there is one choice.
LEMMA UntiedChoice ==
  ASSUME NEW rows, Listing(rows), Untied(rows)
  PROVE  OneForEach(rows) = {LowestOf(rows)} /\ HighestOf(rows) = LowestOf(rows)
<1> DEFINE D == {k \in DOMAIN rows : \A i \in Rivals(rows, k) : rows[i].at <= rows[k].at}
<1>1. D = LowestOf(rows) /\ HighestOf(rows) = LowestOf(rows)
  BY DEF Untied, LowestOf, HighestOf, Rivals, Listing
<1>2. ASSUME NEW c \in OneForEach(rows)
      PROVE  c = LowestOf(rows)
  <2>1. c \subseteq LowestOf(rows)
    BY <1>1 DEF OneForEach
  <2>2. ASSUME NEW k \in LowestOf(rows)
        PROVE  k \in c
    <3>1. k \in DOMAIN rows
      BY DEF LowestOf
    <3> DEFINE S == {i \in c : rows[i].of = rows[k].of}
    <3>2. Cardinality(S) = 1
      BY <3>1 DEF OneForEach
    <3>3. S # {}
      <4> HIDE DEF S
      <4>1. QED
        BY <3>2, FS_EmptySet
    <3>4. PICK i \in S : TRUE
      BY <3>3
    <3>5. i \in LowestOf(rows) /\ rows[i].of = rows[k].of
      BY <2>1, <3>4
    <3>6. i = k
      BY <3>1, <3>5 DEF LowestOf, Rivals, Listing
    <3>7. QED
      BY <3>4, <3>6
  <2>3. QED
    BY <2>1, <2>2
<1>3. QED
  BY <1>1, <1>2, LowestChosen

-----------------------------------------------------------------------------
LEMMA RowsListed ==
  ASSUME RadarTypeOK
  PROVE  /\ Listing(ReviewsThere) /\ DOMAIN ReviewsThere \subseteq 1 .. MaxReviewRows
         /\ \A h : Listing(ChecksOf(h))
         /\ \A h : \A k \in DOMAIN ChecksOf(h) : checkRow[k] \in PipelineStates
<1>1. Listing(ReviewsThere) /\ DOMAIN ReviewsThere \subseteq 1 .. MaxReviewRows
  <2>1. IsFiniteSet(1 .. MaxReviewRows) /\ MaxReviewRows \in Nat
    BY FS_Interval, RadarAssumption
  <2>2. DOMAIN ReviewsThere \in SUBSET (1 .. MaxReviewRows)
    BY DEF ReviewsThere
  <2>3. IsFiniteSet(DOMAIN ReviewsThere)
    BY <2>1, <2>2, FS_Subset
  <2>4. \A k \in DOMAIN ReviewsThere : ReviewsThere[k].at \in Nat
    BY RadarAssumption DEF ReviewsThere, RadarTypeOK, ReviewStates, Stamp
  <2>5. QED
    BY <2>1, <2>2, <2>3, <2>4 DEF Listing
<1>2. ASSUME NEW h
      PROVE  /\ Listing(ChecksOf(h))
             /\ \A k \in DOMAIN ChecksOf(h) : checkRow[k] \in PipelineStates
  <2>1. IsFiniteSet(1 .. MaxCheckRows) /\ MaxCheckRows \in Nat
    BY FS_Interval, RadarAssumption
  <2>2. DOMAIN ChecksOf(h) \in SUBSET (1 .. MaxCheckRows)
    BY DEF ChecksOf, ChecksThere
  <2>3. IsFiniteSet(DOMAIN ChecksOf(h))
    BY <2>1, <2>2, FS_Subset
  <2>4. \A k \in DOMAIN ChecksOf(h) : checkRow[k] \in PipelineStates
    BY DEF ChecksOf, ChecksThere, RadarTypeOK
  <2>5. \A k \in DOMAIN ChecksOf(h) : ChecksOf(h)[k].at = checkRow[k].at
    BY DEF ChecksOf, ChecksThere
  <2>6. \A k \in DOMAIN ChecksOf(h) : ChecksOf(h)[k].at \in Nat
    BY <2>4, <2>5, RadarAssumption DEF PipelineStates, Stamp
  <2>7. QED
    BY <2>1, <2>2, <2>3, <2>4, <2>6 DEF Listing
<1>3. QED
  BY <1>1, <1>2

\* Ready is said exactly when nothing is left to follow.
LEMMA ReadyUnexplained ==
  ASSUME RadarTypeOK, NEW rs, NEW cs, \A k \in cs : checkRow[k] \in PipelineStates,
         HighestOf(ReviewsThere) = rs, HighestOf(ChecksOf(onRadar.head)) = cs
  PROVE  (PullState(rs, cs) = "ready") <=> (Reasons = {})
<1>1. Reasons = {} <=> /\ ~Runs(cs, "failing")
                       /\ ~Decided(rs, "changes_requested") /\ Decided(rs, "approved")
                       /\ onRadar.mergeable # "no"
                       /\ cs # {} /\ ~Runs(cs, "running") /\ ~Runs(cs, "neutral")
  <2> HIDE DEF Runs, Decided
  <2>1. QED
    BY DEF Reasons
<1>2. (PullState(rs, cs) = "ready") <=>
        /\ ~Runs(cs, "failing") /\ ~Runs(cs, "running")
        /\ cs # {} /\ \A k \in cs : checkRow[k].status = "passing"
        /\ Decided(rs, "approved") /\ ~Decided(rs, "changes_requested")
        /\ onRadar.mergeable # "no"
  BY DEF PullState, Runs
<1>3. (\A k \in cs : checkRow[k].status = "passing") <=>
        ~Runs(cs, "failing") /\ ~Runs(cs, "running") /\ ~Runs(cs, "neutral")
  BY DEF Runs, PipelineStates
<1>4. QED
  BY <1>1, <1>2, <1>3

\* Whoever reads the rows of a pull request, and in whatever order, sees one state of it.
LEMMA RadarIsSafe == RadarTypeOK => RadarSafe
<1> SUFFICES ASSUME RadarTypeOK
             PROVE  RadarSafe
  OBVIOUS
<1> DEFINE rows == ReviewsThere
           checks == ChecksOf(onRadar.head)
<1>1. Listing(rows) /\ Listing(checks)
  BY RowsListed
<1>2. LowestOf(rows) \in OneForEach(rows) /\ LowestOf(checks) \in OneForEach(checks)
  BY <1>1, LowestChosen
<1>3. DigestRadar \subseteq PageRadar
  BY <1>2 DEF DigestRadar, PageRadar
<1>4. ASSUME Followed, Untied(rows), Untied(checks)
      PROVE  PageRadar = DigestRadar /\ (DigestRadar = {"ready"} <=> Reasons = {})
  <2>1. /\ OneForEach(rows) = {LowestOf(rows)} /\ HighestOf(rows) = LowestOf(rows)
        /\ OneForEach(checks) = {LowestOf(checks)} /\ HighestOf(checks) = LowestOf(checks)
    BY <1>1, <1>4, UntiedChoice
  <2>2. DigestRadar = {PullState(LowestOf(rows), LowestOf(checks))}
    BY <1>4 DEF DigestRadar, Followed
  <2>3. PageRadar = {PullState(LowestOf(rows), LowestOf(checks))}
    BY <1>4, <2>1 DEF PageRadar, Followed
  <2>4. \A k \in LowestOf(checks) : checkRow[k] \in PipelineStates
    BY RowsListed DEF LowestOf
  <2>5. (PullState(LowestOf(rows), LowestOf(checks)) = "ready") <=> (Reasons = {})
    BY <2>1, <2>4, ReadyUnexplained
  <2>6. QED
    BY <2>2, <2>3, <2>5
<1>5. RadarsAgree
  BY <1>3, <1>4 DEF RadarsAgree
<1>6. AttentionExplained
  <2>1. SUFFICES ASSUME CiAttention, onRadar.is # "draft"
                 PROVE  "failing" \in PageRadar
    BY DEF AttentionExplained
  <2>2. PICK cs \in OneForEach(checks) : Runs(cs, "failing")
    BY <2>1 DEF CiAttention
  <2>3. PullState(LowestOf(rows), cs) = "failing"
    BY <2>2 DEF PullState, Runs
  <2>4. onRadar.is = "open"
    BY <2>1 DEF CiAttention
  <2>5. QED
    BY <1>2, <2>2, <2>3, <2>4 DEF PageRadar
<1>7. QED
  BY <1>5, <1>6 DEF RadarSafe

\* The rows have their types.
LEMMA RadarInvariance == RadarSpec => []RadarTypeOK
<1>1. RadarInit => RadarTypeOK
  BY DEF RadarInit, RadarTypeOK
<1>2. RadarTypeOK /\ [RadarNext]_radarVars => RadarTypeOK'
  <2>1. SUFFICES ASSUME RadarTypeOK, [RadarNext]_radarVars
                 PROVE  RadarTypeOK'
    OBVIOUS
  <2>2. CASE UNCHANGED radarVars
    BY <2>1, <2>2 DEF RadarTypeOK, radarVars
  <2>3. ASSUME NEW k \in 1 .. MaxReviewRows, NEW r \in ReviewStates, ReviewSignal(k, r)
        PROVE  RadarTypeOK'
    BY <2>1, <2>3 DEF RadarTypeOK, ReviewSignal
  <2>4. ASSUME NEW k \in 1 .. MaxCheckRows, NEW c \in PipelineStates, CheckSignal(k, c)
        PROVE  RadarTypeOK'
    BY <2>1, <2>4 DEF RadarTypeOK, CheckSignal
  <2>5. ASSUME NEW p \in PullStates, PullSignal(p)
        PROVE  RadarTypeOK'
    BY <2>1, <2>5 DEF RadarTypeOK, PullSignal
  <2>6. QED
    BY <2>1, <2>2, <2>3, <2>4, <2>5 DEF RadarNext
<1>3. QED
  BY <1>1, <1>2, PTL DEF RadarSpec

-----------------------------------------------------------------------------
(* The browser (MCBrowser): one of its parts runs, and the others stay as they are. *)

\* A behaviour of the browser is one of each part.
LEMMA EachPartRuns ==
  BrowserSpec => Spec /\ PageSpec /\ PrincipalSpec /\ LinkSpec /\ SavedSpec /\ RadarSpec
<1>1. BrowserInit => Init /\ PageInit /\ PrincipalInit /\ LinkInit /\ SavedInit /\ RadarInit
  BY DEF BrowserInit
<1>2. [BrowserNext]_browserVars =>
        /\ [Next]_vars /\ [PageNext]_pageVars /\ [PrincipalNext]_principalVars
        /\ [LinkNext]_linkVars /\ [SavedNext]_savedVars /\ [RadarNext]_radarVars
  BY DEF BrowserNext, browserVars
<1>3. QED
  BY <1>1, <1>2, PTL DEF BrowserSpec, Spec, PageSpec, PrincipalSpec, LinkSpec, SavedSpec, RadarSpec

\* Every variable of every part has its type.
THEOREM BrowserTyped == BrowserSpec => []BrowserTypeOK
<1>1. PageInv => PageTypeOK
  BY PageInvHides
<1>2. PrincipalInv => PrincipalTypeOK
  BY DEF PrincipalInv
<1>3. LinkInv => LinkTypeOK
  BY LinkInvTyped
<1>4. SavedInv => SavedTypeOK
  BY SavedViewsTyped
<1>5. TypeOK /\ PageTypeOK /\ PrincipalTypeOK /\ LinkTypeOK /\ SavedTypeOK /\ RadarTypeOK
        => BrowserTypeOK
  BY DEF BrowserTypeOK
<1>6. QED
  BY <1>1, <1>2, <1>3, <1>4, <1>5, EachPartRuns, FeedTyped, PageInvariance,
     PrincipalInvariance, LinkInvariance, SavedInvariance, RadarInvariance, PTL

\* What a request brings back belongs to the workspace and to the person it was asked for, a
\* saved view opens what was on show, and those who judge a pull request agree.
THEOREM BrowserAnswersSafely == BrowserSpec => []AnswersSafe
<1>1. AnswersBelong /\ PrincipalsSafe /\ SavedViewsSafe /\ LinksSafe /\ RadarSafe => AnswersSafe
  BY DEF AnswersSafe
<1>2. QED
  BY <1>1, EachPartRuns, AnswersBelongToPage, PrincipalsAreSafe, SavedViewsAreSafe,
     LinkInvariance, LinksAreSafe, RadarInvariance, RadarIsSafe, PTL

\* A tab shows what is its user's and of its workspace, and nothing of a former one.
THEOREM BrowserShowsItsUser == BrowserSpec => PageSafe
BY EachPartRuns, PageShowsItsUser, PTL

\* Whatever a stream misses on its way, the page shows in the end what its viewer may see.
THEOREM BrowserMissesNothing == BrowserSpec => []StreamMissesNothing
BY EachPartRuns, StreamsMissNothing, PTL
=============================================================================
