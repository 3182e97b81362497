------------------------- MODULE GitHubAccessProofs -------------------------
(***************************************************************************)
(* Theorems about GitHubAccess for any number of users, repositories,      *)
(* workers and requests.                                                   *)
(***************************************************************************)
EXTENDS GitHubAccess, TLAPS, FiniteSetTheorems, SequenceTheorems

-----------------------------------------------------------------------------
(* The inductive invariant. *)

\* Generations are counted, so a connection that is made again has one that no refresh
\* under way started from.
GrantsFit ==
  /\ grants <= acts
  /\ \A u \in User : Connected(u) => connection[u].generation <= grants

\* No two transactions hold the same row.
LocksFit ==
  \A u \in User : \A j, k \in Job : j # k =>
    /\ ~(HoldsConnection(j, u) /\ HoldsConnection(k, u))
    /\ ~(HoldsAccess(j, u) /\ HoldsAccess(k, u))

\* Rows that a narrowing has rewritten, or still has to, are there.
NarrowFits(j) ==
  /\ \A u \in job[j].left \cup job[j].returned : HasRow(u)
  /\ \A u \in job[j].bumped : Connected(u)

\* A refresh never has a later version than its connection; what a narrowing cut from
\* its listing, and from the user's row, has made its version too old to be stored.
RefreshFits(j) ==
  LET u == job[j].user IN
  /\ job[j].generation <= grants
  /\ job[j].step # "connection" /\ Connected(u) /\ FitsGeneration(j) =>
       /\ job[j].version <= connection[u].version
       /\ job[j].step = "check" /\ job[j].fenced # {} =>
            job[j].version < connection[u].version
  /\ job[j].step \in {"write", "commit"} =>
       Connected(u) /\ Fits(j) /\ job[j].fenced = {}

JobsFit ==
  \A j \in Job : (Narrowing(j) => NarrowFits(j)) /\ (Refreshing(j) => RefreshFits(j))

\* A revoked authorization is somebody's.
AuthorizationsNamed ==
  /\ webhook \in [1 .. MaxChanges -> Change \cup {NotSent}]
  /\ \A w \in 1 .. MaxChanges :
       webhook[w].about = "authorization" => webhook[w].user \in User

AccessInv == GrantsFit /\ LocksFit /\ JobsFit /\ CurrentGrantOnly

-----------------------------------------------------------------------------
(* Jobs, and steps that change one of them. *)

LEMMA JobKinds ==
  ASSUME TypeOK, NEW j \in Job
  PROVE  /\ Refreshing(j) => job[j] \in Refresh /\ job[j].user \in User
         /\ Narrowing(j) => /\ job[j] \in Narrow /\ job[j].left \subseteq User
                            /\ job[j].returned \subseteq User /\ job[j].bumped \subseteq User
         /\ job[j] = Idle => ~Refreshing(j) /\ ~Narrowing(j)
         /\ ~(Refreshing(j) /\ Narrowing(j))
<1>1. job[j] \in Refresh \cup Narrow \cup {Idle}
  BY DEF TypeOK
<1>2. QED  BY <1>1 DEF Refreshing, Narrowing, Refresh, Narrow, Idle

LEMMA ConnectionKinds ==
  ASSUME TypeOK, NEW u \in User
  PROVE  /\ Connected(u) => /\ connection[u] \in Connection /\ connection[u].generation \in Nat \ {0}
                            /\ connection[u].generation \in 1 .. MaxActs
                            /\ connection[u].version \in Nat
         /\ ~Connected(u) => connection[u].generation = 0
         /\ HasRow(u) => access[u] \in AccessRow
         /\ NoConnection \notin Connection /\ NoRow \notin AccessRow
<1>1. Connected(u) => connection[u] \in Connection
  BY DEF TypeOK, Connected
<1>2. HasRow(u) => access[u] \in AccessRow
  BY DEF TypeOK, HasRow
<1>3. ~Connected(u) => connection[u].generation = 0
  BY DEF Connected, NoConnection
<1>4. \A c \in Connection : /\ c.generation \in Nat \ {0} /\ c.generation \in 1 .. MaxActs
                            /\ c.version \in Nat
  BY AccessAssumption DEF Connection
<1>5. NoConnection \notin Connection /\ NoRow \notin AccessRow
  BY DEF NoConnection, Connection, NoRow, AccessRow
<1>6. QED  BY <1>1, <1>2, <1>3, <1>4, <1>5

\* A step of one job keeps the invariant of the others, and needs to keep its own.
LEMMA LocalStep ==
  ASSUME AccessInv, NEW j \in Job,
         UNCHANGED <<connection, access, grants>>, grants <= acts',
         \A k \in Job \ {j} : job'[k] = job[k],
         \A u \in User, k \in Job \ {j} :
           /\ HoldsConnection(j, u)' => HoldsConnection(j, u) \/ ~HoldsConnection(k, u)
           /\ HoldsAccess(j, u)' => HoldsAccess(j, u) \/ ~HoldsAccess(k, u),
         Narrowing(j)' => NarrowFits(j)',
         Refreshing(j)' => RefreshFits(j)'
  PROVE  AccessInv'
<1>1. GrantsFit'
  BY DEF AccessInv, GrantsFit, Connected
<1>2. \A k \in Job \ {j}, u \in User : /\ HoldsConnection(k, u)' <=> HoldsConnection(k, u)
                                       /\ HoldsAccess(k, u)' <=> HoldsAccess(k, u)
  BY DEF HoldsConnection, HoldsAccess, Refreshing, Narrowing
<1>3. LocksFit'
  BY <1>2 DEF AccessInv, LocksFit
<1>4. \A k \in Job \ {j} : /\ Narrowing(k)' => NarrowFits(k)'
                           /\ Refreshing(k)' => RefreshFits(k)'
  BY DEF AccessInv, JobsFit, Narrowing, Refreshing, NarrowFits, RefreshFits, HasRow, Connected,
         Fits, FitsGeneration, FitsVersion
<1>5. JobsFit'
  BY <1>4 DEF JobsFit
<1>6. CurrentGrantOnly'
  BY DEF AccessInv, CurrentGrantOnly, HasRow, Connected
<1>7. QED  BY <1>1, <1>3, <1>5, <1>6 DEF AccessInv

-----------------------------------------------------------------------------
(* The queue of refreshes. *)

LEMMA ListOfSet ==
  ASSUME NEW S, IsFiniteSet(S)
  PROVE  SetToSeq(S) \in Seq(S) /\ Range(SetToSeq(S)) = S
<1> DEFINE n == Cardinality(S)
           f == SetToSeq(S)
<1>1. n \in Nat /\ Bijection(1 .. n, S) # {}
  BY FS_CardinalityType DEF ExistsBijection
<1>2. \E g \in [1 .. n -> S] : IsInjective(g)
  BY <1>1 DEF Bijection, Injection
<1>3. f \in [1 .. n -> S] /\ IsInjective(f)
  BY <1>2, Zenon DEF SetToSeq
<1>4. f \in Injection(1 .. n, S)
  BY <1>3 DEF Injection
<1>5. Cardinality(1 .. n) = Cardinality(S)
  BY <1>1, FS_Interval
<1> HIDE DEF f, n
<1>6. f \in Surjection(1 .. n, S)
  BY <1>4, <1>5, FS_Injection
<1>7. Range(f) = S
  BY <1>3, <1>6 DEF Surjection, Range
<1>8. f \in Seq(S)
  BY <1>1, <1>3, SeqDef DEF n
<1>9. QED  BY <1>7, <1>8 DEF f

LEMMA Queued ==
  ASSUME NEW q \in Seq(User), NEW S \in SUBSET User
  PROVE  q \o SetToSeq(S) \in Seq(User) /\ Range(q \o SetToSeq(S)) = Range(q) \cup S
<1> DEFINE t == SetToSeq(S)
<1>1. t \in Seq(S) /\ Range(t) = S
  BY ListOfSet, FS_Subset, AccessAssumption
<1> HIDE DEF t
<1>2. t \in Seq(User)
  BY <1>1, SeqMonotonic
<1>3. /\ q \o t \in Seq(User) /\ Len(q \o t) = Len(q) + Len(t)
      /\ \A i \in 1 .. Len(q) + Len(t) : (q \o t)[i] = IF i <= Len(q) THEN q[i] ELSE t[i - Len(q)]
  BY <1>2, ConcatProperties
<1>4. /\ Len(q) \in Nat /\ DOMAIN q = 1 .. Len(q)
      /\ Len(t) \in Nat /\ DOMAIN t = 1 .. Len(t)
      /\ DOMAIN (q \o t) = 1 .. Len(q) + Len(t)
  BY <1>2, <1>3, LenProperties
<1>5. ASSUME NEW u \in Range(q) PROVE u \in Range(q \o t)
  <2>1. PICK i \in 1 .. Len(q) : q[i] = u
    BY <1>4, <1>5 DEF Range
  <2>2. i \in 1 .. Len(q) + Len(t) /\ (q \o t)[i] = u
    BY <1>3, <1>4, <2>1
  <2>3. QED  BY <1>4, <2>2 DEF Range
<1>6. ASSUME NEW u \in Range(t) PROVE u \in Range(q \o t)
  <2>1. PICK i \in 1 .. Len(t) : t[i] = u
    BY <1>4, <1>6 DEF Range
  <2>2. i + Len(q) \in 1 .. Len(q) + Len(t) /\ (q \o t)[i + Len(q)] = u
    BY <1>3, <1>4, <2>1
  <2>3. QED  BY <1>4, <2>2 DEF Range
<1>7. ASSUME NEW u \in Range(q \o t) PROVE u \in Range(q) \cup Range(t)
  <2>1. PICK i \in 1 .. Len(q) + Len(t) : (q \o t)[i] = u
    BY <1>4, <1>7 DEF Range
  <2>2. CASE i <= Len(q)
    BY <1>3, <1>4, <2>1, <2>2 DEF Range
  <2>3. CASE ~(i <= Len(q))
    <3>1. i - Len(q) \in 1 .. Len(t) /\ t[i - Len(q)] = u
      BY <1>3, <1>4, <2>1, <2>3
    <3>2. QED  BY <1>4, <3>1 DEF Range
  <2>4. QED  BY <2>2, <2>3
<1>8. QED  BY <1>1, <1>3, <1>5, <1>6, <1>7 DEF t

LEMMA Dequeued ==
  ASSUME NEW q \in Seq(User), q # <<>>
  PROVE  /\ Head(q) \in User /\ Tail(q) \in Seq(User)
         /\ Range(q) \subseteq {Head(q)} \cup Range(Tail(q))
<1>1. /\ Head(q) \in User /\ Tail(q) \in Seq(User) /\ Len(Tail(q)) = Len(q) - 1
      /\ \A i \in 1 .. Len(Tail(q)) : Tail(q)[i] = q[i + 1]
  BY HeadTailProperties
<1>2. /\ Len(q) \in Nat /\ DOMAIN q = 1 .. Len(q)
      /\ DOMAIN Tail(q) = 1 .. Len(Tail(q))
  BY <1>1, LenProperties
<1>3. Head(q) = q[1]
  OBVIOUS
<1>4. ASSUME NEW u \in Range(q) PROVE u \in {Head(q)} \cup Range(Tail(q))
  <2>1. PICK i \in 1 .. Len(q) : q[i] = u
    BY <1>2, <1>4 DEF Range
  <2>2. CASE i = 1
    BY <1>3, <2>1, <2>2
  <2>3. CASE i # 1
    <3>1. i - 1 \in 1 .. Len(Tail(q)) /\ Tail(q)[i - 1] = u
      BY <1>1, <1>2, <2>1, <2>3
    <3>2. QED  BY <1>2, <3>1 DEF Range
  <2>4. QED  BY <2>2, <2>3
<1>5. QED  BY <1>1, <1>4

LEMMA Scheduled ==
  ASSUME TypeOK, NEW U \in SUBSET User, Schedule(U)
  PROVE  backlog' \in Seq(User) /\ InQueue' = InQueue \cup U
<1>1. backlog \in Seq(User) /\ U \ InQueue \in SUBSET User
  BY DEF TypeOK
<1>2. /\ backlog' \in Seq(User)
      /\ Range(backlog') = Range(backlog) \cup (U \ InQueue)
  BY <1>1, Queued DEF Schedule
<1>3. QED  BY <1>2 DEF InQueue

-----------------------------------------------------------------------------
(* Steps of a refresh. *)

FullInv == TypeOK /\ AccessInv /\ ChangesReread

\* A refresh that will still read a listing for u.
Awaits(j, u) ==
  Refreshing(j) /\ job[j].user = u /\ job[j].step \in {"connection", "token", "list"}

LEMMA JobType ==
  ASSUME TypeOK, NEW j \in Job, NEW x \in Refresh \cup Narrow \cup {Idle},
         job' = [job EXCEPT ![j] = x]
  PROVE  /\ job' \in [Job -> Refresh \cup Narrow \cup {Idle}]
         /\ job'[j] = x /\ \A k \in Job \ {j} : job'[k] = job[k]
  BY DEF TypeOK

\* Nobody is forgotten while refreshes that have yet to list go on, and only users in
\* the queue are added.
LEMMA RereadStep ==
  ASSUME FullInv,
         \A u \in User, k \in Job : Awaits(k, u) => Awaits(k, u)' \/ u \notin unread',
         \A u \in InQueue : u \in InQueue' \/ \E k \in Job : Awaits(k, u)',
         unread' \subseteq unread \cup (User \cap InQueue')
  PROVE  ChangesReread'
<1>1. unread \subseteq User
  BY DEF FullInv, TypeOK
<1>2. ASSUME NEW u \in unread' PROVE u \in InQueue' \/ \E k \in Job : Awaits(k, u)'
  <2>1. CASE u \in InQueue'
    BY <2>1
  <2>2. CASE u \in unread
    <3>1. u \in InQueue \/ \E k \in Job : Awaits(k, u)
      BY <2>2 DEF FullInv, ChangesReread, Awaits
    <3>2. QED  BY <1>1, <1>2, <2>2, <3>1
  <2>3. QED  BY <1>2, <2>1, <2>2
<1>3. unread' \subseteq User
  BY <1>1
<1>4. QED  BY <1>2, <1>3 DEF ChangesReread, Awaits

LEMMA NewRefreshType ==
  ASSUME NEW u \in User
  PROVE  /\ NewRefresh(u) \in Refresh /\ NewRefresh(u).is = "refresh"
         /\ NewRefresh(u).user = u /\ NewRefresh(u).step = "connection"
         /\ NewRefresh(u).generation = 0
<1>1. 1 \in 1 .. MaxAttempts /\ 0 \in 0 .. MaxActs
  BY AccessAssumption
<1>2. QED  BY <1>1 DEF NewRefresh, Refresh

\* A job that was idle takes up a refresh.
LEMMA BeginRefresh ==
  ASSUME FullInv, NEW j \in Job, job[j] = Idle, NEW u \in User,
         job' = [job EXCEPT ![j] = NewRefresh(u)],
         UNCHANGED <<connection, access, grants>>, grants <= acts'
  PROVE  /\ job' \in [Job -> Refresh \cup Narrow \cup {Idle}]
         /\ AccessInv'
         /\ Awaits(j, u)'
         /\ \A k \in Job, v \in User : Awaits(k, v) => Awaits(k, v)'
<1>1. /\ job' \in [Job -> Refresh \cup Narrow \cup {Idle}]
      /\ job'[j] = NewRefresh(u) /\ \A k \in Job \ {j} : job'[k] = job[k]
  BY NewRefreshType, JobType DEF FullInv
<1>2. Refreshing(j)' /\ ~Narrowing(j)' /\ job'[j].step = "connection" /\ job'[j].user = u
  BY <1>1, NewRefreshType DEF Refreshing, Narrowing
<1>3. RefreshFits(j)'
  <2>1. grants \in Nat
    BY DEF FullInv, TypeOK
  <2>2. QED  BY <1>1, <1>2, <2>1, NewRefreshType DEF RefreshFits
<1>4. AccessInv'
  BY <1>1, <1>2, <1>3, LocalStep DEF FullInv, HoldsConnection, HoldsAccess
<1>5. ~Refreshing(j)
  BY JobKinds DEF FullInv
<1>6. QED  BY <1>1, <1>2, <1>4, <1>5 DEF Awaits, Refreshing

LEMMA RequestRefreshKeeps ==
  ASSUME FullInv, NEW j \in Job, NEW u \in User, RequestRefresh(j, u)
  PROVE  FullInv'
<1>1. /\ job[j] = Idle /\ job' = [job EXCEPT ![j] = NewRefresh(u)]
      /\ UNCHANGED <<github, store, backlog, grants, unread>>
      /\ acts < MaxActs /\ acts' = acts + 1
  BY DEF RequestRefresh, Act
<1>2. acts' \in 0 .. MaxActs /\ grants <= acts'
  BY <1>1, AccessAssumption DEF FullInv, TypeOK, AccessInv, GrantsFit
<1>3. /\ job' \in [Job -> Refresh \cup Narrow \cup {Idle}]
      /\ AccessInv'
      /\ \A k \in Job, v \in User : Awaits(k, v) => Awaits(k, v)'
  BY <1>1, <1>2, BeginRefresh DEF store
<1>4. TypeOK'
  BY <1>1, <1>2, <1>3 DEF FullInv, TypeOK, github, store
<1>5. ChangesReread'
  BY <1>1, <1>3, RereadStep DEF InQueue
<1>6. QED  BY <1>3, <1>4, <1>5 DEF FullInv

LEMMA DrainKeeps ==
  ASSUME FullInv, NEW j \in Job, Drain(j)
  PROVE  FullInv'
<1>1. /\ job[j] = Idle
      /\ UNCHANGED <<github, store, grants, acts, unread>>
      /\ backlog # <<>> /\ backlog' = Tail(backlog)
  BY DEF Drain
<1>2. PICK u \in User : /\ u = Head(backlog) /\ backlog' \in Seq(User)
                        /\ InQueue \subseteq {u} \cup InQueue'
                        /\ job' = [job EXCEPT ![j] = NewRefresh(u)]
  <2>1. backlog \in Seq(User)
    BY DEF FullInv, TypeOK
  <2>2. QED  BY <1>1, <2>1, Dequeued DEF InQueue, Drain
<1>3. /\ job' \in [Job -> Refresh \cup Narrow \cup {Idle}]
      /\ AccessInv' /\ Awaits(j, u)'
      /\ \A k \in Job, v \in User : Awaits(k, v) => Awaits(k, v)'
  <2>1. grants <= acts'
    BY <1>1 DEF FullInv, AccessInv, GrantsFit
  <2>2. QED  BY <1>1, <1>2, <2>1, BeginRefresh DEF store
<1>4. TypeOK'
  BY <1>1, <1>2, <1>3 DEF FullInv, TypeOK, github, store
<1>5. ChangesReread'
  <2>1. \A v \in InQueue : v \in InQueue' \/ \E k \in Job : Awaits(k, v)'
    BY <1>2, <1>3
  <2>2. \A v \in User, k \in Job : Awaits(k, v) => Awaits(k, v)' \/ v \notin unread'
    BY <1>3
  <2>3. QED  BY <1>1, <2>1, <2>2, RereadStep
<1>6. QED  BY <1>3, <1>4, <1>5 DEF FullInv

\* What the steps of a refresh have in common.
LEMMA MoveRefresh ==
  ASSUME FullInv, NEW j \in Job, NEW x \in Refresh \cup {Idle}, Refreshing(j),
         job' = [job EXCEPT ![j] = x],
         UNCHANGED <<github, store, backlog, grants, acts>>,
         x # Idle => x.user = job[j].user,
         unread' \subseteq unread,
         x # Idle /\ x.step \in {"write", "commit"} =>
           \A k \in Job \ {j} : ~HoldsConnection(k, job[j].user),
         x # Idle /\ x.step = "commit" =>
           \A k \in Job \ {j} : ~HoldsAccess(k, job[j].user),
         x # Idle => RefreshFits(j)',
         \/ x # Idle /\ x.step \in {"connection", "token", "list"}
         \/ job[j].user \notin unread'
         \/ job[j].step \notin {"connection", "token", "list"}
  PROVE  FullInv'
<1>1. /\ job' \in [Job -> Refresh \cup Narrow \cup {Idle}]
      /\ job'[j] = x /\ \A k \in Job \ {j} : job'[k] = job[k]
  BY JobType DEF FullInv
<1>2. /\ ~Narrowing(j)' /\ (Refreshing(j)' <=> x # Idle)
  BY <1>1 DEF Narrowing, Refreshing, Refresh, Idle
<1>3. AccessInv'
  <2>1. UNCHANGED <<connection, access, grants>> /\ grants <= acts'
    BY DEF store, FullInv, AccessInv, GrantsFit
  <2>2. \A u \in User, k \in Job \ {j} :
           /\ HoldsConnection(j, u)' => ~HoldsConnection(k, u)
           /\ HoldsAccess(j, u)' => ~HoldsAccess(k, u)
    BY <1>1, <1>2 DEF HoldsConnection, HoldsAccess
  <2>3. QED  BY <1>1, <1>2, <2>1, <2>2, LocalStep DEF FullInv
<1>4. TypeOK'
  BY <1>1 DEF FullInv, TypeOK, github, store
<1>5. ChangesReread'
  <2>1. \A u \in User, k \in Job : Awaits(k, u) => Awaits(k, u)' \/ u \notin unread'
    BY <1>1, <1>2 DEF Awaits, Refreshing
  <2>2. QED  BY <2>1, RereadStep DEF InQueue
<1>6. QED  BY <1>3, <1>4, <1>5 DEF FullInv

LEMMA ReadConnectionKeeps ==
  ASSUME FullInv, NEW j \in Job, ReadConnection(j)
  PROVE  FullInv'
<1> DEFINE u == job[j].user
<1>1. /\ Refreshing(j) /\ job[j].step = "connection" /\ UNCHANGED <<github, store, backlog, grants, acts>>
      /\ job[j] \in Refresh /\ u \in User
  BY JobKinds DEF ReadConnection, FullInv
<1>2. CASE Connected(u)
  <2> DEFINE x == [job[j] EXCEPT !.step = "token", !.generation = connection[u].generation,
                                 !.version = connection[u].version]
  <2>1. job' = [job EXCEPT ![j] = x] /\ UNCHANGED unread
    BY <1>2 DEF ReadConnection
  <2>2. /\ connection[u].generation \in 0 .. MaxActs /\ connection[u].version \in Nat
        /\ connection[u].generation <= grants
    BY <1>1, <1>2, ConnectionKinds, AccessAssumption DEF FullInv, AccessInv, GrantsFit
  <2>3. /\ x \in Refresh /\ x.step = "token" /\ x.user = u
        /\ x.generation = connection[u].generation /\ x.version = connection[u].version
    BY <1>1, <2>2 DEF Refresh
  <2>4. x # Idle
    BY <2>3 DEF Refresh, Idle
  <2> HIDE DEF x
  <2>5. RefreshFits(j)'
    <3>1. job'[j] = x /\ UNCHANGED <<connection, grants>>
      BY <1>1, <2>1, <2>3, JobType DEF FullInv, store
    <3>2. connection[u].version <= connection[u].version
      BY <2>2
    <3>3. QED  BY <2>2, <2>3, <3>1, <3>2 DEF RefreshFits
  <2>6. QED  BY <1>1, <2>1, <2>3, <2>4, <2>5, MoveRefresh
<1>3. CASE ~Connected(u)
  <2>1. Ends(j)
    BY <1>3 DEF ReadConnection
  <2>2. QED  BY <1>1, <2>1, MoveRefresh DEF Ends
<1>4. QED  BY <1>2, <1>3

LEMMA ReadListingKeeps ==
  ASSUME FullInv, NEW j \in Job, ReadListing(j)
  PROVE  FullInv'
<1> DEFINE u == job[j].user
           x == [job[j] EXCEPT !.step = "check", !.list = Listing(u), !.fenced = {}, !.since = {}]
<1>1. /\ Refreshing(j) /\ job[j].step = "list" /\ UNCHANGED <<github, store, backlog, grants, acts>>
      /\ job[j] \in Refresh /\ u \in User
  BY JobKinds DEF ReadListing, FullInv
<1>2. job' = [job EXCEPT ![j] = x] /\ unread' = unread \ {u}
  BY DEF ReadListing
<1>3. Listing(u) \in SUBSET Repo
  BY <1>1 DEF FullInv, TypeOK, Listing
<1>4. /\ x \in Refresh /\ x.step = "check" /\ x.user = u /\ x.fenced = {}
      /\ x.generation = job[j].generation /\ x.version = job[j].version
  BY <1>1, <1>3 DEF Refresh
<1>5. x # Idle
  BY <1>4 DEF Refresh, Idle
<1> HIDE DEF x
<1>6. RefreshFits(j)'
  <2>1. job'[j] = x /\ UNCHANGED <<connection, grants>>
    BY <1>1, <1>2, <1>4, JobType DEF FullInv, store
  <2>2. RefreshFits(j)
    BY <1>1 DEF FullInv, AccessInv, JobsFit
  <2>3. QED  BY <1>1, <1>4, <2>1, <2>2 DEF RefreshFits, Connected, FitsGeneration
<1>7. QED  BY <1>1, <1>2, <1>4, <1>5, <1>6, MoveRefresh

LEMMA RefreshFailsKeeps ==
  ASSUME FullInv, NEW j \in Job, RefreshFails(j)
  PROVE  FullInv'
  BY MoveRefresh DEF RefreshFails, Ends

\* The steps that only move on, to the same listing under the same grant.
LEMMA GoesType ==
  ASSUME FullInv, NEW j \in Job, Refreshing(j),
         NEW s \in {"connection", "token", "list", "check", "write", "commit"},
         Goes(j, s), UNCHANGED connection
  PROVE  \E x \in Refresh :
           /\ job' = [job EXCEPT ![j] = x] /\ x # Idle
           /\ x.step = s /\ x.user = job[j].user
           /\ job'[j] = x /\ x.generation = job[j].generation /\ x.version = job[j].version
           /\ x.fenced = job[j].fenced
<1> DEFINE x == [job[j] EXCEPT !.step = s]
<1>1. job[j] \in Refresh
  BY JobKinds DEF FullInv
<1>2. x \in Refresh /\ x.step = s /\ x.user = job[j].user
      /\ x.generation = job[j].generation /\ x.version = job[j].version /\ x.fenced = job[j].fenced
  BY <1>1 DEF Refresh
<1>3. x # Idle
  BY <1>2 DEF Refresh, Idle
<1>4. job' = [job EXCEPT ![j] = x]
  BY DEF Goes
<1> HIDE DEF x
<1>5. job'[j] = x
  BY <1>2, <1>4, JobType DEF FullInv
<1>6. QED  BY <1>2, <1>3, <1>4, <1>5

LEMMA CheckKeeps ==
  ASSUME FullInv, NEW j \in Job, Check(j)
  PROVE  FullInv'
<1> DEFINE u == job[j].user
<1>1. /\ Refreshing(j) /\ job[j].step = "check" /\ UNCHANGED <<github, store, backlog, grants, acts>>
      /\ job[j] \in Refresh /\ u \in User
      /\ \A k \in Job \ {j} : ~HoldsConnection(k, u)
  BY JobKinds DEF Check, FullInv, WaitsFor
<1>2. RefreshFits(j)
  BY <1>1 DEF FullInv, AccessInv, JobsFit
<1>3. CASE Connected(u) /\ Fits(j)
  <2>1. Goes(j, "write") /\ UNCHANGED unread
    BY <1>3 DEF Check
  <2>2. PICK x \in Refresh :
           /\ job' = [job EXCEPT ![j] = x] /\ x # Idle
           /\ x.step = "write" /\ x.user = job[j].user
           /\ job'[j] = x /\ x.generation = job[j].generation /\ x.version = job[j].version
           /\ x.fenced = job[j].fenced
    BY <1>1, <2>1, GoesType DEF store
  <2>3. job[j].fenced = {}
    <3>1. connection[u].version \in Nat
      BY <1>1, <1>3, ConnectionKinds DEF FullInv
    <3>2. QED  BY <1>1, <1>2, <1>3, <3>1 DEF RefreshFits, Fits, FitsVersion
  <2>4. RefreshFits(j)'
    <3>1. UNCHANGED <<connection, grants>>
      BY <1>1 DEF store
    <3>2. QED  BY <1>1, <1>2, <1>3, <2>2, <2>3, <3>1
               DEF RefreshFits, Fits, FitsGeneration, FitsVersion, Connected
  <2>5. QED  BY <1>1, <2>1, <2>2, <2>4, MoveRefresh
<1>4. CASE ~(Connected(u) /\ Fits(j)) /\ Connected(u) /\ FitsGeneration(j) /\ MayRetry(j)
  <2> DEFINE x == [job[j] EXCEPT !.step = "connection", !.attempt = @ + 1]
  <2>1. job' = [job EXCEPT ![j] = x] /\ UNCHANGED unread
    BY <1>4 DEF Check, FitsGeneration
  <2>2. job[j].attempt + 1 \in 1 .. MaxAttempts
    BY <1>1, <1>4, AccessAssumption DEF Refresh, MayRetry
  <2>3. x \in Refresh /\ x.step = "connection" /\ x.user = u /\ x.generation = job[j].generation
    BY <1>1, <2>2 DEF Refresh
  <2>4. x # Idle
    BY <2>3 DEF Refresh, Idle
  <2> HIDE DEF x
  <2>5. RefreshFits(j)'
    <3>1. job'[j] = x /\ UNCHANGED grants
      BY <1>1, <2>1, <2>3, JobType DEF FullInv
    <3>2. QED  BY <1>2, <2>3, <3>1 DEF RefreshFits
  <2>6. QED  BY <1>1, <2>1, <2>3, <2>4, <2>5, MoveRefresh
<1>5. CASE ~(Connected(u) /\ Fits(j)) /\ ~(Connected(u) /\ FitsGeneration(j) /\ MayRetry(j))
  <2>1. Ends(j)
    BY <1>5 DEF Check, FitsGeneration
  <2>2. QED  BY <1>1, <2>1, MoveRefresh DEF Ends
<1>6. QED  BY <1>3, <1>4, <1>5

LEMMA WriteKeeps ==
  ASSUME FullInv, NEW j \in Job, Write(j)
  PROVE  FullInv'
<1> DEFINE u == job[j].user
<1>1. /\ Refreshing(j) /\ job[j].step = "write"
      /\ Goes(j, "commit") /\ UNCHANGED <<github, store, backlog, grants, acts, unread>>
      /\ u \in User
      /\ \A k \in Job \ {j} : ~HoldsAccess(k, u)
  BY JobKinds DEF Write, FullInv, WaitsFor
<1>2. \A k \in Job \ {j} : ~HoldsConnection(k, u)
  BY <1>1 DEF FullInv, AccessInv, LocksFit, HoldsConnection
<1>3. RefreshFits(j)
  BY <1>1 DEF FullInv, AccessInv, JobsFit
<1>4. PICK x \in Refresh :
           /\ job' = [job EXCEPT ![j] = x] /\ x # Idle
           /\ x.step = "commit" /\ x.user = job[j].user
           /\ job'[j] = x /\ x.generation = job[j].generation /\ x.version = job[j].version
           /\ x.fenced = job[j].fenced
  BY <1>1, GoesType DEF store
<1>5. RefreshFits(j)'
  <2>1. UNCHANGED <<connection, grants>>
    BY <1>1 DEF store
  <2>2. QED  BY <1>1, <1>3, <1>4, <2>1
             DEF RefreshFits, Fits, FitsGeneration, FitsVersion, Connected
<1>6. QED  BY <1>1, <1>2, <1>4, <1>5, MoveRefresh

-----------------------------------------------------------------------------
(* Grants, and what else replaces a user's rows. *)

\* What is left of the jobs when a row of u is gone and some jobs may have ended.
LEMMA WithoutType ==
  ASSUME TypeOK, NEW u \in User, NEW jobs \in [Job -> Refresh \cup Narrow \cup {Idle}],
         \A k \in Job : jobs[k] = job[k] \/ jobs[k] = Idle,
         job' = Without(u, jobs)
  PROVE  /\ job' \in [Job -> Refresh \cup Narrow \cup {Idle}]
         /\ \A k \in Job :
              /\ Refreshing(k)' => Refreshing(k) /\ job'[k] = job[k]
              /\ Refreshing(k) /\ jobs[k] = job[k] => job'[k] = job[k]
              /\ Narrowing(k)' =>
                   /\ Narrowing(k) /\ job'[k].left = job[k].left \ {u}
                   /\ job'[k].returned = job[k].returned /\ job'[k].bumped = job[k].bumped
         /\ \A k \in Job, v \in User :
              /\ HoldsConnection(k, v)' => HoldsConnection(k, v)
              /\ HoldsAccess(k, v)' => HoldsAccess(k, v)
<1>1. \A k \in Job :
        job'[k] = IF jobs[k].is = "narrow" THEN [jobs[k] EXCEPT !.left = @ \ {u}] ELSE jobs[k]
  BY DEF Without
<1>2. \A x \in Narrow :
        /\ [x EXCEPT !.left = @ \ {u}] \in Narrow
        /\ [x EXCEPT !.left = @ \ {u}].is = "narrow"
        /\ [x EXCEPT !.left = @ \ {u}].left = x.left \ {u}
        /\ [x EXCEPT !.left = @ \ {u}].returned = x.returned
        /\ [x EXCEPT !.left = @ \ {u}].bumped = x.bumped
  BY DEF Narrow
<1>3. \A k \in Job : /\ jobs[k].is = "narrow" => jobs[k] \in Narrow
                     /\ jobs[k].is # "narrow" => jobs[k] \in Refresh \cup {Idle}
                     /\ jobs[k] = Idle => jobs[k].is = "idle"
                     /\ jobs[k] \in Refresh => jobs[k].is = "refresh"
  BY DEF Refresh, Narrow, Idle
<1>4. \A k \in Job : job'[k] \in Refresh \cup Narrow \cup {Idle}
  BY <1>1, <1>2, <1>3
<1>5. job' = [k \in Job |-> job'[k]]
  BY DEF Without
<1>6. ASSUME NEW k \in Job
      PROVE  /\ Refreshing(k)' => Refreshing(k) /\ job'[k] = job[k]
             /\ Refreshing(k) /\ jobs[k] = job[k] => job'[k] = job[k]
             /\ Narrowing(k)' =>
                   /\ Narrowing(k) /\ job'[k].left = job[k].left \ {u}
                   /\ job'[k].returned = job[k].returned /\ job'[k].bumped = job[k].bumped
  <2>1. CASE jobs[k].is = "narrow"
    <3>1. job'[k] = [jobs[k] EXCEPT !.left = @ \ {u}] /\ jobs[k] \in Narrow /\ jobs[k] # Idle
      BY <1>1, <1>3, <2>1
    <3>2. jobs[k] = job[k]
      BY <3>1
    <3>3. job'[k].is = "narrow"
      BY <1>2, <3>1
    <3>4. QED  BY <1>2, <2>1, <3>1, <3>2, <3>3 DEF Refreshing, Narrowing
  <2>2. CASE jobs[k].is # "narrow"
    <3>1. job'[k] = jobs[k]
      BY <1>1, <2>2
    <3>2. QED  BY <1>3, <2>2, <3>1 DEF Refreshing, Narrowing
  <2>3. QED  BY <2>1, <2>2
<1>7. \A k \in Job, v \in User :
        /\ HoldsConnection(k, v)' => HoldsConnection(k, v)
        /\ HoldsAccess(k, v)' => HoldsAccess(k, v)
  BY <1>6 DEF HoldsConnection, HoldsAccess
<1>8. QED  BY <1>4, <1>5, <1>6, <1>7

\* Disconnecting and connecting: nobody holds the rows, and a new connection has a
\* generation of its own.
LEMMA RegrantKeeps ==
  ASSUME FullInv, NEW u \in User, Unlocked(u),
         NEW c \in Connection \cup {NoConnection}, connection' = [connection EXCEPT ![u] = c],
         access' = [access EXCEPT ![u] = NoRow],
         NEW jobs \in [Job -> Refresh \cup Narrow \cup {Idle}],
         \A k \in Job : jobs[k] = job[k] \/ jobs[k] = Idle,
         job' = Without(u, jobs),
         grants' \in Nat, grants <= grants', grants' <= acts',
         c # NoConnection => grants' = grants + 1 /\ c.generation = grants'
  PROVE  /\ AccessInv'
         /\ job' \in [Job -> Refresh \cup Narrow \cup {Idle}]
         /\ connection' \in [User -> Connection \cup {NoConnection}]
         /\ access' \in [User -> AccessRow \cup {NoRow}]
         /\ \A k \in Job, v \in User : Awaits(k, v) /\ jobs[k] = job[k] => Awaits(k, v)'
<1>1. TypeOK /\ grants \in Nat
  BY DEF FullInv, TypeOK
<1>2. /\ job' \in [Job -> Refresh \cup Narrow \cup {Idle}]
      /\ \A k \in Job :
           /\ Refreshing(k)' => Refreshing(k) /\ job'[k] = job[k]
           /\ Refreshing(k) /\ jobs[k] = job[k] => job'[k] = job[k]
           /\ Narrowing(k)' =>
                /\ Narrowing(k) /\ job'[k].left = job[k].left \ {u}
                /\ job'[k].returned = job[k].returned /\ job'[k].bumped = job[k].bumped
      /\ \A k \in Job, v \in User :
           /\ HoldsConnection(k, v)' => HoldsConnection(k, v)
           /\ HoldsAccess(k, v)' => HoldsAccess(k, v)
  BY <1>1, WithoutType
<1>3. /\ connection' \in [User -> Connection \cup {NoConnection}] /\ connection'[u] = c
      /\ access' \in [User -> AccessRow \cup {NoRow}] /\ access'[u] = NoRow
      /\ \A v \in User \ {u} : connection'[v] = connection[v] /\ access'[v] = access[v]
  BY <1>1 DEF TypeOK
<1>4. GrantsFit'
  <2>1. \A v \in User : Connected(v) => connection[v].generation \in Nat
    BY <1>1, ConnectionKinds
  <2>2. QED  BY <1>1, <1>3, <2>1 DEF FullInv, AccessInv, GrantsFit, Connected
<1>5. LocksFit'
  BY <1>2 DEF FullInv, AccessInv, LocksFit
<1>6. ASSUME NEW k \in Job, Narrowing(k)' PROVE NarrowFits(k)'
  <2>1. NarrowFits(k)
    BY <1>2, <1>6 DEF FullInv, AccessInv, JobsFit
  <2>2. u \notin job[k].returned /\ u \notin job[k].bumped
    BY <1>2, <1>6 DEF Unlocked, HoldsConnection, HoldsAccess
  <2>3. job[k].left \subseteq User /\ job[k].returned \subseteq User /\ job[k].bumped \subseteq User
    BY <1>1, <1>2, <1>6, JobKinds
  <2>4. QED  BY <1>2, <1>3, <1>6, <2>1, <2>2, <2>3 DEF NarrowFits, HasRow, Connected
<1>7. ASSUME NEW k \in Job, Refreshing(k)' PROVE RefreshFits(k)'
  <2>1. Refreshing(k) /\ job'[k] = job[k] /\ RefreshFits(k)
    BY <1>2, <1>7 DEF FullInv, AccessInv, JobsFit
  <2>2. job[k].user \in User /\ job[k].generation \in Nat
    BY <1>1, <2>1, JobKinds, AccessAssumption DEF Refresh
  <2>3. CASE job[k].user = u
    <3>1. job[k].step \notin {"write", "commit"}
      BY <2>1, <2>3 DEF Unlocked, HoldsConnection
    <3>2. job[k].generation <= grants
      BY <2>1 DEF RefreshFits
    <3>3. ~(Connected(u)' /\ connection'[u].generation = job[k].generation)
      BY <1>1, <1>3, <2>2, <3>2 DEF Connected
    <3>4. job'[k].generation <= grants'
      BY <1>1, <2>1, <2>2, <3>2
    <3>5. QED  BY <2>1, <2>3, <3>1, <3>3, <3>4 DEF RefreshFits, FitsGeneration, Connected
  <2>4. CASE job[k].user # u
    <3>1. connection'[job[k].user] = connection[job[k].user]
      BY <1>3, <2>2, <2>4
    <3>2. job'[k].generation <= grants'
      BY <1>1, <2>1, <2>2 DEF RefreshFits
    <3>3. QED  BY <2>1, <3>1, <3>2 DEF RefreshFits, Fits, FitsGeneration, FitsVersion, Connected
  <2>5. QED  BY <2>3, <2>4
<1>8. JobsFit'
  BY <1>6, <1>7 DEF JobsFit
<1>9. CurrentGrantOnly'
  BY <1>3 DEF FullInv, AccessInv, CurrentGrantOnly, HasRow, Connected
<1>10. \A k \in Job, v \in User : Awaits(k, v) /\ jobs[k] = job[k] => Awaits(k, v)'
  BY <1>2 DEF Awaits, Refreshing
<1>11. QED  BY <1>2, <1>3, <1>4, <1>5, <1>8, <1>9, <1>10 DEF AccessInv

LEMMA DisconnectedKeeps ==
  ASSUME FullInv, NEW u \in User, DisconnectWith(u, job), grants' = grants, grants <= acts',
         UNCHANGED <<backlog, unread>>
  PROVE  /\ AccessInv' /\ ChangesReread'
         /\ job' \in [Job -> Refresh \cup Narrow \cup {Idle}]
         /\ connection' \in [User -> Connection \cup {NoConnection}]
         /\ access' \in [User -> AccessRow \cup {NoRow}]
<1>1. job \in [Job -> Refresh \cup Narrow \cup {Idle}] /\ grants \in Nat
  BY DEF FullInv, TypeOK
<1>2. grants' \in Nat /\ grants <= grants' /\ grants' <= acts'
  BY <1>1
<1>3. /\ AccessInv'
      /\ job' \in [Job -> Refresh \cup Narrow \cup {Idle}]
      /\ connection' \in [User -> Connection \cup {NoConnection}]
      /\ access' \in [User -> AccessRow \cup {NoRow}]
      /\ \A k \in Job, v \in User : Awaits(k, v) /\ job[k] = job[k] => Awaits(k, v)'
  BY <1>1, <1>2, RegrantKeeps DEF DisconnectWith
<1>4. ChangesReread'
  BY <1>3, RereadStep DEF InQueue
<1>5. QED  BY <1>3, <1>4

LEMMA DisconnectKeeps ==
  ASSUME FullInv, NEW u \in User, Disconnect(u)
  PROVE  FullInv'
<1>1. /\ acts < MaxActs /\ acts' = acts + 1 /\ DisconnectWith(u, job)
      /\ UNCHANGED <<github, accepted, active, backlog, grants, unread>>
  BY DEF Disconnect, Act
<1>2. acts' \in 0 .. MaxActs /\ grants <= acts'
  BY <1>1, AccessAssumption DEF FullInv, TypeOK, AccessInv, GrantsFit
<1>3. /\ AccessInv' /\ ChangesReread'
      /\ job' \in [Job -> Refresh \cup Narrow \cup {Idle}]
      /\ connection' \in [User -> Connection \cup {NoConnection}]
      /\ access' \in [User -> AccessRow \cup {NoRow}]
  BY <1>1, <1>2, DisconnectedKeeps
<1>4. QED  BY <1>1, <1>2, <1>3 DEF FullInv, TypeOK, github

LEMMA ConnectKeeps ==
  ASSUME FullInv, NEW u \in User, Connect(u)
  PROVE  FullInv'
<1> DEFINE c == [generation |-> grants + 1,
                 version |-> IF Connected(u) THEN connection[u].version ELSE 0, synced |-> FALSE]
<1>1. /\ acts < MaxActs /\ acts' = acts + 1 /\ grants' = grants + 1 /\ Unlocked(u)
      /\ access' = [access EXCEPT ![u] = NoRow]
      /\ connection' = [connection EXCEPT ![u] = c]
      /\ job' = Without(u, job)
      /\ UNCHANGED <<github, accepted, active, backlog, unread>>
  BY DEF Connect, Act
<1>2. /\ acts \in Nat /\ grants \in Nat /\ grants <= acts /\ acts' \in 0 .. MaxActs
      /\ grants' \in 0 .. MaxActs /\ grants' \in 1 .. MaxActs
      /\ grants' \in Nat /\ grants <= grants' /\ grants' <= acts'
  BY <1>1, AccessAssumption DEF FullInv, TypeOK, AccessInv, GrantsFit
<1>3. c \in Connection /\ c.generation = grants'
  <2>1. (IF Connected(u) THEN connection[u].version ELSE 0) \in Nat
    BY ConnectionKinds DEF FullInv
  <2>2. QED  BY <1>1, <1>2, <2>1 DEF Connection
<1> HIDE DEF c
<1>4. job \in [Job -> Refresh \cup Narrow \cup {Idle}]
  BY DEF FullInv, TypeOK
<1>5. /\ AccessInv'
      /\ job' \in [Job -> Refresh \cup Narrow \cup {Idle}]
      /\ connection' \in [User -> Connection \cup {NoConnection}]
      /\ access' \in [User -> AccessRow \cup {NoRow}]
      /\ \A k \in Job, v \in User : Awaits(k, v) /\ job[k] = job[k] => Awaits(k, v)'
  BY <1>1, <1>2, <1>3, <1>4, RegrantKeeps
<1>6. ChangesReread'
  BY <1>1, <1>5, RereadStep DEF InQueue
<1>7. QED  BY <1>1, <1>2, <1>5, <1>6 DEF FullInv, TypeOK, github

LEMMA TokenKeeps ==
  ASSUME FullInv, NEW j \in Job, Token(j)
  PROVE  FullInv'
<1>1. /\ Refreshing(j) /\ job[j].step = "token" /\ Unlocked(job[j].user)
      /\ UNCHANGED <<github, accepted, active, backlog, grants, acts>>
      /\ job[j].user \in User
  BY JobKinds DEF Token, FullInv
<1>2. CASE Goes(j, "list") /\ UNCHANGED <<connection, access, unread>>
  <2>1. RefreshFits(j)
    BY <1>1 DEF FullInv, AccessInv, JobsFit
  <2>2. PICK x \in Refresh :
           /\ job' = [job EXCEPT ![j] = x] /\ x # Idle
           /\ x.step = "list" /\ x.user = job[j].user
           /\ job'[j] = x /\ x.generation = job[j].generation /\ x.version = job[j].version
           /\ x.fenced = job[j].fenced
    BY <1>1, <1>2, GoesType
  <2>3. RefreshFits(j)'
    BY <1>1, <1>2, <2>1, <2>2 DEF RefreshFits, FitsGeneration, Connected
  <2>4. QED  BY <1>1, <1>2, <2>2, <2>3, MoveRefresh DEF store
<1>3. CASE DisconnectWith(job[j].user, [job EXCEPT ![j] = Idle]) /\ unread' = unread \ {job[j].user}
  <2>1. PICK u \in User : u = job[j].user /\ DisconnectWith(u, [job EXCEPT ![j] = Idle])
    BY <1>1, <1>3
  <2>2. PICK jobs \in [Job -> Refresh \cup Narrow \cup {Idle}] : jobs = [job EXCEPT ![j] = Idle]
    BY DEF FullInv, TypeOK
  <2>3. \A k \in Job : /\ jobs[k] = job[k] \/ jobs[k] = Idle
                       /\ k # j => jobs[k] = job[k]
    BY <2>2 DEF FullInv, TypeOK
  <2>4. grants \in Nat /\ grants' \in Nat /\ grants <= grants' /\ grants' <= acts'
    BY <1>1 DEF FullInv, TypeOK, AccessInv, GrantsFit
  <2>5. /\ AccessInv'
        /\ job' \in [Job -> Refresh \cup Narrow \cup {Idle}]
        /\ connection' \in [User -> Connection \cup {NoConnection}]
        /\ access' \in [User -> AccessRow \cup {NoRow}]
        /\ \A k \in Job, v \in User : Awaits(k, v) /\ jobs[k] = job[k] => Awaits(k, v)'
    <3>1. /\ Unlocked(u)
          /\ connection' = [connection EXCEPT ![u] = NoConnection]
          /\ access' = [access EXCEPT ![u] = NoRow]
          /\ job' = Without(u, jobs)
      BY <2>1, <2>2 DEF DisconnectWith
    <3>2. QED  BY <2>3, <2>4, <3>1, RegrantKeeps
  <2>6. ChangesReread'
    <3>1. \A k \in Job, v \in User : Awaits(k, v) => Awaits(k, v)' \/ v \notin unread'
      BY <1>3, <2>3, <2>5 DEF Awaits
    <3>2. QED  BY <1>1, <1>3, <3>1, RereadStep DEF InQueue
  <2>7. TypeOK'
    BY <1>1, <1>3, <2>5 DEF FullInv, TypeOK, github
  <2>8. QED  BY <2>5, <2>6, <2>7 DEF FullInv
<1>4. QED  BY <1>2, <1>3 DEF Token

\* The listing replaces the row: the refresh holds both of the user's rows, and fits.
LEMMA StoreListingKeeps ==
  ASSUME FullInv, NEW j \in Job, StoreListing(j)
  PROVE  FullInv'
<1>1. PICK u \in User : /\ u = job[j].user
                        /\ Refreshing(j) /\ job[j].step = "commit" /\ job[j] \in Refresh
  BY JobKinds DEF StoreListing, FullInv
<1> DEFINE row == IF job[j].list = {} THEN NoRow
                  ELSE [generation |-> job[j].generation, repos |-> job[j].list]
           c == [connection[u] EXCEPT !.synced = TRUE]
<1>2. /\ access' = [access EXCEPT ![u] = row]
      /\ connection' = [connection EXCEPT ![u] = c]
      /\ job' = Without(u, [job EXCEPT ![j] = Idle])
      /\ UNCHANGED <<github, accepted, active, backlog, grants, acts, unread>>
  BY <1>1 DEF StoreListing
<1>3. /\ Connected(u) /\ connection[u] \in Connection
      /\ connection[u].generation = job[j].generation /\ connection[u].generation \in 1 .. MaxActs
      /\ connection[u].generation <= grants
  <2>1. Connected(u) /\ connection[u].generation = job[j].generation
    BY <1>1 DEF FullInv, AccessInv, JobsFit, RefreshFits, Fits, FitsGeneration
  <2>2. QED  BY <2>1, ConnectionKinds DEF FullInv, AccessInv, GrantsFit
<1>4. /\ c \in Connection /\ c.generation = connection[u].generation
      /\ c.version = connection[u].version /\ c.synced /\ c # NoConnection
  BY <1>3, ConnectionKinds DEF FullInv, Connection
<1>5. row \in AccessRow \cup {NoRow} /\ (row # NoRow => row.generation = connection[u].generation)
  BY <1>1, <1>3 DEF AccessRow, Refresh
<1> HIDE DEF row, c
<1>6. PICK jobs \in [Job -> Refresh \cup Narrow \cup {Idle}] : jobs = [job EXCEPT ![j] = Idle]
  BY DEF FullInv, TypeOK
<1>7. \A k \in Job : /\ jobs[k] = job[k] \/ jobs[k] = Idle
                     /\ k # j => jobs[k] = job[k]
                     /\ jobs[j].is = "idle"
  BY <1>6 DEF FullInv, TypeOK, Idle
<1>8. /\ job' \in [Job -> Refresh \cup Narrow \cup {Idle}]
      /\ \A k \in Job :
           /\ Refreshing(k)' => Refreshing(k) /\ job'[k] = job[k]
           /\ Refreshing(k) /\ jobs[k] = job[k] => job'[k] = job[k]
           /\ Narrowing(k)' =>
                /\ Narrowing(k) /\ job'[k].left = job[k].left \ {u}
                /\ job'[k].returned = job[k].returned /\ job'[k].bumped = job[k].bumped
      /\ \A k \in Job, v \in User :
           /\ HoldsConnection(k, v)' => HoldsConnection(k, v)
           /\ HoldsAccess(k, v)' => HoldsAccess(k, v)
  BY <1>2, <1>6, <1>7, WithoutType DEF FullInv
<1>9. ~Refreshing(j)' /\ ~Narrowing(j)'
  BY <1>2, <1>6, <1>7 DEF Without, Refreshing, Narrowing
<1>10. /\ connection' \in [User -> Connection \cup {NoConnection}] /\ connection'[u] = c
       /\ access' \in [User -> AccessRow \cup {NoRow}] /\ access'[u] = row
       /\ \A v \in User \ {u} : connection'[v] = connection[v] /\ access'[v] = access[v]
  BY <1>2, <1>4, <1>5 DEF FullInv, TypeOK
<1>11. HoldsConnection(j, u) /\ HoldsAccess(j, u)
  BY <1>1 DEF HoldsConnection, HoldsAccess
<1>12. \A k \in Job \ {j} : ~HoldsConnection(k, u) /\ ~HoldsAccess(k, u)
  BY <1>11 DEF FullInv, AccessInv, LocksFit
<1>13. GrantsFit'
  BY <1>2, <1>3, <1>4, <1>10 DEF FullInv, AccessInv, GrantsFit, Connected
<1>14. LocksFit'
  BY <1>8 DEF FullInv, AccessInv, LocksFit
<1>15. ASSUME NEW k \in Job, Narrowing(k)' PROVE NarrowFits(k)'
  <2>1. k # j /\ NarrowFits(k)
    BY <1>8, <1>9, <1>15 DEF FullInv, AccessInv, JobsFit
  <2>2. u \notin job[k].returned
    BY <1>8, <1>12, <1>15, <2>1 DEF HoldsAccess
  <2>3. job[k].left \subseteq User /\ job[k].returned \subseteq User /\ job[k].bumped \subseteq User
    BY <1>8, <1>15, JobKinds DEF FullInv
  <2>4. Connected(u)' /\ \A v \in User \ {u} : /\ HasRow(v) => HasRow(v)'
                                               /\ Connected(v) => Connected(v)'
    BY <1>4, <1>10 DEF HasRow, Connected
  <2>5. QED  BY <1>8, <1>15, <2>1, <2>2, <2>3, <2>4 DEF NarrowFits
<1>16. ASSUME NEW k \in Job, Refreshing(k)' PROVE RefreshFits(k)'
  <2>1. k # j /\ Refreshing(k) /\ job'[k] = job[k] /\ RefreshFits(k) /\ job[k].user \in User
    BY <1>8, <1>9, <1>16, JobKinds DEF FullInv, AccessInv, JobsFit
  <2>2. \A v \in User : /\ connection'[v].generation = connection[v].generation
                        /\ connection'[v].version = connection[v].version
                        /\ Connected(v)' <=> Connected(v)
    BY <1>3, <1>4, <1>10 DEF Connected
  <2>3. QED  BY <1>2, <2>1, <2>2 DEF RefreshFits, Fits, FitsGeneration, FitsVersion
<1>17. CurrentGrantOnly'
  BY <1>4, <1>5, <1>10 DEF FullInv, AccessInv, CurrentGrantOnly, HasRow, Connected
<1>18. AccessInv'
  BY <1>13, <1>14, <1>15, <1>16, <1>17 DEF AccessInv, JobsFit
<1>19. ChangesReread'
  <2>1. \A k \in Job, v \in User : Awaits(k, v) => Awaits(k, v)'
    BY <1>1, <1>7, <1>8 DEF Awaits, Refreshing
  <2>2. QED  BY <1>2, <2>1, RereadStep DEF InQueue
<1>20. TypeOK'
  BY <1>2, <1>8, <1>10 DEF FullInv, TypeOK, github
<1>21. QED  BY <1>18, <1>19, <1>20 DEF FullInv

-----------------------------------------------------------------------------
(* GitHub, and webhooks that change no access row. *)

LEMMA QuietKeeps ==
  ASSUME FullInv, UNCHANGED <<connection, access, job, backlog, grants, acts, unread>>
  PROVE  AccessInv' /\ ChangesReread'
<1>1. AccessInv'
  <2>1. GrantsFit' /\ CurrentGrantOnly'
    BY DEF FullInv, AccessInv, GrantsFit, CurrentGrantOnly, Connected, HasRow
  <2>2. LocksFit'
    BY DEF FullInv, AccessInv, LocksFit, HoldsConnection, HoldsAccess, Refreshing, Narrowing
  <2>3. JobsFit'
    BY DEF FullInv, AccessInv, JobsFit, NarrowFits, RefreshFits, Refreshing, Narrowing, HasRow,
           Connected, Fits, FitsGeneration, FitsVersion
  <2>4. QED  BY <2>1, <2>2, <2>3 DEF AccessInv
<1>2. ChangesReread'
  BY DEF FullInv, ChangesReread, InQueue, Refreshing
<1>3. QED  BY <1>1, <1>2

LEMMA SendType ==
  ASSUME TypeOK, NEW c \in Change, Send(c)
  PROVE  /\ webhook' \in [1 .. MaxChanges -> Change \cup {NotSent}]
         /\ UNCHANGED <<store, job, backlog, grants, acts, unread>>
  BY DEF Send, TypeOK

LEMMA GitHubKeeps ==
  ASSUME FullInv, GitHub
  PROVE  FullInv'
<1>1. ASSUME NEW c \in Change, Send(c), allowed' \in [User -> SUBSET Repo], selection' \in SUBSET Repo
      PROVE  FullInv'
  <2>1. /\ webhook' \in [1 .. MaxChanges -> Change \cup {NotSent}]
        /\ UNCHANGED <<store, job, backlog, grants, acts, unread>>
    BY <1>1, SendType DEF FullInv
  <2>2. AccessInv' /\ ChangesReread'
    BY <2>1, QuietKeeps DEF store
  <2>3. QED  BY <1>1, <2>1, <2>2 DEF FullInv, TypeOK, store
<1>2. ASSUME NEW u \in User, NEW S \in SUBSET Repo, NEW b \in BOOLEAN, MemberChanges(u, S, b)
      PROVE  FullInv'
  <2>1. allowed' \in [User -> SUBSET Repo] /\ selection' \in SUBSET Repo
    BY <1>2 DEF MemberChanges, FullInv, TypeOK
  <2>2. [about |-> "member", user |-> u, cut |-> IF b THEN S ELSE {}, removal |-> b] \in Change
    BY DEF Change
  <2>3. QED  BY <1>1, <1>2, <2>1, <2>2 DEF MemberChanges
<1>3. ASSUME NEW U \in SUBSET User, NEW S \in SUBSET Repo, NEW b \in BOOLEAN, TeamChanges(U, S, b)
      PROVE  FullInv'
  <2>1. allowed' \in [User -> SUBSET Repo] /\ selection' \in SUBSET Repo
    BY <1>3 DEF TeamChanges, FullInv, TypeOK
  <2>2. [about |-> "team", user |-> NoUser, cut |-> IF b THEN S ELSE {}, removal |-> b] \in Change
    BY DEF Change
  <2>3. QED  BY <1>1, <1>3, <2>1, <2>2 DEF TeamChanges
<1>4. ASSUME NEW S \in SUBSET Repo, NEW b \in BOOLEAN, SelectionChanges(S, b)
      PROVE  FullInv'
  <2>1. allowed' \in [User -> SUBSET Repo] /\ selection' \in SUBSET Repo
    BY <1>4 DEF SelectionChanges, FullInv, TypeOK
  <2>2. [about |-> "selection", user |-> NoUser, cut |-> IF b THEN S \ selection' ELSE {},
         removal |-> TRUE] \in Change
    BY DEF Change
  <2>3. QED  BY <1>1, <1>4, <2>1, <2>2 DEF SelectionChanges
<1>5. ASSUME NEW b \in BOOLEAN, InstallationChanges(b)
      PROVE  FullInv'
  <2>1. allowed' \in [User -> SUBSET Repo] /\ selection' \in SUBSET Repo
    BY <1>5 DEF InstallationChanges, FullInv, TypeOK
  <2>2. [about |-> "installation", user |-> NoUser, cut |-> {}, removal |-> b] \in Change
    BY DEF Change
  <2>3. QED  BY <1>1, <1>5, <2>1, <2>2 DEF InstallationChanges
<1>6. ASSUME NEW u \in User, AuthorizationRevoked(u)
      PROVE  FullInv'
  <2>1. allowed' \in [User -> SUBSET Repo] /\ selection' \in SUBSET Repo
    BY <1>6 DEF AuthorizationRevoked, FullInv, TypeOK
  <2>2. [about |-> "authorization", user |-> u, cut |-> {}, removal |-> TRUE] \in Change
    BY DEF Change
  <2>3. QED  BY <1>1, <1>6, <2>1, <2>2 DEF AuthorizationRevoked
<1>7. QED  BY <1>2, <1>3, <1>4, <1>5, <1>6 DEF GitHub

LEMMA AcceptInstallationKeeps ==
  ASSUME FullInv, NEW w \in 1 .. MaxChanges, AcceptInstallation(w)
  PROVE  FullInv'
<1>1. /\ accepted' = accepted \cup {w} /\ active' = ~webhook[w].removal
      /\ UNCHANGED <<github, connection, access, job, backlog, grants, acts, unread>>
  BY DEF AcceptInstallation
<1>2. AccessInv' /\ ChangesReread'
  BY <1>1, QuietKeeps
<1>3. active' \in BOOLEAN /\ accepted' \in SUBSET (1 .. MaxChanges)
  BY <1>1 DEF FullInv, TypeOK
<1>4. QED  BY <1>1, <1>2, <1>3 DEF FullInv, TypeOK, github

LEMMA AcceptAuthorizationKeeps ==
  ASSUME FullInv, AuthorizationsNamed, NEW w \in 1 .. MaxChanges, AcceptAuthorization(w)
  PROVE  FullInv'
<1>1. /\ accepted' = accepted \cup {w} /\ accepted' \in SUBSET (1 .. MaxChanges)
      /\ UNCHANGED <<github, active, backlog, grants, acts, unread>>
  BY DEF AcceptAuthorization, FullInv, TypeOK
<1>2. grants <= acts'
  BY <1>1 DEF FullInv, AccessInv, GrantsFit
<1>3. webhook[w].user \in User
  BY DEF AcceptAuthorization, AuthorizationsNamed
<1>4. CASE Connected(webhook[w].user)
  <2>1. PICK u \in User : u = webhook[w].user
    BY <1>3
  <2>2. DisconnectWith(u, job)
    BY <1>4, <2>1 DEF AcceptAuthorization
  <2>3. /\ AccessInv' /\ ChangesReread'
        /\ job' \in [Job -> Refresh \cup Narrow \cup {Idle}]
        /\ connection' \in [User -> Connection \cup {NoConnection}]
        /\ access' \in [User -> AccessRow \cup {NoRow}]
    BY <1>1, <1>2, <2>2, DisconnectedKeeps
  <2>4. QED  BY <1>1, <2>3 DEF FullInv, TypeOK, github
<1>5. CASE ~Connected(webhook[w].user)
  <2>1. UNCHANGED <<connection, access, job>>
    BY <1>5 DEF AcceptAuthorization
  <2>2. AccessInv' /\ ChangesReread'
    BY <1>1, <2>1, QuietKeeps
  <2>3. QED  BY <1>1, <2>1, <2>2 DEF FullInv, TypeOK, github
<1>6. QED  BY <1>4, <1>5

\* What the steps of a narrowing have in common until it commits.
LEMMA MoveNarrow ==
  ASSUME FullInv, NEW j \in Job, ~Refreshing(j), NEW x \in Narrow \cup {Idle},
         job' = [job EXCEPT ![j] = x],
         UNCHANGED <<connection, access, grants, acts>>,
         x # Idle =>
           /\ NarrowFits(j)'
           /\ \A u \in User, k \in Job \ {j} :
                /\ u \in x.bumped => HoldsConnection(j, u) \/ ~HoldsConnection(k, u)
                /\ u \in x.returned => HoldsAccess(j, u) \/ ~HoldsAccess(k, u)
  PROVE  /\ job' \in [Job -> Refresh \cup Narrow \cup {Idle}]
         /\ AccessInv'
         /\ \A k \in Job, v \in User : Awaits(k, v) => Awaits(k, v)'
<1>1. /\ job' \in [Job -> Refresh \cup Narrow \cup {Idle}]
      /\ job'[j] = x /\ \A k \in Job \ {j} : job'[k] = job[k]
  BY JobType DEF FullInv
<1>2. ~Refreshing(j)' /\ (Narrowing(j)' <=> x # Idle)
  BY <1>1 DEF Narrowing, Refreshing, Narrow, Idle
<1>3. grants <= acts'
  BY DEF FullInv, AccessInv, GrantsFit
<1>4. \A u \in User, k \in Job \ {j} :
        /\ HoldsConnection(j, u)' => HoldsConnection(j, u) \/ ~HoldsConnection(k, u)
        /\ HoldsAccess(j, u)' => HoldsAccess(j, u) \/ ~HoldsAccess(k, u)
  <2>1. \A u \in User : /\ HoldsConnection(j, u)' => x # Idle /\ u \in x.bumped
                        /\ HoldsAccess(j, u)' => x # Idle /\ u \in x.returned
    BY <1>1, <1>2 DEF HoldsConnection, HoldsAccess
  <2>2. QED  BY <2>1
<1>5. AccessInv'
  BY <1>1, <1>2, <1>3, <1>4, LocalStep DEF FullInv
<1>6. \A k \in Job, v \in User : Awaits(k, v) => Awaits(k, v)'
  BY <1>1 DEF Awaits, Refreshing
<1>7. QED  BY <1>1, <1>5, <1>6

LEMMA AcceptKeeps ==
  ASSUME FullInv, NEW j \in Job, NEW w \in 1 .. MaxChanges, Accept(j, w)
  PROVE  FullInv'
<1> DEFINE x == NewNarrow(webhook[w])
<1>1. /\ job[j] = Idle /\ job' = [job EXCEPT ![j] = x] /\ webhook[w] \in Change
      /\ accepted' = accepted \cup {w}
      /\ UNCHANGED <<github, connection, access, active, backlog, grants, acts, unread>>
  BY DEF Accept, Delivered, FullInv, TypeOK
<1>2. /\ x \in Narrow /\ x.left = {} /\ x.returned = {} /\ x.bumped = {}
  BY <1>1 DEF NewNarrow, Narrow
<1> HIDE DEF x
<1>3. ~Refreshing(j) /\ job'[j] = x
  BY <1>1, <1>2, JobKinds, JobType DEF FullInv
<1>4. NarrowFits(j)'
  BY <1>2, <1>3 DEF NarrowFits
<1>5. /\ job' \in [Job -> Refresh \cup Narrow \cup {Idle}] /\ AccessInv'
      /\ \A k \in Job, v \in User : Awaits(k, v) => Awaits(k, v)'
  BY <1>1, <1>2, <1>3, <1>4, MoveNarrow
<1>6. TypeOK'
  BY <1>1, <1>5 DEF FullInv, TypeOK, github
<1>7. ChangesReread'
  BY <1>1, <1>5, RereadStep DEF InQueue
<1>8. QED  BY <1>5, <1>6, <1>7 DEF FullInv

\* A narrowing that is planned holds nothing yet.
LEMMA PlanKeeps ==
  ASSUME FullInv, NEW j \in Job, Narrowing(j), NEW cut \in SUBSET Repo,
         NEW direct \in User \cup {NoUser}, NEW after \in SUBSET User,
         Plan(j, cut, direct, after), UNCHANGED <<github, store, grants, acts>>
  PROVE  FullInv'
<1> DEFINE x == [job[j] EXCEPT !.step = "start", !.cut = cut, !.direct = direct,
                               !.after = after]
<1>1. job' = [job EXCEPT ![j] = x] /\ UNCHANGED <<backlog, unread>>
  BY DEF Plan
<1>2. job[j] \in Narrow /\ ~Refreshing(j)
  BY JobKinds DEF FullInv
<1>3. /\ x \in Narrow /\ x.left = job[j].left /\ x.returned = job[j].returned
      /\ x.bumped = job[j].bumped
  BY <1>2 DEF Narrow
<1> HIDE DEF x
<1>4. job'[j] = x
  BY <1>1, <1>3, JobType DEF FullInv
<1>5. NarrowFits(j)
  BY DEF FullInv, AccessInv, JobsFit
<1>6. NarrowFits(j)'
  BY <1>3, <1>4, <1>5 DEF NarrowFits, HasRow, Connected, store
<1>7. /\ job' \in [Job -> Refresh \cup Narrow \cup {Idle}] /\ AccessInv'
      /\ \A k \in Job, v \in User : Awaits(k, v) => Awaits(k, v)'
  BY <1>1, <1>2, <1>3, <1>6, MoveNarrow DEF HoldsConnection, HoldsAccess, store
<1>8. TypeOK'
  BY <1>1, <1>7 DEF FullInv, TypeOK, github, store
<1>9. ChangesReread'
  BY <1>1, <1>7, RereadStep DEF InQueue
<1>10. QED  BY <1>7, <1>8, <1>9 DEF FullInv

\* An addition changes no access row: whoever it concerns is queued.
LEMMA ScheduledKeeps ==
  ASSUME FullInv, NEW j \in Job, Narrowing(j), NEW U \in SUBSET User,
         job' = [job EXCEPT ![j] = Idle], Schedule(U), unread' = unread \cup U,
         UNCHANGED <<github, store, grants, acts>>
  PROVE  FullInv'
<1>1. ~Refreshing(j)
  BY JobKinds DEF FullInv
<1>2. /\ job' \in [Job -> Refresh \cup Narrow \cup {Idle}] /\ AccessInv'
      /\ \A k \in Job, v \in User : Awaits(k, v) => Awaits(k, v)'
  BY <1>1, MoveNarrow DEF store
<1>3. backlog' \in Seq(User) /\ InQueue' = InQueue \cup U
  BY Scheduled DEF FullInv
<1>4. unread' \in SUBSET User
  BY DEF FullInv, TypeOK
<1>5. TypeOK'
  BY <1>2, <1>3, <1>4 DEF FullInv, TypeOK, github, store
<1>6. ChangesReread'
  BY <1>2, <1>3, RereadStep
<1>7. QED  BY <1>2, <1>5, <1>6 DEF FullInv

LEMMA ReadChangeKeeps ==
  ASSUME FullInv, NEW j \in Job, ReadChange(j)
  PROVE  FullInv'
<1>1. /\ Narrowing(j) /\ UNCHANGED <<github, store, grants, acts>>
      /\ job[j] \in Narrow /\ job[j].change \in Change
  BY JobKinds DEF ReadChange, FullInv, Narrow
<1>2. AccessUsers \in SUBSET User
  BY DEF AccessUsers
<1>3. CASE job[j].change.about = "selection"
  <2>1. job[j].change.cut \in SUBSET Repo
    BY <1>1 DEF Change
  <2>2. PlanSelection(j)
    BY <1>3 DEF ReadChange
  <2>3. \E cut \in SUBSET Repo, after \in SUBSET User : Plan(j, cut, NoUser, after)
    BY <1>2, <2>1, <2>2 DEF PlanSelection
  <2>4. QED  BY <1>1, <2>3, PlanKeeps
<1>4. CASE job[j].change.about # "selection"
  <2> DEFINE c == job[j].change
             users == IF c.user = NoUser THEN AccessUsers ELSE {u \in {c.user} : Connected(u)}
  <2>1. PlanAccessChange(j)
    BY <1>4 DEF ReadChange
  <2>2. c.cut \in SUBSET Repo /\ c.user \in User \cup {NoUser}
    BY <1>1 DEF Change
  <2>3. users \in SUBSET User
    BY <1>2, <2>2
  <2>4. CASE c.removal /\ (c.user # NoUser => users # {})
    <3>1. Plan(j, c.cut, c.user, users)
      BY <2>1, <2>4 DEF PlanAccessChange
    <3> HIDE DEF users, c
    <3>2. QED  BY <1>1, <2>2, <2>3, <3>1, PlanKeeps
  <2>5. CASE ~(c.removal /\ (c.user # NoUser => users # {}))
    <3>1. job' = [job EXCEPT ![j] = Idle] /\ Schedule(users) /\ unread' = unread \cup users
      BY <2>1, <2>5 DEF PlanAccessChange
    <3>2. PICK U \in SUBSET User : Schedule(U) /\ unread' = unread \cup U
      BY <2>3, <3>1
    <3>3. QED  BY <1>1, <3>1, <3>2, ScheduledKeeps
  <2>6. QED  BY <2>4, <2>5
<1>5. QED  BY <1>3, <1>4

\* The statements of the narrowing: it takes a row only when no other job holds it.
LEMMA NarrowStepKeeps ==
  ASSUME FullInv, NEW j \in Job, Narrowing(j), NEW x \in Narrow,
         job' = [job EXCEPT ![j] = x],
         UNCHANGED <<github, store, backlog, grants, acts, unread>>,
         \A u \in x.left \cup x.returned : HasRow(u),
         \A u \in x.bumped : Connected(u),
         \A u \in User, k \in Job \ {j} :
           /\ u \in x.bumped => HoldsConnection(j, u) \/ ~HoldsConnection(k, u)
           /\ u \in x.returned => HoldsAccess(j, u) \/ ~HoldsAccess(k, u)
  PROVE  FullInv'
<1>1. ~Refreshing(j) /\ job'[j] = x
  BY JobKinds, JobType DEF FullInv
<1>2. NarrowFits(j)'
  BY <1>1 DEF NarrowFits, HasRow, Connected, store
<1>3. /\ job' \in [Job -> Refresh \cup Narrow \cup {Idle}] /\ AccessInv'
      /\ \A k \in Job, v \in User : Awaits(k, v) => Awaits(k, v)'
  BY <1>1, <1>2, MoveNarrow DEF store
<1>4. TypeOK'
  BY <1>3 DEF FullInv, TypeOK, github, store
<1>5. ChangesReread'
  BY <1>3, RereadStep DEF InQueue
<1>6. QED  BY <1>3, <1>4, <1>5 DEF FullInv

LEMMA StartNarrowKeeps ==
  ASSUME FullInv, NEW j \in Job, StartNarrow(j)
  PROVE  FullInv'
<1> DEFINE x == [job[j] EXCEPT !.step = "rows", !.left = {u \in User : HasRow(u) /\ InScope(j, u)}]
<1>1. /\ Narrowing(j) /\ job[j] \in Narrow /\ NarrowFits(j) /\ job' = [job EXCEPT ![j] = x]
      /\ UNCHANGED <<github, store, backlog, grants, acts, unread>>
  BY JobKinds DEF StartNarrow, FullInv, AccessInv, JobsFit
<1>2. /\ x \in Narrow /\ x.left = {u \in User : HasRow(u) /\ InScope(j, u)}
      /\ x.returned = job[j].returned /\ x.bumped = job[j].bumped
  BY <1>1 DEF Narrow
<1> HIDE DEF x
<1>3. \A u \in x.left \cup x.returned : HasRow(u)
  BY <1>1, <1>2 DEF NarrowFits
<1>4. QED  BY <1>1, <1>2, <1>3, NarrowStepKeeps DEF NarrowFits, HoldsConnection, HoldsAccess

LEMMA RewriteRowKeeps ==
  ASSUME FullInv, NEW j \in Job, NEW u \in User, RewriteRow(j, u)
  PROVE  FullInv'
<1> DEFINE x == [job[j] EXCEPT !.left = @ \ {u}, !.returned = @ \cup {u}]
<1>1. /\ Narrowing(j) /\ job[j] \in Narrow /\ NarrowFits(j) /\ job' = [job EXCEPT ![j] = x]
      /\ u \in job[j].left /\ \A k \in Job \ {j} : ~HoldsAccess(k, u)
      /\ UNCHANGED <<github, store, backlog, grants, acts, unread>>
  BY JobKinds DEF RewriteRow, FullInv, AccessInv, JobsFit
<1>2. /\ x \in Narrow /\ x.left = job[j].left \ {u}
      /\ x.returned = job[j].returned \cup {u} /\ x.bumped = job[j].bumped
  BY <1>1 DEF Narrow
<1> HIDE DEF x
<1>3. \A v \in x.left \cup x.returned : HasRow(v)
  BY <1>1, <1>2 DEF NarrowFits
<1>4. /\ \A v \in x.bumped : Connected(v) /\ HoldsConnection(j, v)
      /\ \A v \in x.returned \ {u} : HoldsAccess(j, v)
  BY <1>1, <1>2 DEF NarrowFits, HoldsConnection, HoldsAccess
<1>5. \A v \in User, k \in Job \ {j} :
        /\ v \in x.bumped => HoldsConnection(j, v) \/ ~HoldsConnection(k, v)
        /\ v \in x.returned => HoldsAccess(j, v) \/ ~HoldsAccess(k, v)
  BY <1>1, <1>2, <1>3, <1>4
<1>6. QED  BY <1>1, <1>2, <1>3, <1>4, <1>5, NarrowStepKeeps

LEMMA RowsDoneKeeps ==
  ASSUME FullInv, NEW j \in Job, RowsDone(j)
  PROVE  FullInv'
<1> DEFINE x == [job[j] EXCEPT !.step = "bump"]
<1>1. /\ Narrowing(j) /\ job[j] \in Narrow /\ NarrowFits(j) /\ job' = [job EXCEPT ![j] = x]
      /\ UNCHANGED <<github, store, backlog, grants, acts, unread>>
  BY JobKinds DEF RowsDone, Goes, FullInv, AccessInv, JobsFit
<1>2. /\ x \in Narrow /\ x.left = job[j].left
      /\ x.returned = job[j].returned /\ x.bumped = job[j].bumped
  BY <1>1 DEF Narrow
<1> HIDE DEF x
<1>3. QED  BY <1>1, <1>2, NarrowStepKeeps DEF NarrowFits, HoldsConnection, HoldsAccess

LEMMA BumpKeeps ==
  ASSUME FullInv, NEW j \in Job, NEW u \in User, Bump(j, u)
  PROVE  FullInv'
<1> DEFINE x == [job[j] EXCEPT !.bumped = @ \cup {u}]
<1>1. /\ Narrowing(j) /\ job[j] \in Narrow /\ NarrowFits(j) /\ job' = [job EXCEPT ![j] = x]
      /\ Connected(u) /\ \A k \in Job \ {j} : ~HoldsConnection(k, u)
      /\ UNCHANGED <<github, store, backlog, grants, acts, unread>>
  BY JobKinds DEF Bump, Bumps, FullInv, AccessInv, JobsFit
<1>2. /\ x \in Narrow /\ x.left = job[j].left
      /\ x.returned = job[j].returned /\ x.bumped = job[j].bumped \cup {u}
  BY <1>1 DEF Narrow
<1> HIDE DEF x
<1>3. /\ \A v \in x.bumped \ {u} : HoldsConnection(j, v)
      /\ \A v \in x.returned : HoldsAccess(j, v)
  BY <1>1, <1>2 DEF HoldsConnection, HoldsAccess
<1>4. /\ \A v \in x.left \cup x.returned : HasRow(v)
      /\ \A v \in x.bumped : Connected(v)
  BY <1>1, <1>2 DEF NarrowFits
<1>5. \A v \in User, k \in Job \ {j} :
        /\ v \in x.bumped => HoldsConnection(j, v) \/ ~HoldsConnection(k, v)
        /\ v \in x.returned => HoldsAccess(j, v) \/ ~HoldsAccess(k, v)
  BY <1>1, <1>2, <1>3, <1>4
<1>6. QED  BY <1>1, <1>2, <1>3, <1>4, <1>5, NarrowStepKeeps

\* The narrowing commits.  Every user whose row it rewrote is connected, so the second
\* statement has raised the version of each, and what refreshes of theirs have read is
\* out of date; those it must not touch hold rows that the narrowing cannot have.
LEMMA CommitNarrowKeeps ==
  ASSUME FullInv, NEW j \in Job, CommitNarrow(j)
  PROVE  FullInv'
<1>1. /\ Narrowing(j) /\ job[j] \in Narrow /\ NarrowFits(j) /\ ~Refreshing(j)
      /\ Bumps(j) \subseteq job[j].bumped /\ job[j].after \in SUBSET User
      /\ job[j].cut \in SUBSET Repo
      /\ job[j].bumped \subseteq User /\ job[j].returned \subseteq User
  BY JobKinds DEF CommitNarrow, FullInv, AccessInv, JobsFit, Narrow
<1>2. /\ access' = [u \in User |->
           IF u \in job[j].returned THEN [access[u] EXCEPT !.repos = @ \ job[j].cut]
                                    ELSE access[u]]
      /\ connection' = [u \in User |->
           IF u \in job[j].bumped THEN [connection[u] EXCEPT !.version = @ + 1]
                                  ELSE connection[u]]
      /\ job' = Outdate(j) /\ unread' = unread \cup job[j].after
      /\ UNCHANGED <<github, accepted, active, grants, acts>>
  BY DEF CommitNarrow
<1>3. /\ access' \in [User -> AccessRow \cup {NoRow}]
      /\ \A u \in User : (HasRow(u)' <=> HasRow(u)) /\ access'[u].generation = access[u].generation
  <2>1. \A u \in job[j].returned :
          /\ HasRow(u) /\ access[u] \in AccessRow
          /\ access'[u] = [access[u] EXCEPT !.repos = @ \ job[j].cut]
    BY <1>1, <1>2, ConnectionKinds DEF NarrowFits, FullInv
  <2>2. \A r \in AccessRow : /\ [r EXCEPT !.repos = @ \ job[j].cut] \in AccessRow
                             /\ [r EXCEPT !.repos = @ \ job[j].cut].generation = r.generation
                             /\ r # NoRow
    BY DEF AccessRow, NoRow
  <2>3. \A u \in User \ job[j].returned :
          access'[u] = access[u] /\ access[u] \in AccessRow \cup {NoRow}
    BY <1>2 DEF FullInv, TypeOK
  <2>4. \A u \in User :
          /\ access'[u] \in AccessRow \cup {NoRow}
          /\ (HasRow(u)' <=> HasRow(u)) /\ access'[u].generation = access[u].generation
    BY <1>1, <2>1, <2>2, <2>3 DEF HasRow
  <2>5. QED  BY <1>2, <2>4
<1>4. /\ connection' \in [User -> Connection \cup {NoConnection}]
      /\ \A u \in User :
           /\ Connected(u)' <=> Connected(u)
           /\ connection'[u].generation = connection[u].generation
           /\ Connected(u) => /\ connection'[u].synced = connection[u].synced
                              /\ connection[u].version \in Nat
                              /\ connection'[u].version =
                                   IF u \in job[j].bumped THEN connection[u].version + 1
                                                          ELSE connection[u].version
  <2>1. \A u \in job[j].bumped :
          /\ Connected(u) /\ connection[u] \in Connection
          /\ connection'[u] = [connection[u] EXCEPT !.version = @ + 1]
    BY <1>1, <1>2, ConnectionKinds DEF NarrowFits, FullInv
  <2>2. \A r \in Connection :
          /\ [r EXCEPT !.version = @ + 1] \in Connection
          /\ [r EXCEPT !.version = @ + 1].generation = r.generation
          /\ [r EXCEPT !.version = @ + 1].synced = r.synced
          /\ [r EXCEPT !.version = @ + 1].version = r.version + 1
          /\ r # NoConnection
    BY DEF Connection, NoConnection
  <2>3. \A u \in User \ job[j].bumped :
          connection'[u] = connection[u] /\ connection[u] \in Connection \cup {NoConnection}
    BY <1>2 DEF FullInv, TypeOK
  <2>4. ASSUME NEW u \in User
        PROVE  /\ connection'[u] \in Connection \cup {NoConnection}
               /\ Connected(u)' <=> Connected(u)
               /\ connection'[u].generation = connection[u].generation
               /\ Connected(u) => /\ connection'[u].synced = connection[u].synced
                                  /\ connection[u].version \in Nat
                                  /\ connection'[u].version =
                                       IF u \in job[j].bumped THEN connection[u].version + 1
                                                              ELSE connection[u].version
    <3>1. Connected(u) => connection[u].version \in Nat
      BY ConnectionKinds DEF FullInv
    <3>2. CASE u \in job[j].bumped
      BY <2>1, <2>2, <3>1, <3>2 DEF Connected
    <3>3. CASE u \notin job[j].bumped
      BY <2>3, <3>1, <3>3 DEF Connected
    <3>4. QED  BY <3>2, <3>3
  <2>5. QED  BY <1>2, <2>4
<1>5. /\ job'[j] = Idle /\ ~Refreshing(j)' /\ ~Narrowing(j)'
      /\ \A k \in Job \ {j} :
           \/ job'[k] = job[k]
           \/ /\ Refreshing(k) /\ job[k].step \in {"check", "write", "commit"}
              /\ job'[k] = [job[k] EXCEPT !.since = @ \cup job[j].cut,
                                          !.fenced = IF job[k].user \in job[j].returned
                                                     THEN @ \cup job[j].cut ELSE @]
  BY <1>2 DEF Outdate, Idle, Refreshing, Narrowing
<1>6. \A k \in Job \ {j} :
        /\ job'[k] \in Refresh \cup Narrow \cup {Idle}
        /\ Narrowing(k)' => Narrowing(k) /\ job'[k] = job[k]
        /\ Refreshing(k)' <=> Refreshing(k)
        /\ Refreshing(k) =>
             /\ job'[k].step = job[k].step /\ job'[k].user = job[k].user
             /\ job'[k].generation = job[k].generation /\ job'[k].version = job[k].version
             /\ job[k].user \notin job[j].returned => job'[k].fenced = job[k].fenced
  <2>1. ASSUME NEW k \in Job \ {j}, Refreshing(k), NEW x,
               x = [job[k] EXCEPT !.since = @ \cup job[j].cut,
                                  !.fenced = IF job[k].user \in job[j].returned
                                             THEN @ \cup job[j].cut ELSE @]
        PROVE  /\ x \in Refresh /\ x.is = "refresh"
               /\ x.step = job[k].step /\ x.user = job[k].user
               /\ x.generation = job[k].generation /\ x.version = job[k].version
               /\ job[k].user \notin job[j].returned => x.fenced = job[k].fenced
    <3>1. job[k] \in Refresh
      BY <2>1, JobKinds DEF FullInv
    <3>2. QED  BY <1>1, <2>1, <3>1 DEF Refresh
  <2>2. ASSUME NEW k \in Job \ {j}, job'[k] = job[k]
        PROVE  job'[k] \in Refresh \cup Narrow \cup {Idle}
    BY <2>2 DEF FullInv, TypeOK
  <2>3. ASSUME NEW k \in Job \ {j}, Refreshing(k), job'[k].is = "refresh" PROVE ~Narrowing(k)'
    BY <2>3 DEF Narrowing
  <2>4. QED  BY <1>5, <2>1, <2>2, <2>3 DEF Refreshing, Narrowing
<1>7. \A k \in Job, u \in User : /\ HoldsConnection(k, u)' => HoldsConnection(k, u)
                                 /\ HoldsAccess(k, u)' => HoldsAccess(k, u)
  BY <1>5, <1>6 DEF HoldsConnection, HoldsAccess
<1>8. GrantsFit'
  BY <1>2, <1>4 DEF FullInv, AccessInv, GrantsFit
<1>9. LocksFit'
  BY <1>7 DEF FullInv, AccessInv, LocksFit
<1>10. ASSUME NEW k \in Job, Narrowing(k)' PROVE NarrowFits(k)'
  <2>1. Narrowing(k) /\ job'[k] = job[k] /\ NarrowFits(k)
    BY <1>5, <1>6, <1>10 DEF FullInv, AccessInv, JobsFit
  <2>2. job[k].left \subseteq User /\ job[k].returned \subseteq User /\ job[k].bumped \subseteq User
    BY <2>1, JobKinds DEF FullInv
  <2>3. QED  BY <1>3, <1>4, <2>1, <2>2 DEF NarrowFits
\* A user whose row was rewritten has a version raised by this commit.
<1>11. \A u \in job[j].returned : Connected(u) /\ u \in job[j].bumped
  <2>1. \A u \in job[j].returned : HasRow(u)
    BY <1>1 DEF NarrowFits
  <2>2. \A u \in job[j].returned : Connected(u)
    BY <1>1, <2>1 DEF FullInv, AccessInv, CurrentGrantOnly
  <2>3. QED  BY <1>1, <2>2 DEF Bumps
<1>12. ASSUME NEW k \in Job, Refreshing(k)' PROVE RefreshFits(k)'
  <2> DEFINE u == job[k].user
  <2>1. /\ k # j /\ Refreshing(k) /\ RefreshFits(k) /\ job[k] \in Refresh /\ u \in User
        /\ job'[k].step = job[k].step /\ job'[k].user = u
        /\ job'[k].generation = job[k].generation /\ job'[k].version = job[k].version
        /\ u \notin job[j].returned => job'[k].fenced = job[k].fenced
    BY <1>5, <1>6, <1>12, JobKinds DEF FullInv, AccessInv, JobsFit
  <2>2. job[k].version \in Nat /\ job[k].generation \in Nat
    BY <2>1, AccessAssumption DEF Refresh
  <2>3. job'[k].generation <= grants'
    BY <1>2, <2>1 DEF RefreshFits
  <2>4. ASSUME job'[k].step # "connection", Connected(u)', FitsGeneration(k)'
        PROVE  /\ job'[k].version <= connection'[u].version
               /\ job'[k].step = "check" /\ job'[k].fenced # {} =>
                    job'[k].version < connection'[u].version
    <3>1. Connected(u) /\ FitsGeneration(k)
      BY <1>4, <2>1, <2>4 DEF FitsGeneration
    <3>2. /\ job[k].version <= connection[u].version
          /\ job[k].step = "check" /\ job[k].fenced # {} => job[k].version < connection[u].version
      BY <2>1, <2>4, <3>1 DEF RefreshFits
    <3>3. CASE u \in job[j].returned
      <4>1. connection'[u].version = connection[u].version + 1 /\ connection[u].version \in Nat
        BY <1>4, <1>11, <2>1, <3>3
      <4>2. QED  BY <2>1, <2>2, <3>2, <4>1
    <3>4. CASE u \notin job[j].returned
      <4>1. /\ job'[k].fenced = job[k].fenced /\ connection[u].version \in Nat
            /\ \/ connection'[u].version = connection[u].version
               \/ connection'[u].version = connection[u].version + 1
        BY <1>4, <2>1, <3>1, <3>4
      <4>2. QED  BY <2>1, <2>2, <3>2, <4>1
    <3>5. QED  BY <3>3, <3>4
  <2>5. ASSUME job'[k].step \in {"write", "commit"}
        PROVE  Connected(u)' /\ Fits(k)' /\ job'[k].fenced = {}
    <3>1. Connected(u) /\ Fits(k) /\ job[k].fenced = {} /\ HoldsConnection(k, u)
      BY <2>1, <2>5 DEF RefreshFits, HoldsConnection
    <3>2. u \notin job[j].bumped
      BY <1>1, <2>1, <3>1 DEF FullInv, AccessInv, LocksFit, HoldsConnection
    <3>3. u \notin job[j].returned
      BY <1>11, <3>2
    <3>4. connection'[u].version = connection[u].version
      BY <1>4, <2>1, <3>1, <3>2
    <3>5. QED  BY <1>4, <2>1, <3>1, <3>3, <3>4 DEF Fits, FitsGeneration, FitsVersion
  <2>6. QED  BY <2>1, <2>3, <2>4, <2>5 DEF RefreshFits
<1>13. CurrentGrantOnly'
  BY <1>3, <1>4 DEF FullInv, AccessInv, CurrentGrantOnly
<1>14. AccessInv'
  BY <1>8, <1>9, <1>10, <1>12, <1>13 DEF AccessInv, JobsFit
<1>15. backlog' \in Seq(User) /\ InQueue' = InQueue \cup job[j].after
  <2>1. PICK U \in SUBSET User : U = job[j].after /\ Schedule(U)
    BY <1>1 DEF CommitNarrow
  <2>2. QED  BY <2>1, Scheduled DEF FullInv
<1>16. TypeOK'
  <2>1. job' \in [Job -> Refresh \cup Narrow \cup {Idle}]
    BY <1>2, <1>5, <1>6 DEF Outdate
  <2>2. unread' \in SUBSET User
    BY <1>1, <1>2 DEF FullInv, TypeOK
  <2>3. QED  BY <1>2, <1>3, <1>4, <1>15, <2>1, <2>2 DEF FullInv, TypeOK, github
<1>17. ChangesReread'
  <2>1. \A k \in Job, v \in User : Awaits(k, v) => Awaits(k, v)'
    BY <1>1, <1>6 DEF Awaits
  <2>2. QED  BY <1>1, <1>2, <1>15, <2>1, RereadStep
<1>18. QED  BY <1>14, <1>16, <1>17 DEF FullInv

LEMMA BreakDeadlockKeeps ==
  ASSUME FullInv, NEW j \in Job, BreakDeadlock(j)
  PROVE  FullInv'
<1>1. /\ job' = [job EXCEPT ![j] = Idle] /\ UNCHANGED <<github, store, backlog, grants, acts>>
      /\ unread' = IF Refreshing(j) THEN unread \ {job[j].user} ELSE unread
  BY DEF BreakDeadlock
<1>2. CASE Refreshing(j)
  BY <1>1, <1>2, MoveRefresh
<1>3. CASE ~Refreshing(j)
  <2>1. /\ job' \in [Job -> Refresh \cup Narrow \cup {Idle}] /\ AccessInv'
        /\ \A k \in Job, v \in User : Awaits(k, v) => Awaits(k, v)'
    BY <1>1, <1>3, MoveNarrow DEF store
  <2>2. TypeOK'
    BY <1>1, <1>3, <2>1 DEF FullInv, TypeOK, github, store
  <2>3. ChangesReread'
    BY <1>1, <1>3, <2>1, RereadStep DEF InQueue
  <2>4. QED  BY <2>1, <2>2, <2>3 DEF FullInv
<1>4. QED  BY <1>2, <1>3

LEMMA CrashKeeps ==
  ASSUME FullInv, Crash
  PROVE  FullInv'
<1>1. /\ acts < MaxActs /\ acts' = acts + 1
      /\ job' = [k \in Job |-> Idle] /\ backlog' = <<>> /\ unread' = {}
      /\ UNCHANGED <<github, store, grants>>
  BY DEF Crash, Act
<1>2. acts' \in 0 .. MaxActs /\ grants <= acts'
  BY <1>1, AccessAssumption DEF FullInv, TypeOK, AccessInv, GrantsFit
<1>3. \A k \in Job : ~Refreshing(k)' /\ ~Narrowing(k)'
  BY <1>1 DEF Refreshing, Narrowing, Idle
<1>4. TypeOK'
  BY <1>1, <1>2 DEF FullInv, TypeOK, github, store
<1>5. AccessInv'
  <2>1. GrantsFit' /\ CurrentGrantOnly'
    BY <1>1, <1>2 DEF FullInv, AccessInv, GrantsFit, CurrentGrantOnly, Connected, HasRow, store
  <2>2. LocksFit' /\ JobsFit'
    BY <1>3 DEF LocksFit, JobsFit, HoldsConnection, HoldsAccess
  <2>3. QED  BY <2>1, <2>2 DEF AccessInv
<1>6. ChangesReread'
  BY <1>1 DEF ChangesReread
<1>7. QED  BY <1>4, <1>5, <1>6 DEF FullInv

-----------------------------------------------------------------------------
(* The specification. *)

LEMMA AuthorizationsInit == Init => AuthorizationsNamed
  BY DEF Init, AuthorizationsNamed, NotSent

LEMMA AuthorizationsStep ==
  ASSUME AuthorizationsNamed, [Next]_vars
  PROVE  AuthorizationsNamed'
<1>1. ASSUME NEW c \in Change, Send(c), c.about = "authorization" => c.user \in User
      PROVE  AuthorizationsNamed'
  BY <1>1 DEF Send, AuthorizationsNamed
<1>2. CASE GitHub
  <2>1. ASSUME NEW u \in User, NEW S \in SUBSET Repo, NEW b \in BOOLEAN, MemberChanges(u, S, b)
        PROVE  AuthorizationsNamed'
    <3> DEFINE c == [about |-> "member", user |-> u, cut |-> IF b THEN S ELSE {}, removal |-> b]
    <3>1. c \in Change /\ c.about = "member"
      BY DEF Change
    <3>2. QED  BY <1>1, <2>1, <3>1 DEF MemberChanges
  <2>2. ASSUME NEW U \in SUBSET User, NEW S \in SUBSET Repo, NEW b \in BOOLEAN,
               TeamChanges(U, S, b)
        PROVE  AuthorizationsNamed'
    <3> DEFINE c == [about |-> "team", user |-> NoUser, cut |-> IF b THEN S ELSE {},
                     removal |-> b]
    <3>1. c \in Change /\ c.about = "team"
      BY DEF Change
    <3>2. QED  BY <1>1, <2>2, <3>1 DEF TeamChanges
  <2>3. ASSUME NEW S \in SUBSET Repo, NEW b \in BOOLEAN, SelectionChanges(S, b)
        PROVE  AuthorizationsNamed'
    <3> DEFINE c == [about |-> "selection", user |-> NoUser,
                     cut |-> IF b THEN S \ selection' ELSE {}, removal |-> TRUE]
    <3>1. c \in Change /\ c.about = "selection"
      BY DEF Change
    <3>2. QED  BY <1>1, <2>3, <3>1 DEF SelectionChanges
  <2>4. ASSUME NEW b \in BOOLEAN, InstallationChanges(b)
        PROVE  AuthorizationsNamed'
    <3> DEFINE c == [about |-> "installation", user |-> NoUser, cut |-> {}, removal |-> b]
    <3>1. c \in Change /\ c.about = "installation"
      BY DEF Change
    <3>2. QED  BY <1>1, <2>4, <3>1 DEF InstallationChanges
  <2>5. ASSUME NEW u \in User, AuthorizationRevoked(u)
        PROVE  AuthorizationsNamed'
    <3> DEFINE c == [about |-> "authorization", user |-> u, cut |-> {}, removal |-> TRUE]
    <3>1. c \in Change /\ c.user = u
      BY DEF Change
    <3>2. QED  BY <1>1, <2>5, <3>1 DEF AuthorizationRevoked
  <2>6. QED  BY <1>2, <2>1, <2>2, <2>3, <2>4, <2>5 DEF GitHub
<1>3. CASE UNCHANGED webhook
  BY <1>3 DEF AuthorizationsNamed
<1>4. [Next]_vars => GitHub \/ UNCHANGED webhook
  BY DEF Next, Step, Connect, Disconnect, RequestRefresh, AcceptInstallation, AcceptAuthorization,
         Accept, Drain, ReadConnection, Token, ReadListing, RefreshFails, Check, Write,
         StoreListing, ReadChange, StartNarrow, RowsDone, CommitNarrow, BreakDeadlock,
         RewriteRow, Bump, Crash, vars, github
<1>5. QED  BY <1>2, <1>3, <1>4

LEMMA InvariantInit == Init => FullInv
<1> SUFFICES ASSUME Init PROVE FullInv
  OBVIOUS
<1>1. \A j \in Job : job[j] = Idle /\ ~Refreshing(j) /\ ~Narrowing(j)
  BY DEF Init, Refreshing, Narrowing, Idle
<1>2. \A u \in User : ~Connected(u) /\ ~HasRow(u)
  BY DEF Init, Connected, HasRow
<1>3. TypeOK
  BY AccessAssumption DEF Init, TypeOK
<1>4. AccessInv
  BY <1>1, <1>2 DEF Init, AccessInv, GrantsFit, LocksFit, JobsFit, CurrentGrantOnly,
                    HoldsConnection, HoldsAccess
<1>5. ChangesReread
  BY DEF Init, ChangesReread
<1>6. QED  BY <1>3, <1>4, <1>5 DEF FullInv

LEMMA InvariantStep ==
  ASSUME FullInv, AuthorizationsNamed, [Next]_vars
  PROVE  FullInv'
<1>1. CASE GitHub
  BY <1>1, GitHubKeeps
<1>2. ASSUME NEW u \in User, Connect(u) \/ Disconnect(u) PROVE FullInv'
  BY <1>2, ConnectKeeps, DisconnectKeeps
<1>3. ASSUME NEW j \in Job, NEW u \in User, RequestRefresh(j, u) PROVE FullInv'
  BY <1>3, RequestRefreshKeeps
<1>4. ASSUME NEW w \in 1 .. MaxChanges,
             \/ AcceptInstallation(w) \/ AcceptAuthorization(w)
             \/ \E j \in Job : Accept(j, w)
      PROVE  FullInv'
  BY <1>4, AcceptInstallationKeeps, AcceptAuthorizationKeeps, AcceptKeeps
<1>5. ASSUME NEW j \in Job, Step(j) PROVE FullInv'
  <2>1. CASE Drain(j) \/ ReadConnection(j) \/ Token(j) \/ ReadListing(j) \/ RefreshFails(j)
    BY <2>1, DrainKeeps, ReadConnectionKeeps, TokenKeeps, ReadListingKeeps, RefreshFailsKeeps
  <2>2. CASE Check(j) \/ Write(j) \/ StoreListing(j)
    BY <2>2, CheckKeeps, WriteKeeps, StoreListingKeeps
  <2>3. CASE ReadChange(j) \/ StartNarrow(j) \/ RowsDone(j) \/ CommitNarrow(j)
    BY <2>3, ReadChangeKeeps, StartNarrowKeeps, RowsDoneKeeps, CommitNarrowKeeps
  <2>4. CASE BreakDeadlock(j)
    BY <2>4, BreakDeadlockKeeps
  <2>5. CASE \E u \in User : RewriteRow(j, u) \/ Bump(j, u)
    BY <2>5, RewriteRowKeeps, BumpKeeps
  <2>6. QED  BY <1>5, <2>1, <2>2, <2>3, <2>4, <2>5 DEF Step
<1>6. CASE Crash
  BY <1>6, CrashKeeps
<1>7. CASE UNCHANGED vars
  <2>1. AccessInv' /\ ChangesReread'
    BY <1>7, QuietKeeps DEF vars, store
  <2>2. TypeOK'
    BY <1>7 DEF FullInv, TypeOK, vars, github, store
  <2>3. QED  BY <2>1, <2>2 DEF FullInv
<1>8. QED  BY <1>1, <1>2, <1>3, <1>4, <1>5, <1>6, <1>7 DEF Next

\* Every reachable state satisfies the invariant.
THEOREM Invariance == AccessSpec => [](FullInv /\ AuthorizationsNamed)
<1>1. Init => FullInv /\ AuthorizationsNamed
  BY InvariantInit, AuthorizationsInit
<1>2. FullInv /\ AuthorizationsNamed /\ [Next]_vars => (FullInv /\ AuthorizationsNamed)'
  BY InvariantStep, AuthorizationsStep
<1>3. QED  BY <1>1, <1>2, PTL DEF AccessSpec

\* The variables have the values the code stores: a refresh's attempts, a grant's
\* generation and the queue never leave their ranges.
THEOREM TypeCorrect == AccessSpec => []TypeOK
<1>1. FullInv /\ AuthorizationsNamed => TypeOK
  BY DEF FullInv
<1>2. QED  BY <1>1, Invariance, PTL

\* replaceAccess stores no listing that a narrowing which rewrote the user's row has cut
\* since it was read (access_version in workspace-store.ts): whatever the schedule of
\* both transactions and the deadlocks PostgreSQL breaks.
THEOREM FencedListings == AccessSpec => []FencedListing
<1>1. FullInv /\ AuthorizationsNamed => FencedListing
  BY DEF FullInv, AccessInv, JobsFit, RefreshFits, FencedListing
<1>2. QED  BY <1>1, Invariance, PTL

\* The access rows of a user belong to the present, synced authorization (writeGrant and
\* replaceAccess): a refresh or narrowing that outlives a reconnect brings none back.
THEOREM CurrentGrants == AccessSpec => []CurrentGrantOnly
<1>1. FullInv /\ AuthorizationsNamed => CurrentGrantOnly
  BY DEF FullInv, AccessInv
<1>2. QED  BY <1>1, Invariance, PTL

\* Every user with an applied change is queued, or has a refresh that has yet to list
\* (scheduleRefresh and drainRefreshes in workspace-app.ts).
THEOREM ChangesAreReread == AccessSpec => []ChangesReread
<1>1. FullInv /\ AuthorizationsNamed => ChangesReread
  BY DEF FullInv
<1>2. QED  BY <1>1, Invariance, PTL

\* No two transactions hold the same connection or access row: the guards of the steps
\* are the row locks of replaceAccess and narrow.
THEOREM RowsLocked == AccessSpec => []LocksFit
<1>1. FullInv /\ AuthorizationsNamed => LocksFit
  BY DEF FullInv, AccessInv
<1>2. QED  BY <1>1, Invariance, PTL

=============================================================================
