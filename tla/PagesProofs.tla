----------------------------- MODULE PagesProofs -----------------------------
(***************************************************************************)
(* Theorems about a workspace's pages, for any values of the constants:    *)
(* the Service Health page, recaps, digests and Pulse; and about all that  *)
(* MCPages checks.                                                         *)
(***************************************************************************)
EXTENDS MCPages, ServerProofs

-----------------------------------------------------------------------------
(* The Service Health page (HealthPage). *)

\* What an order of services is.
LEMMA OrderFacts ==
  ASSUME NEW ranks \in Orders
  PROVE  /\ IsOrder(ranks) /\ ranks \subseteq Service \X Service
         /\ \A s, t : <<s, t>> \in ranks => s \in ServicesOf(ranks) /\ t \in ServicesOf(ranks)
         /\ \A s \in ServicesOf(ranks) : <<s, s>> \in ranks
         /\ ServicesOf(ranks) \subseteq Service
BY DEF Orders, IsOrder, ServicesOf

\* A total, strict and transitive relation is an order of services.
LEMMA OrderIntro ==
  ASSUME NEW ranks, NEW some \in SUBSET Service, ranks \subseteq some \X some,
         \A s, t \in some : <<s, t>> \in ranks \/ <<t, s>> \in ranks,
         \A s, t \in some : <<s, t>> \in ranks /\ <<t, s>> \in ranks => s = t,
         \A s, t, u \in some : <<s, t>> \in ranks /\ <<t, u>> \in ranks => <<s, u>> \in ranks
  PROVE  ranks \in Orders /\ ServicesOf(ranks) = some
<1>1. ServicesOf(ranks) = some
  BY DEF ServicesOf
<1>2. ranks \subseteq Service \X Service
  OBVIOUS
<1>3. IsOrder(ranks)
  BY <1>1 DEF IsOrder
<1> QED
  BY <1>1, <1>2, <1>3 DEF Orders

\* Nothing is ordered trivially.
LEMMA EmptyOrder == {} \in Orders
  BY DEF Orders, IsOrder, ServicesOf

\* An order orders some of its services as well.
LEMMA AmongOrder ==
  ASSUME NEW ranks \in Orders, NEW some \in SUBSET ServicesOf(ranks)
  PROVE  Among(ranks, some) \in Orders /\ ServicesOf(Among(ranks, some)) = some
<1>1. some \in SUBSET Service
  BY OrderFacts
<1>2. \A s, t \in some : <<s, t>> \in Among(ranks, some) <=> <<s, t>> \in ranks
  BY DEF Among
<1>3. Among(ranks, some) \subseteq some \X some
  BY DEF Among
<1>4. IsOrder(ranks)
  BY OrderFacts
<1>5. /\ \A s, t \in some : <<s, t>> \in ranks \/ <<t, s>> \in ranks
      /\ \A s, t \in some : <<s, t>> \in ranks /\ <<t, s>> \in ranks => s = t
      /\ \A s, t, u \in some : <<s, t>> \in ranks /\ <<t, u>> \in ranks => <<s, u>> \in ranks
  BY <1>4 DEF IsOrder
<1>6. PICK next : next = Among(ranks, some)
  OBVIOUS
<1>7. /\ next \subseteq some \X some
      /\ \A s, t \in some : <<s, t>> \in next \/ <<t, s>> \in next
      /\ \A s, t \in some : <<s, t>> \in next /\ <<t, s>> \in next => s = t
      /\ \A s, t, u \in some : <<s, t>> \in next /\ <<t, u>> \in next => <<s, u>> \in next
  BY <1>2, <1>3, <1>5, <1>6
<1> QED
  BY <1>1, <1>6, <1>7, OrderIntro

\* A service put last gives an order.
LEMMA AddedOrder ==
  ASSUME NEW ranks \in Orders, NEW id \in Service, id \notin ServicesOf(ranks)
  PROVE  ranks \cup ((ServicesOf(ranks) \cup {id}) \X {id}) \in Orders
<1> DEFINE all == ServicesOf(ranks) \cup {id}
           next == ranks \cup (all \X {id})
<1>1. all \in SUBSET Service /\ IsOrder(ranks) /\ ranks \subseteq ServicesOf(ranks) \X ServicesOf(ranks)
  BY OrderFacts DEF IsOrder
<1>2. \A s, t \in all : <<s, t>> \in next <=> (t = id \/ <<s, t>> \in ranks)
  OBVIOUS
<1>3. \A s, t : <<s, t>> \in ranks => s # id /\ t # id
  BY <1>1
<1>4. next \subseteq all \X all
  BY <1>1
<1>5. \A s \in all : s = id \/ s \in ServicesOf(ranks)
  OBVIOUS
<1> HIDE DEF next, all
<1>6. \A s, t \in all : <<s, t>> \in next \/ <<t, s>> \in next
  BY <1>1, <1>2, <1>5 DEF IsOrder
<1>7. \A s, t \in all : <<s, t>> \in next /\ <<t, s>> \in next => s = t
  BY <1>1, <1>2, <1>3, <1>5 DEF IsOrder
<1>8. \A s, t, u \in all : <<s, t>> \in next /\ <<t, u>> \in next => <<s, u>> \in next
  BY <1>1, <1>2, <1>3, <1>5 DEF IsOrder
<1>9. next \in Orders
  BY <1>1, <1>4, <1>6, <1>7, <1>8, OrderIntro
<1> QED
  BY <1>9 DEF next, all

\* A service moved to the place of another gives an order.
LEMMA MovedOrder ==
  ASSUME NEW ranks \in Orders, NEW s \in ServicesOf(ranks), NEW t \in ServicesOf(ranks), s # t
  PROVE  Moved(ranks, s, t) \in Orders
<1> DEFINE others == ServicesOf(ranks) \ {s}
           ahead  == {u \in others : <<u, t>> \in ranks /\ (<<s, t>> \in ranks \/ u # t)}
           next   == Among(ranks, others) \cup ((ahead \cup {s}) \X {s}) \cup ({s} \X (others \ ahead))
           all    == ServicesOf(ranks)
<1>0. Moved(ranks, s, t) = next
  BY DEF Moved
<1>1. all \in SUBSET Service /\ IsOrder(ranks) /\ s \in all /\ t \in all
  BY OrderFacts
<1>2. \A u, v \in all : <<u, v>> \in next <=>
        \/ u # s /\ v # s /\ <<u, v>> \in ranks
        \/ v = s /\ (u = s \/ u \in ahead)
        \/ u = s /\ v # s /\ v \notin ahead
  BY DEF Among
<1>3. next \subseteq all \X all
  BY <1>1 DEF Among
<1>4. \A u, v \in others : v \in ahead /\ <<u, v>> \in ranks => u \in ahead
  <2> TAKE u, v \in others
  <2> HAVE v \in ahead /\ <<u, v>> \in ranks
  <2>1. <<u, t>> \in ranks
    BY <1>1 DEF IsOrder
  <2>2. u # t \/ v = t
    BY <1>1 DEF IsOrder
  <2> QED
    BY <2>1, <2>2
<1>5. \A u \in all : u = s \/ u \in others
  OBVIOUS
<1>6. s \notin ahead /\ ahead \subseteq others /\ others \subseteq all
  OBVIOUS
<1>7. \A u, v \in all : <<u, v>> \in ranks \/ <<v, u>> \in ranks
  BY <1>1 DEF IsOrder
<1>8. \A u, v \in all : <<u, v>> \in ranks /\ <<v, u>> \in ranks => u = v
  BY <1>1 DEF IsOrder
<1>9. \A u, v, w \in all : <<u, v>> \in ranks /\ <<v, w>> \in ranks => <<u, w>> \in ranks
  BY <1>1 DEF IsOrder
<1> HIDE DEF next, ahead, others, all
<1>10. \A u, v \in all : <<u, v>> \in next \/ <<v, u>> \in next
  BY <1>2, <1>5, <1>6, <1>7
<1>11. \A u, v \in all : <<u, v>> \in next /\ <<v, u>> \in next => u = v
  BY <1>2, <1>5, <1>6, <1>8
<1>12. \A u, v, w \in all : <<u, v>> \in next /\ <<v, w>> \in next => <<u, w>> \in next
  BY <1>2, <1>4, <1>5, <1>6, <1>7, <1>9
<1>13. next \in Orders
  BY <1>1, <1>3, <1>10, <1>11, <1>12, OrderIntro
<1> QED
  BY <1>0, <1>13

\* A fresh list merged into the one on show is an order that keeps the latter.
LEMMA MergedOrder ==
  ASSUME NEW ranks \in Orders, NEW fresh \in Orders
  PROVE  /\ Merged(ranks, fresh) \in Orders
         /\ Among(Merged(ranks, fresh), ServicesOf(ranks))
              = Among(ranks, ServicesOf(Merged(ranks, fresh)))
<1> DEFINE known == ServicesOf(fresh) \cap ServicesOf(ranks)
           new   == ServicesOf(fresh) \ ServicesOf(ranks)
           all   == ServicesOf(fresh)
           next  == Among(ranks, known) \cup Among(fresh, new) \cup (known \X new)
<1>0. Merged(ranks, fresh) = next
  BY DEF Merged
<1>1. all \in SUBSET Service /\ IsOrder(ranks) /\ IsOrder(fresh)
  BY OrderFacts
<1>2. \A u, v \in all : <<u, v>> \in next <=>
        \/ u \in known /\ v \in known /\ <<u, v>> \in ranks
        \/ u \in new /\ v \in new /\ <<u, v>> \in fresh
        \/ u \in known /\ v \in new
  BY DEF Among
<1>3. next \subseteq all \X all
  BY DEF Among
<1>4. \A u \in all : (u \in known /\ u \notin new) \/ (u \in new /\ u \notin known)
  OBVIOUS
<1>5. known \subseteq ServicesOf(ranks) /\ new \subseteq all /\ known \subseteq all
  OBVIOUS
<1>6. /\ \A u, v \in known : <<u, v>> \in ranks \/ <<v, u>> \in ranks
      /\ \A u, v \in known : <<u, v>> \in ranks /\ <<v, u>> \in ranks => u = v
      /\ \A u, v, w \in known : <<u, v>> \in ranks /\ <<v, w>> \in ranks => <<u, w>> \in ranks
  BY <1>1, <1>5 DEF IsOrder
<1>7. /\ \A u, v \in new : <<u, v>> \in fresh \/ <<v, u>> \in fresh
      /\ \A u, v \in new : <<u, v>> \in fresh /\ <<v, u>> \in fresh => u = v
      /\ \A u, v, w \in new : <<u, v>> \in fresh /\ <<v, w>> \in fresh => <<u, w>> \in fresh
  BY <1>1, <1>5 DEF IsOrder
<1>8. Among(next, ServicesOf(ranks)) = Among(ranks, all)
  <2>1. ranks \subseteq ServicesOf(ranks) \X ServicesOf(ranks)
    BY <1>1 DEF IsOrder
  <2>2. \A u, v : <<u, v>> \in Among(next, ServicesOf(ranks)) <=> <<u, v>> \in Among(ranks, all)
    BY <2>1 DEF Among
  <2>3. Among(next, ServicesOf(ranks)) \subseteq ServicesOf(ranks) \X ServicesOf(ranks)
        /\ Among(ranks, all) \subseteq all \X all
    BY DEF Among
  <2> HIDE DEF next, all
  <2>4. \A p \in Among(next, ServicesOf(ranks)) : p \in Among(ranks, all)
    <3> TAKE p \in Among(next, ServicesOf(ranks))
    <3>1. p = <<p[1], p[2]>>
      BY <2>3
    <3> QED
      BY <3>1, <2>2
  <2>5. \A p \in Among(ranks, all) : p \in Among(next, ServicesOf(ranks))
    <3> TAKE p \in Among(ranks, all)
    <3>1. p = <<p[1], p[2]>>
      BY <2>3
    <3> QED
      BY <3>1, <2>2
  <2> QED
    BY <2>4, <2>5
<1> HIDE DEF next, known, new, all
<1>10. \A u, v \in all : <<u, v>> \in next \/ <<v, u>> \in next
  BY <1>2, <1>4, <1>6, <1>7
<1>11. \A u, v \in all : <<u, v>> \in next /\ <<v, u>> \in next => u = v
  BY <1>2, <1>4, <1>6, <1>7
<1>12. \A u, v, w \in all : <<u, v>> \in next /\ <<v, w>> \in next => <<u, w>> \in next
  BY <1>2, <1>4, <1>6, <1>7
<1>13. next \in Orders /\ ServicesOf(next) = all
  BY <1>1, <1>3, <1>10, <1>11, <1>12, OrderIntro
<1> QED
  BY <1>0, <1>8, <1>13

\* The states of a refresh.
Refreshes == [pending : BOOLEAN, cool : BOOLEAN, load : Loading \cup {Nothing}]

\* A snapshot that the page has is of an order that once stood, and this page's if it is that.
Fits(list) ==
  /\ list \in Listed /\ list.at <= services.at
  /\ list.at = services.at => list.order = services.order
  /\ list.at = saved.at => list.order = saved.order

\* A load that was read has a list that was so, and one of this version no older than what was saved.
TrueToDate(pull) ==
  /\ pull.version <= version
  /\ pull.at = "read" =>
       Fits(pull.list) /\ (pull.version = version => pull.list.at >= saved.at)

\* What the page holds was so on the server, not before what it saved.
SnapsOK ==
  /\ Fits(saved)
  /\ queued # Nothing => Fits(queued) /\ queued.at >= saved.at /\ drag # Nothing
  /\ refresh.load # Nothing => TrueToDate(refresh.load)
  /\ version <= saved.at

\* A change under way is about the order the server has, or had.
MutationOK ==
  mutation # Nothing =>
    /\ mutation.kind = "order" <=> drag # Nothing
    /\ mutation.at = "done" =>
         /\ saved.at < mutation.took /\ mutation.took <= services.at
         /\ mutation.kind = "order" =>
              /\ mutation.took = services.at => services.order = mutation.order
              /\ refresh.load # Nothing /\ refresh.load.at = "read" /\ refresh.load.list.at = mutation.took =>
                   refresh.load.list.order = mutation.order

\* A list that agrees with what was saved.
Agrees(list) ==
  /\ list \in Listed /\ list.at >= saved.at
  /\ list.at = saved.at =>
       Among(list.order, ServicesOf(saved.order)) = Among(saved.order, ServicesOf(list.order))

\* What is shown, queued or taken agrees with it.
ShownOK ==
  /\ shown # Nothing /\ drag = Nothing => Agrees(shown)
  /\ drag # Nothing => shown # Nothing /\ Agrees(drag.before)
  /\ drag # Nothing /\ mutation = Nothing => shown = drag.before

\* What is shown when the drag is over.
Latest == IF drag = Nothing THEN shown ELSE IF queued = Nothing THEN drag.before ELSE queued

\* A list that lacks only what the page is still to hear of, or what was lost.
Covers(list) ==
  /\ list.at <= services.at
  /\ list.at = services.at => list.order = services.order
  /\ \A n \in list.at + 1 .. services.at : notice[n] # "none"

\* A page at rest, or about to be, has such a list.
FreshOK ==
  ~revoked /\ ~refresh.pending /\ wire = "open" =>
    /\ refresh.load = Nothing /\ ~outdated => Latest # Nothing /\ Covers(Latest)
    /\ refresh.load # Nothing /\ refresh.load.at = "read" => Covers(refresh.load.list)

\* A page whose access is gone has nothing.
RevokedOK ==
  revoked => ~allowed /\ shown = Nothing /\ queued = Nothing /\ drag = Nothing /\ mutation = Nothing

\* The inductive invariant.
HealthInv ==
  /\ HealthPageTypeOK /\ refresh \in Refreshes
  /\ SnapsOK /\ MutationOK /\ ShownOK /\ FreshOK /\ RevokedOK

\* Nothing is none of what may be.
LEMMA NothingApart ==
  Nothing \notin Listed /\ Nothing \notin Loading /\ Nothing \notin Mutation /\ Nothing \notin [before : Listed]
  BY DEF Nothing, Listed, Loading, Mutation, OrderMutation, OtherMutation

\* A refresh that is due becomes a load, or waits.
LEMMA ScheduledFacts ==
  ASSUME NEW r \in Refreshes, NEW v \in 0 .. MaxListed + 1
  PROVE  /\ Scheduled(r, v) \in Refreshes
         /\ \/ Scheduled(r, v) = r /\ ~(r.pending /\ r.load = Nothing /\ ~r.cool)
            \/ /\ r.pending /\ r.load = Nothing /\ ~Scheduled(r, v).pending
               /\ Scheduled(r, v).load # Nothing
               /\ Scheduled(r, v).load = [at |-> "sent", version |-> v, list |-> NotRead]
<1>0. NotRead \in Listed
  BY EmptyOrder, HealthPageAssumption DEF NotRead, Listed
<1>1. PICK pull \in Loading : pull = [at |-> "sent", version |-> v, list |-> NotRead]
  BY <1>0 DEF Loading
<1>2. PICK next \in Refreshes : next = [pending |-> FALSE, cool |-> TRUE, load |-> pull]
  BY DEF Refreshes
<1>3. CASE r.pending /\ r.load = Nothing /\ ~r.cool
  <2>1. Scheduled(r, v) = next
    BY <1>1, <1>2, <1>3 DEF Scheduled
  <2>2. next.pending = FALSE /\ next.load = pull
    BY <1>2
  <2> QED
    BY <1>1, <1>3, <2>1, <2>2, NothingApart
<1>4. CASE ~(r.pending /\ r.load = Nothing /\ ~r.cool)
  BY <1>4 DEF Scheduled
<1> QED
  BY <1>3, <1>4

\* A request is kept, or has become a load.
LEMMA RequestedFacts ==
  ASSUME NEW r \in Refreshes, NEW v \in 0 .. MaxListed + 1
  PROVE  /\ Requested(r, v) \in Refreshes
         /\ \/ Requested(r, v).pending /\ Requested(r, v).load = r.load
            \/ /\ r.load = Nothing /\ Requested(r, v).load # Nothing
               /\ Requested(r, v).load = [at |-> "sent", version |-> v, list |-> NotRead]
<1>1. PICK q \in Refreshes : q = [r EXCEPT !.pending = TRUE]
  BY DEF Refreshes
<1>2. q.pending /\ q.load = r.load
  BY <1>1 DEF Refreshes
<1>3. Requested(r, v) = Scheduled(q, v)
  BY <1>1 DEF Requested
<1> QED
  BY <1>2, <1>3, ScheduledFacts

\* The page has nothing at first.
LEMMA HealthStart == HealthPageInit => HealthInv
<1> SUFFICES ASSUME HealthPageInit PROVE HealthInv
  OBVIOUS
<1>1. MaxListed \in Nat
  BY HealthPageAssumption
<1>2. PICK s \in Orders : services = [order |-> s, at |-> 0]
  BY DEF HealthPageInit
<1>3. services \in Listed /\ services.at = 0
  BY <1>1, <1>2 DEF Listed
<1>4. Stopped \in Refreshes /\ Stopped.load = Nothing /\ 0 \in 0 .. MaxListed + 1
  BY <1>1 DEF Stopped, Refreshes
<1>5. refresh \in Refreshes /\ (refresh.pending \/ refresh.load # Nothing)
      /\ (refresh.load # Nothing => refresh.load = [at |-> "sent", version |-> 0, list |-> NotRead])
  BY <1>3, <1>4, RequestedFacts DEF HealthPageInit
<1>a. notice \in [ChangeNo -> Notice]
  BY DEF HealthPageInit, Notice
<1>6. HealthPageTypeOK
  BY <1>a, <1>3, <1>4, <1>5 DEF HealthPageInit, HealthPageTypeOK, Refreshes
<1>7. saved = services /\ version = 0 /\ shown = Nothing /\ queued = Nothing /\ drag = Nothing /\ mutation = Nothing
      /\ revoked = FALSE
  BY DEF HealthPageInit
<1>8. SnapsOK
  BY <1>3, <1>5, <1>7 DEF SnapsOK, TrueToDate, Fits
<1>9. FreshOK
  BY <1>5 DEF FreshOK
<1> QED
  BY <1>5, <1>6, <1>7, <1>8, <1>9 DEF HealthInv, MutationOK, ShownOK, RevokedOK

\* The invariant has the types, and the page shows an order of what is saved.
LEMMA HealthInvSafe == HealthInv => HealthPageTypeOK /\ HealthPageSafe
<1> SUFFICES ASSUME HealthInv PROVE HealthPageTypeOK /\ HealthPageSafe
  OBVIOUS
<1>1. ASSUME AtRest
      PROVE  /\ shown # Nothing /\ shown.at <= services.at
             /\ \A n \in shown.at + 1 .. services.at : notice[n] \in {"due", "lost"}
             /\ shown.at = services.at => shown.order = services.order
  <2>1. shown # Nothing /\ Covers(shown)
    BY <1>1 DEF HealthInv, FreshOK, AtRest, Latest
  <2>2. shown.at \in Nat /\ services.at \in 0 .. MaxListed /\ MaxListed \in Nat
    BY <2>1, HealthPageAssumption DEF HealthInv, HealthPageTypeOK, Listed
  <2>3. ASSUME NEW n \in shown.at + 1 .. services.at PROVE notice[n] \in {"due", "lost"}
    <3>1. n \in ChangeNo /\ notice[n] # "none"
      BY <2>1, <2>2 DEF ChangeNo, Covers
    <3>2. notice[n] \in Notice /\ notice[n] # "sent"
      BY <1>1, <3>1 DEF AtRest, HealthInv, HealthPageTypeOK
    <3> QED
      BY <3>1, <3>2 DEF Notice
  <2> QED
    BY <2>1, <2>3 DEF Covers
<1> QED
  BY <1>1 DEF HealthInv, ShownOK, Agrees, RevokedOK, HealthPageSafe

\* What a change leaves on the server is an order.
LEMMA OutcomesAreOrders ==
  ASSUME NEW m, services.order \in Orders,
         \/ m.kind = "order" /\ m.order \in Orders
         \/ m.kind \in {"create", "delete"} /\ m.id \in Service
  PROVE  Outcomes(m) \subseteq Orders /\ (m.kind = "order" => Outcomes(m) \subseteq {m.order})
<1>1. CASE m.kind = "order"
  <2>1. m.order \in Orders
    BY <1>1
  <2> QED
    BY <1>1, <2>1 DEF Outcomes
<1>2. CASE m.kind = "create"
  <2>0. m.id \in Service
    BY <1>2
  <2>1. m.id \notin ServicesOf(services.order) =>
          services.order \cup ((ServicesOf(services.order) \cup {m.id}) \X {m.id}) \in Orders
    BY <2>0, AddedOrder
  <2> QED
    BY <1>2, <2>1 DEF Outcomes
<1>3. CASE m.kind = "delete"
  <2>1. Among(services.order, ServicesOf(services.order) \ {m.id}) \in Orders
    BY AmongOrder
  <2> QED
    BY <1>3, <2>1 DEF Outcomes
<1> QED
  BY <1>1, <1>2, <1>3

\* The server refuses a change.
LEMMA RefusedMutation ==
  ASSUME NEW m \in Mutation
  PROVE  /\ [m EXCEPT !.at = "refused"] \in Mutation
         /\ [m EXCEPT !.at = "refused"].at = "refused" /\ [m EXCEPT !.at = "refused"].kind = m.kind
<1>1. CASE m \in OrderMutation
  BY <1>1 DEF OrderMutation, Mutation, MutationAt
<1>2. CASE m \in OtherMutation
  BY <1>2 DEF OtherMutation, Mutation, MutationAt
<1> QED
  BY <1>1, <1>2 DEF Mutation

\* The server takes a change.
LEMMA TakenMutation ==
  ASSUME NEW m \in Mutation, NEW took \in 0 .. MaxListed
  PROVE  /\ [m EXCEPT !.at = "done", !.took = took] \in Mutation
         /\ [m EXCEPT !.at = "done", !.took = took].at = "done"
         /\ [m EXCEPT !.at = "done", !.took = took].took = took
         /\ [m EXCEPT !.at = "done", !.took = took].kind = m.kind
         /\ m.kind = "order" => [m EXCEPT !.at = "done", !.took = took].order = m.order
<1>1. CASE m \in OrderMutation
  BY <1>1 DEF OrderMutation, Mutation, MutationAt
<1>2. CASE m \in OtherMutation
  BY <1>2 DEF OtherMutation, Mutation, MutationAt
<1> QED
  BY <1>1, <1>2 DEF Mutation

\* A change about to be sent, and what it is.
LEMMA MutationFacts ==
  /\ \A m \in Mutation :
       /\ m.kind \in {"order", "create", "delete"} /\ m.took \in 0 .. MaxListed
       /\ m.kind = "order" => m.order \in Orders
       /\ m.kind # "order" => m.id \in Service
  /\ Nothing \notin Mutation
<1>1. \A m \in OrderMutation : m.kind = "order" /\ m.took \in 0 .. MaxListed /\ m.order \in Orders
  BY DEF OrderMutation
<1>2. \A m \in OtherMutation : m.kind \in {"create", "delete"} /\ m.took \in 0 .. MaxListed /\ m.id \in Service
  BY DEF OtherMutation
<1>3. Nothing \notin OrderMutation /\ Nothing \notin OtherMutation
  BY DEF OrderMutation, OtherMutation, Nothing
<1> QED
  BY <1>1, <1>2, <1>3 DEF Mutation

\* Every step of the page, of its requests and of the server.
LEMMA HealthStep == HealthInv /\ [HealthPageNext]_healthPageVars => HealthInv'
<1> SUFFICES ASSUME HealthInv, [HealthPageNext]_healthPageVars PROVE HealthInv'
  OBVIOUS
<1> USE NothingApart
<1>n. MaxListed \in Nat
  BY HealthPageAssumption
<1>t. /\ services \in Listed /\ allowed \in BOOLEAN /\ wire \in {"open", "down"} /\ notice \in [ChangeNo -> Notice]
      /\ shown \in Listed \cup {Nothing} /\ queued \in Listed \cup {Nothing}
      /\ drag \in [before : Listed] \cup {Nothing} /\ version \in 0 .. MaxListed + 1
      /\ refresh \in Refreshes /\ mutation \in Mutation \cup {Nothing}
      /\ outdated \in BOOLEAN /\ revoked \in BOOLEAN /\ saved \in Listed
  BY DEF HealthInv, HealthPageTypeOK
<1>k. ASSUME services' \in Listed, allowed' \in BOOLEAN, wire' \in {"open", "down"},
             notice' \in [ChangeNo -> Notice],
             shown' \in Listed \cup {Nothing}, queued' \in Listed \cup {Nothing},
             drag' \in [before : Listed] \cup {Nothing}, version' \in 0 .. MaxListed + 1,
             refresh' \in Refreshes, mutation' \in Mutation \cup {Nothing},
             outdated' \in BOOLEAN, revoked' \in BOOLEAN, saved' \in Listed
      PROVE  HealthPageTypeOK'
  <2>1. refresh'.pending \in BOOLEAN /\ refresh'.cool \in BOOLEAN /\ (refresh'.load = Nothing \/ refresh'.load \in Loading)
    BY <1>k DEF Refreshes
  <2> QED
    BY <1>k, <2>1 DEF HealthPageTypeOK
<1>l. \A l \in Listed : l.order \in Orders /\ l.at \in Nat /\ l.at <= MaxListed
  BY <1>n DEF Listed
<1>v. version \in Nat /\ version <= saved.at /\ saved.at <= services.at
  BY <1>n, <1>t DEF HealthInv, SnapsOK, TrueToDate, Fits
<1>w. refresh.load # Nothing => refresh.load \in Loading /\ refresh.load.list \in Listed /\ refresh.load.version \in Nat
  BY <1>n, <1>t DEF Refreshes, Loading
<1>f. /\ \A told \in [ChangeNo -> Notice] : Forgiven(told) \in [ChangeNo -> Notice]
      /\ Outstanding \in [ChangeNo -> Notice]
  <2>1. "due" \in Notice /\ "none" \in Notice
    BY DEF Notice
  <2>2. ASSUME NEW told \in [ChangeNo -> Notice] PROVE Forgiven(told) \in [ChangeNo -> Notice]
    BY <2>1 DEF Forgiven
  <2>3. Outstanding \in [ChangeNo -> Notice]
    <3>1. \A n \in ChangeNo : (IF notice[n] = "due" THEN "due" ELSE "none") \in Notice
      BY <2>1
    <3> QED
      BY <3>1, Zenon DEF Outstanding
  <2> QED
    BY <2>2, <2>3
\* The page asks, and shows what it did.
<1>g. ASSUME UNCHANGED <<services, allowed, shown, queued, drag, version, mutation, revoked, saved>>,
             outdated' \in {outdated, TRUE},
             refresh' \in Refreshes, wire' \in {"open", "down"}, notice' \in [ChangeNo -> Notice],
             \/ refresh'.load = refresh.load
             \/ refresh'.load # Nothing /\ refresh'.load = [at |-> "sent", version |-> version, list |-> NotRead]
             \/ refresh'.load = Nothing,
             \/ refresh'.pending
             \/ refresh'.load # Nothing /\ refresh'.load.at = "sent"
             \/ refresh'.load = refresh.load /\ refresh'.pending = refresh.pending /\ UNCHANGED <<wire, notice>>
             \/ refresh'.load = Nothing /\ outdated'
      PROVE  HealthInv'
  <2>1. HealthPageTypeOK'
    BY <1>g, <1>t, <1>k
  <2>3. refresh'.load # Nothing => TrueToDate(refresh'.load)
    BY <1>g, <1>v DEF HealthInv, SnapsOK, TrueToDate
  <2>4. SnapsOK'
    BY <1>g, <2>3 DEF HealthInv, SnapsOK, TrueToDate, Fits
  <2>5. MutationOK'
    BY <1>g DEF HealthInv, MutationOK
  <2>6. ShownOK'
    BY <1>g DEF HealthInv, ShownOK, Agrees
  <2>a. Latest' = Latest
    BY <1>g DEF Latest
  <2>b. ASSUME refresh'.pending \/ (refresh'.load # Nothing /\ refresh'.load.at = "sent") PROVE FreshOK'
    BY <2>b, Zenon DEF FreshOK
  <2>c. ASSUME refresh'.load = refresh.load /\ refresh'.pending = refresh.pending /\ UNCHANGED <<wire, notice>>
        PROVE FreshOK'
    <3>1. ~outdated' => ~outdated
      BY <1>g
    <3>2. Covers(Latest)' = Covers(Latest) /\ (refresh.load # Nothing => Covers(refresh.load.list)' = Covers(refresh.load.list))
      BY <1>g, <2>a, <2>c DEF Covers
    <3> QED
      BY <1>g, <2>a, <2>c, <3>1, <3>2 DEF HealthInv, FreshOK
  <2>d. ASSUME refresh'.load = Nothing /\ outdated' PROVE FreshOK'
    BY <2>d, Zenon DEF FreshOK
  <2>7. FreshOK'
    BY <1>g, <2>b, <2>c, <2>d, Zenon
  <2>8. RevokedOK'
    BY <1>g DEF HealthInv, RevokedOK
  <2> QED
    BY <1>g, <2>1, <2>4, <2>5, <2>6, <2>7, <2>8 DEF HealthInv
<1>q. ASSUME refresh' = Requested(refresh, version)
      PROVE  /\ refresh' \in Refreshes
             /\ \/ refresh'.load = refresh.load
                \/ refresh'.load # Nothing /\ refresh'.load = [at |-> "sent", version |-> version, list |-> NotRead]
             /\ refresh'.pending \/ (refresh'.load # Nothing /\ refresh'.load.at = "sent")
  BY <1>q, <1>t, RequestedFacts
<1>1. CASE RequestNow \/ StreamBreaks \/ \E n \in ChangeNo : Hear(n)
  <2>1. PICK told \in [ChangeNo -> Notice] :
        /\ UNCHANGED <<services, allowed, shown, queued, drag, version, mutation, outdated, revoked, saved>>
        /\ AsksForLoad(told) /\ wire' \in {"open", "down"}
    <3>1. CASE RequestNow
      BY <3>1, <1>t DEF RequestNow
    <3>2. CASE StreamBreaks
      <4>1. PICK told \in [ChangeNo -> Notice] : told = Outstanding
        BY <1>f
      <4> QED
        BY <3>2, <4>1 DEF StreamBreaks
    <3>3. ASSUME NEW n \in ChangeNo, Hear(n)
          PROVE  \E told \in [ChangeNo -> Notice] :
                   /\ UNCHANGED <<services, allowed, shown, queued, drag, version, mutation, outdated, revoked, saved>>
                   /\ AsksForLoad(told) /\ wire' \in {"open", "down"}
      <4>1. PICK told \in [ChangeNo -> Notice] : told = [notice EXCEPT ![n] = "none"]
        BY <1>t DEF Notice
      <4> QED
        BY <3>3, <4>1, <1>t DEF Hear
    <3> QED
      BY <1>1, <3>1, <3>2, <3>3
  <2>2. notice' \in [ChangeNo -> Notice] /\ refresh' = Requested(refresh, version)
    BY <2>1, <1>f DEF AsksForLoad
  <2> QED
    BY <2>1, <2>2, <1>q, <1>g
\* A notification is sent late, or lost.
<1>h. ASSUME UNCHANGED <<services, allowed, wire, shown, queued, drag, version, refresh, outdated, revoked, saved>>,
             notice' \in [ChangeNo -> Notice],
             wire = "open" => \A n \in ChangeNo : notice'[n] = "none" => notice[n] = "none",
             mutation' \in Mutation \cup {Nothing}, MutationOK', mutation' = Nothing <=> mutation = Nothing
      PROVE  HealthInv'
  <2>1. HealthPageTypeOK'
    BY <1>h, <1>t, <1>k
  <2>2. SnapsOK' /\ ShownOK' /\ RevokedOK'
    BY <1>h DEF HealthInv, SnapsOK, TrueToDate, Fits, ShownOK, Agrees, RevokedOK
  <2>3. ASSUME NEW list \in Listed, wire = "open", Covers(list) PROVE Covers(list)'
    <3>1. ASSUME NEW n \in list.at + 1 .. services.at PROVE notice'[n] # "none"
      <4>1. n \in ChangeNo
        BY <3>1, <1>t, <1>l, <1>n DEF ChangeNo
      <4> QED
        BY <4>1, <3>1, <2>3, <1>h DEF Covers
    <3> QED
      BY <3>1, <2>3, <1>h DEF Covers
  <2>4. Latest' = Latest /\ Latest \in Listed \cup {Nothing}
    BY <1>h, <1>t DEF Latest
  <2>5. FreshOK'
    BY <1>h, <1>w, <2>3, <2>4 DEF HealthInv, FreshOK
  <2> QED
    BY <1>h, <1>t, <2>1, <2>2, <2>5 DEF HealthInv
<1>20. ASSUME NEW n \in ChangeNo, Tell(n) \/ TellFails(n) \/ LoseNotice(n) PROVE HealthInv'
  <2>1. PICK what \in {"sent", "lost"} : Heeded(n, what)
    BY <1>20 DEF Tell, TellFails, LoseNotice
  <2>2. /\ UNCHANGED <<services, allowed, wire, shown, queued, drag, version, refresh, outdated, revoked, saved>>
        /\ mutation' = mutation \/ (TellFails(n) /\ Takes(n) /\ mutation' = [mutation EXCEPT !.at = "refused"])
    BY <1>20 DEF Tell, TellFails, LoseNotice
  <2>3. notice' \in [ChangeNo -> Notice]
    BY <2>1, <1>t DEF Heeded, Notice
  <2>4. wire = "open" => \A m \in ChangeNo : notice'[m] = "none" => notice[m] = "none"
    BY <2>1, <1>t DEF Heeded
  <2>5. CASE mutation' = mutation
    <3>1. MutationOK'
      BY <2>2, <2>5 DEF HealthInv, MutationOK
    <3> QED
      BY <1>h, <1>t, <2>2, <2>3, <2>4, <2>5, <3>1
  <2>6. CASE Takes(n) /\ mutation' = [mutation EXCEPT !.at = "refused"]
    <3>1. mutation # Nothing /\ mutation \in Mutation
      BY <2>6, <1>t DEF Takes
    <3>2. PICK next \in Mutation : next = [mutation EXCEPT !.at = "refused"]
      BY <3>1, RefusedMutation
    <3>3. mutation' = next /\ next.at = "refused" /\ next.kind = mutation.kind
      BY <2>6, <3>1, <3>2, RefusedMutation
    <3>4. MutationOK'
      BY <2>2, <3>1, <3>3 DEF HealthInv, MutationOK
    <3> QED
      BY <1>h, <2>2, <2>3, <2>4, <3>1, <3>3, <3>4
  <2> QED
    BY <2>2, <2>5, <2>6
<1>2. CASE IntervalOver
  <2>1. PICK r \in Refreshes : r = [refresh EXCEPT !.cool = FALSE]
    BY <1>t DEF Refreshes
  <2>2. r.load = refresh.load /\ r.pending = refresh.pending
    BY <2>1, <1>t DEF Refreshes
  <2>3. /\ UNCHANGED <<services, allowed, wire, notice, shown, queued, drag, version, mutation, outdated, revoked, saved>>
        /\ refresh' = Scheduled(r, version)
    BY <1>2, <2>1 DEF IntervalOver, serverVars
  <2>4. /\ refresh' \in Refreshes
        /\ \/ refresh' = r
           \/ refresh'.load # Nothing /\ refresh'.load = [at |-> "sent", version |-> version, list |-> NotRead]
    BY <2>3, <1>t, ScheduledFacts
  <2> QED
    BY <2>2, <2>3, <2>4, <1>g, <1>t
\* The access is gone.
<1>r. ASSUME Revoked, ~allowed, UNCHANGED <<services, allowed, version, saved>> PROVE HealthInv'
  <2>1. Stopped \in Refreshes /\ Stopped.load = Nothing
    BY DEF Stopped, Refreshes
  <2>a. /\ notice' \in [ChangeNo -> Notice] /\ wire' \in {"open", "down"}
        /\ shown' = Nothing /\ queued' = Nothing /\ drag' = Nothing /\ mutation' = Nothing
        /\ refresh' = Stopped /\ outdated' \in BOOLEAN /\ revoked' \in BOOLEAN
    <3>1. PICK told \in [ChangeNo -> Notice] : told = Outstanding
      BY <1>f
    <3> QED
      BY <1>r, <3>1 DEF Revoked
  <2>2. HealthPageTypeOK'
    BY <1>r, <1>t, <1>k, <2>1, <2>a
  <2>3. SnapsOK'
    BY <1>r, <2>1 DEF Revoked, HealthInv, SnapsOK, TrueToDate, Fits
  <2> QED
    BY <1>r, <2>1, <2>2, <2>3 DEF Revoked, HealthInv, MutationOK, ShownOK, FreshOK, RevokedOK
<1>3. CASE StreamOpens
  <2>1. CASE allowed
    <3>1. /\ UNCHANGED <<services, allowed, shown, queued, drag, version, mutation, outdated, revoked, saved>>
          /\ refresh' = Requested(refresh, version) /\ wire' = "open" /\ notice' = Forgiven(notice)
      BY <1>3, <2>1 DEF StreamOpens, AsksForLoad
    <3> QED
      <4>1. PICK told \in [ChangeNo -> Notice] : told = Forgiven(notice)
        BY <1>t, <1>f
      <4> QED
        BY <3>1, <4>1, <1>q, <1>g
  <2>2. CASE ~allowed
    BY <1>3, <2>2, <1>r DEF StreamOpens
  <2> QED
    BY <2>1, <2>2
<1>4. CASE SnapshotRefused \/ MutationRefused
  BY <1>4, <1>r DEF SnapshotRefused, MutationRefused
<1>5. CASE LoseHealthAccess
  <2>1. HealthPageTypeOK'
    BY <1>5, <1>t, <1>k DEF LoseHealthAccess
  <2> QED
    BY <1>5, <2>1 DEF LoseHealthAccess, HealthInv, SnapsOK, TrueToDate, Fits, MutationOK, ShownOK, Agrees, FreshOK, Covers, Latest,
                      RevokedOK
<1>m. ASSUME NEW kind \in {"order", "create", "delete"}, NEW after \in Orders, Commit(kind, after)
      PROVE  /\ services' \in Listed /\ services'.at = services.at + 1 /\ services'.order = after
             /\ UNCHANGED <<allowed, wire>> /\ notice' \in [ChangeNo -> Notice] /\ services'.at \in ChangeNo
             /\ wire = "open" => notice'[services'.at] # "none"
             /\ \A n \in ChangeNo : n # services'.at => notice'[n] = notice[n]
             /\ \A l \in Listed : l.at <= services.at => l.at < services'.at /\ l.at <= services'.at
  <2>1. services.at \in Nat /\ services.at < MaxListed
    BY <1>m, <1>t, <1>l DEF Commit
  <2>0. PICK more \in 0 .. MaxListed : more = services.at + 1
    BY <2>1, <1>n
  <2>2. PICK next \in Listed : next = [order |-> after, at |-> more]
    BY <1>m DEF Listed
  <2>3. services' = next /\ next.at = services.at + 1 /\ next.order = after
    BY <1>m, <2>0, <2>2 DEF Commit
  <2>4. \A l \in Listed : l.at <= services.at => l.at < next.at /\ l.at <= next.at
    BY <2>1, <2>3, <1>l
  <2>5. PICK n \in ChangeNo : n = services.at + 1
    BY <2>1, <1>n DEF ChangeNo
  <2>6. PICK what \in Notice : notice' = [notice EXCEPT ![n] = what] /\ (wire = "open" => what # "none")
    BY <1>m, <2>5, Zenon DEF Commit, Heeded, Notice
  <2>7. /\ notice' \in [ChangeNo -> Notice] /\ notice'[n] = what
        /\ \A m \in ChangeNo : m # n => notice'[m] = notice[m]
    BY <2>6, <1>t
  <2> QED
    BY <1>m, <2>3, <2>4, <2>5, <2>6, <2>7 DEF Commit
\* The services change.
<1>c. ASSUME NEW kind \in {"order", "create", "delete"}, NEW after \in Orders, Commit(kind, after),
             UNCHANGED <<shown, queued, drag, version, refresh, outdated, revoked, saved>>,
             mutation' \in Mutation \cup {Nothing}, MutationOK', mutation' = Nothing <=> mutation = Nothing
      PROVE  HealthInv'
  <2>1. HealthPageTypeOK'
    BY <1>c, <1>m, <1>t, <1>k
  <2>2. SnapsOK'
    <3>1. \A l \in Listed : Fits(l) => l.at < services'.at /\ l.at <= services'.at /\ l.at # services'.at
      BY <1>c, <1>m, <1>l DEF Fits
    <3>2. \A l \in Listed : Fits(l) => (l.at = saved.at => l.order = saved.order)
      BY DEF Fits
    <3>3. Fits(saved)' /\ (queued' # Nothing => Fits(queued)')
      BY <1>c, <1>t, <3>1, <3>2 DEF HealthInv, SnapsOK, TrueToDate, Fits
    <3>4. refresh'.load # Nothing /\ refresh'.load.at = "read" => Fits(refresh.load.list)'
      BY <1>c, <1>w, <3>1, <3>2 DEF HealthInv, SnapsOK, TrueToDate, Fits
    <3> QED
      BY <1>c, <3>3, <3>4 DEF HealthInv, SnapsOK, TrueToDate
  <2>3. ShownOK'
    BY <1>c DEF HealthInv, ShownOK, Agrees
  <2>6. ASSUME NEW list \in Listed, wire = "open", Covers(list) PROVE Covers(list)'
    <3>1. list.at < services'.at /\ list.at <= services'.at /\ services'.at = services.at + 1 /\ services.at \in Nat
      BY <2>6, <1>c, <1>m, <1>t, <1>l DEF Covers
    <3>2. ASSUME NEW n \in list.at + 1 .. services'.at PROVE notice'[n] # "none"
      <4>1. n = services'.at \/ (n \in list.at + 1 .. services.at /\ n # services'.at)
        BY <3>1, <3>2, <1>l
      <4>2. n \in ChangeNo
        BY <3>1, <3>2, <1>c, <1>m, <1>l, <1>n DEF ChangeNo
      <4> QED
        BY <4>1, <4>2, <2>6, <1>c, <1>m DEF Covers
    <3>3. list.at # services'.at
      BY <3>1, <1>l
    <3> QED
      BY <3>1, <3>2, <3>3 DEF Covers
  <2>7. Latest' = Latest /\ Latest \in Listed \cup {Nothing}
    BY <1>c, <1>t DEF Latest
  <2>8. UNCHANGED <<wire, refresh, outdated, revoked>>
    BY <1>c, <1>m
  <2>4. FreshOK'
    BY <1>w, <2>6, <2>7, <2>8 DEF HealthInv, FreshOK
  <2>5. RevokedOK'
    BY <1>c, <1>m DEF HealthInv, RevokedOK
  <2> QED
    BY <1>c, <1>t, <2>1, <2>2, <2>3, <2>4, <2>5 DEF HealthInv
<1>6. CASE OthersChange
  <2>1. PICK m \in [kind : {"order"}, order : Orders] \cup [kind : {"create", "delete"}, id : Service] :
          \E after \in Outcomes(m) : after # services.order /\ Commit(m.kind, after)
    BY <1>6 DEF OthersChange
  <2>2. PICK kind \in {"order", "create", "delete"} : kind = m.kind
    BY <2>1
  <2>3. Outcomes(m) \subseteq Orders
    BY <2>1, <1>t, <1>l, OutcomesAreOrders
  <2>4. PICK after \in Orders : Commit(kind, after)
    BY <2>1, <2>2, <2>3
  <2>5. UNCHANGED <<shown, queued, drag, version, refresh, mutation, outdated, revoked, saved>>
    BY <1>6 DEF OthersChange
  <2>6. mutation # Nothing /\ mutation.at = "done" => mutation.took < services'.at /\ mutation.took <= services'.at
    <3> HAVE mutation # Nothing /\ mutation.at = "done"
    <3>1. mutation.took <= services.at /\ mutation.took \in Nat
      BY <1>t, <1>n, MutationFacts DEF HealthInv, MutationOK
    <3>2. services'.at = services.at + 1 /\ services.at \in Nat
      BY <2>4, <1>m, <1>t, <1>l
    <3> QED
      BY <3>1, <3>2
  <2>7. mutation # Nothing /\ mutation.at = "done" => mutation.took # services'.at
    <3>1. services'.at \in Nat /\ (mutation # Nothing => mutation.took \in Nat)
      BY <2>4, <1>m, <1>t, <1>l, <1>n, MutationFacts
    <3> QED
      BY <2>6, <3>1
  <2>8. MutationOK'
    BY <2>5, <2>6, <2>7 DEF HealthInv, MutationOK
  <2> QED
    BY <2>4, <2>5, <2>8, <1>c, <1>t
<1>7. CASE ServerTakes
  <2>1. mutation # Nothing /\ mutation.at = "sent" /\ mutation \in Mutation
        /\ UNCHANGED <<shown, queued, drag, version, refresh, outdated, revoked, saved>>
        /\ mutation.kind \in {"order", "create", "delete"}
    BY <1>7, <1>t, MutationFacts DEF ServerTakes
  <2>2. CASE \E after \in Outcomes(mutation) :
             Commit(mutation.kind, after) /\ mutation' = [mutation EXCEPT !.at = "done", !.took = services.at + 1]
    <3>1. Outcomes(mutation) \subseteq Orders /\ (mutation.kind = "order" => Outcomes(mutation) \subseteq {mutation.order})
      BY <2>1, <1>t, <1>l, OutcomesAreOrders, MutationFacts
    <3>2. PICK after \in Orders :
             /\ Commit(mutation.kind, after) /\ mutation' = [mutation EXCEPT !.at = "done", !.took = services.at + 1]
             /\ mutation.kind = "order" => after = mutation.order
      BY <2>2, <3>1
    <3>3. /\ services' \in Listed /\ services'.at = services.at + 1 /\ services'.order = after
          /\ \A l \in Listed : l.at <= services.at => l.at < services'.at /\ l.at <= services'.at
      BY <2>1, <3>2, <1>m
    <3>4. PICK took \in 0 .. MaxListed : took = services.at + 1 /\ took = services'.at
      BY <3>3, <1>l, <1>n
    <3>5. PICK next \in Mutation : next = [mutation EXCEPT !.at = "done", !.took = took]
      BY <2>1, TakenMutation
    <3>6. mutation' = next
      BY <3>2, <3>4, <3>5
    <3>7. /\ next.at = "done" /\ next.took = took /\ next.kind = mutation.kind
          /\ mutation.kind = "order" => next.order = mutation.order
      BY <2>1, <3>5, TakenMutation
    <3>8. saved.at < took
      BY <3>3, <3>4, <1>t, <1>v
    <3>9. refresh.load # Nothing /\ refresh.load.at = "read" => refresh.load.list.at < took /\ refresh.load.list.at \in Nat
      BY <1>w, <1>l, <3>3, <3>4 DEF HealthInv, SnapsOK, TrueToDate, Fits
    <3>10. refresh.load # Nothing /\ refresh.load.at = "read" => refresh.load.list.at # took
      BY <3>9
    <3>11. took <= services'.at
      BY <3>4
    <3>12. MutationOK'
      BY <2>1, <3>2, <3>3, <3>6, <3>7, <3>8, <3>10, <3>11 DEF HealthInv, MutationOK
    <3> QED
      BY <2>1, <3>2, <3>6, <3>12, <1>c
  <2>3. CASE mutation' = [mutation EXCEPT !.at = "refused"] /\ UNCHANGED <<services, allowed, wire, notice>>
    <3>1. PICK next \in Mutation : next = [mutation EXCEPT !.at = "refused"]
      BY <2>1, RefusedMutation
    <3>2. mutation' = next
      BY <2>3, <3>1
    <3>3. next.at = "refused" /\ next.kind = mutation.kind
      BY <2>1, <3>1, RefusedMutation
    <3>4. HealthPageTypeOK'
      BY <2>1, <2>3, <3>2, <1>t, <1>k
    <3>5. MutationOK'
      BY <2>1, <2>3, <3>2, <3>3 DEF HealthInv, MutationOK
    <3>6. ShownOK' /\ SnapsOK' /\ FreshOK' /\ RevokedOK'
      BY <2>1, <2>3, <3>2 DEF HealthInv, ShownOK, Agrees, SnapsOK, TrueToDate, Fits, FreshOK, Covers, Latest, RevokedOK
    <3> QED
      BY <2>1, <3>4, <3>5, <3>6, <1>t DEF HealthInv
  <2> QED
    BY <1>7, <2>2, <2>3 DEF ServerTakes, serverVars
<1>8. CASE ReadSnapshot
  <2>1. refresh.load # Nothing /\ refresh' = [refresh EXCEPT !.load.at = "read", !.load.list = services]
        /\ UNCHANGED <<services, allowed, wire, notice, shown, queued, drag, version, mutation, outdated, revoked, saved>>
    BY <1>8 DEF ReadSnapshot, serverVars
  <2>2. PICK pull \in Loading : pull = [[refresh.load EXCEPT !.at = "read"] EXCEPT !.list = services]
    BY <2>1, <1>t, <1>w DEF Loading
  <2>3. pull.at = "read" /\ pull.list = services /\ pull.version = refresh.load.version
    BY <2>1, <2>2, <1>w DEF Loading
  <2>4. PICK next \in Refreshes : next = [refresh EXCEPT !.load = pull]
    BY <1>t DEF Refreshes
  <2>5. refresh' = next
    BY <2>1, <2>2, <2>4, <1>t DEF Refreshes
  <2>6. next.load = pull /\ next.pending = refresh.pending /\ pull # Nothing
    BY <2>4, <1>t DEF Refreshes
  <2>7. HealthPageTypeOK'
    BY <2>1, <2>5, <1>t, <1>k
  <2>8. Fits(services) /\ services.at >= saved.at
    BY <1>t, <1>v, <1>l DEF HealthInv, SnapsOK, TrueToDate, Fits
  <2>9. SnapsOK'
    BY <2>1, <2>3, <2>5, <2>6, <2>8 DEF HealthInv, SnapsOK, TrueToDate, Fits
  <2>10. MutationOK'
    BY <2>1, <2>3, <2>5, <2>6 DEF HealthInv, MutationOK
  <2>11. FreshOK'
    <3>1. Covers(services)'
      BY <2>1, <1>t, <1>l DEF Covers
    <3> QED
      BY <2>1, <2>3, <2>5, <2>6, <3>1 DEF FreshOK
  <2>12. ShownOK' /\ RevokedOK'
    BY <2>1 DEF HealthInv, ShownOK, Agrees, RevokedOK
  <2> QED
    BY <2>5, <2>7, <2>9, <2>10, <2>11, <2>12 DEF HealthInv
\* A load is over.
<1>o. ASSUME NEW r \in Refreshes, refresh' = Loaded(r)
      PROVE  /\ refresh' \in Refreshes
             /\ \/ refresh'.load = Nothing /\ refresh'.pending = r.pending
                \/ /\ refresh'.load # Nothing /\ refresh'.load = [at |-> "sent", version |-> version, list |-> NotRead]
                   /\ r.pending
  <2>1. PICK q \in Refreshes : q = [r EXCEPT !.load = Nothing]
    BY DEF Refreshes
  <2>2. q.load = Nothing /\ q.pending = r.pending
    BY <2>1 DEF Refreshes
  <2>3. refresh' = Scheduled(q, version)
    BY <1>o, <2>1 DEF Loaded
  <2> QED
    BY <2>2, <2>3, <1>t, ScheduledFacts
<1>9. CASE SnapshotFails
  <2>1. refresh' = Loaded(refresh) /\ outdated' = TRUE
        /\ UNCHANGED <<services, allowed, wire, notice, shown, queued, drag, version, mutation, revoked, saved>>
    BY <1>9 DEF SnapshotFails, serverVars
  <2> QED
    BY <2>1, <1>o, <1>g, <1>t
<1>10. CASE SnapshotAnswered
  <2>1. /\ refresh.load # Nothing /\ refresh.load.at = "read" /\ allowed
        /\ UNCHANGED <<services, allowed, wire, drag, version, mutation, revoked, saved>>
    BY <1>10 DEF SnapshotAnswered
  <2>2. CASE CurrentVersion(refresh.load)
    <3>1. PICK list \in Listed : list = refresh.load.list
      BY <2>1, <1>w
    <3>2. Fits(list) /\ list.at >= saved.at
      BY <2>1, <2>2, <3>1 DEF HealthInv, SnapsOK, TrueToDate, CurrentVersion
    <3>3. /\ outdated' = FALSE /\ refresh' = Loaded(refresh) /\ UNCHANGED notice
          /\ IF drag # Nothing THEN queued' = list /\ UNCHANGED shown
             ELSE shown' = list /\ UNCHANGED queued
      BY <1>10, <2>2, <3>1 DEF SnapshotAnswered
    <3>4. /\ refresh' \in Refreshes
          /\ \/ refresh'.load = Nothing /\ refresh'.pending = refresh.pending
             \/ refresh'.load # Nothing /\ refresh'.load = [at |-> "sent", version |-> version, list |-> NotRead]
      BY <3>3, <1>o, <1>t
    <3>5. HealthPageTypeOK'
      BY <2>1, <3>3, <3>4, <1>t, <1>k
    <3>7. refresh'.load # Nothing => TrueToDate(refresh'.load)
      BY <3>4, <1>v DEF TrueToDate
    <3>8. queued' # Nothing => Fits(queued') /\ queued'.at >= saved.at /\ drag # Nothing
      BY <3>2, <3>3 DEF HealthInv, SnapsOK
    <3>9. SnapsOK'
      BY <2>1, <3>7, <3>8 DEF HealthInv, SnapsOK, TrueToDate, Fits
    <3>10. MutationOK'
      BY <2>1, <3>4 DEF HealthInv, MutationOK, SnapsOK, TrueToDate, Fits
    <3>11. Agrees(list)
      BY <3>2 DEF Fits, Agrees
    <3>12. ShownOK'
      BY <2>1, <3>3, <3>11 DEF HealthInv, ShownOK, Agrees
    <3>13. Latest' = list
      BY <2>1, <3>3 DEF Latest
    <3>14. FreshOK'
      <4>1. Covers(list)' <=> Covers(list)
        BY <2>1, <3>3 DEF Covers
      <4> QED
        BY <2>1, <3>1, <3>4, <3>13, <4>1 DEF HealthInv, FreshOK
    <3>15. RevokedOK'
      BY <2>1 DEF HealthInv, RevokedOK
    <3> QED
      BY <3>4, <3>5, <3>9, <3>10, <3>12, <3>14, <3>15 DEF HealthInv
  <2>3. CASE ~CurrentVersion(refresh.load)
    <3>1. PICK r \in Refreshes : r = [refresh EXCEPT !.pending = TRUE]
      BY <1>t DEF Refreshes
    <3>2. r.pending
      BY <3>1, <1>t DEF Refreshes
    <3>3. refresh' = Loaded(r) /\ notice' = Forgiven(notice) /\ UNCHANGED <<shown, queued, outdated>>
      BY <1>10, <2>3, <3>1 DEF SnapshotAnswered
    <3> QED
      BY <2>1, <3>2, <3>3, <1>f, <1>o, <1>g, <1>t
  <2> QED
    BY <2>2, <2>3
\* The page begins to change the services.
<1>b. ASSUME NEW m \in Mutation, m.at = "sent", mutation' = m,
             m.kind = "order" <=> drag # Nothing,
             shown' \in Listed \cup {Nothing}, drag = Nothing => shown' = shown, drag # Nothing => shown' # Nothing,
             UNCHANGED <<services, allowed, wire, notice, queued, drag, version, refresh, outdated, revoked, saved>>,
             ~revoked
      PROVE  HealthInv'
  <2>1. HealthPageTypeOK'
    BY <1>b, <1>t, <1>k
  <2>2. SnapsOK'
    BY <1>b DEF HealthInv, SnapsOK, TrueToDate, Fits
  <2>3. MutationOK'
    BY <1>b DEF MutationOK
  <2>4. ShownOK'
    BY <1>b DEF HealthInv, ShownOK, Agrees
  <2>5. Latest' = Latest
    BY <1>b DEF Latest
  <2>6. FreshOK' /\ RevokedOK'
    BY <1>b, <2>5 DEF HealthInv, FreshOK, Covers, RevokedOK
  <2> QED
    BY <1>b, <1>t, <2>1, <2>2, <2>3, <2>4, <2>6 DEF HealthInv
<1>11. ASSUME NEW kind \in {"create", "delete"}, NEW id \in Service, AddOrDelete(kind, id) PROVE HealthInv'
  <2>0. PICK zero \in 0 .. MaxListed : zero = 0
    BY <1>n
  <2>a. PICK m \in Mutation : m = [kind |-> kind, id |-> id, at |-> "sent", took |-> zero]
    BY DEF Mutation, OtherMutation, MutationAt
  <2>1. m = [kind |-> kind, id |-> id, at |-> "sent", took |-> 0]
    BY <2>0, <2>a
  <2>2. m.at = "sent" /\ m.kind = kind
    BY <2>1
  <2>3. /\ mutation' = m /\ shown # Nothing /\ drag = Nothing
        /\ UNCHANGED <<services, allowed, wire, notice, shown, queued, drag, version, refresh, outdated, revoked, saved>>
    BY <1>11, <2>1 DEF AddOrDelete, serverVars
  <2>4. ~revoked
    BY <2>3 DEF HealthInv, RevokedOK
  <2> QED
    BY <1>b, <1>t, <2>2, <2>3, <2>4
<1>12. ASSUME NEW s \in Service, NEW t \in Service, Drop(s, t) PROVE HealthInv'
  <2>1. /\ drag # Nothing /\ mutation = Nothing /\ drag \in [before : Listed]
        /\ s \in ServicesOf(drag.before.order) /\ t \in ServicesOf(drag.before.order) /\ s # t
    BY <1>12, <1>t DEF Drop
  <2>2. drag.before \in Listed /\ drag.before.order \in Orders
    BY <2>1, <1>l
  <2>3. PICK ranks \in Orders : ranks = Moved(drag.before.order, s, t)
    BY <2>1, <2>2, MovedOrder
  <2>4. shown # Nothing /\ shown \in Listed
    BY <2>1, <1>t DEF HealthInv, ShownOK
  <2>5. PICK next \in Listed : next = [shown EXCEPT !.order = ranks]
    BY <2>4 DEF Listed
  <2>a. PICK zero \in 0 .. MaxListed : zero = 0
    BY <1>n
  <2>b. PICK m \in Mutation : m = [kind |-> "order", order |-> ranks, at |-> "sent", took |-> zero]
    BY DEF Mutation, OrderMutation, MutationAt
  <2>6. m = [kind |-> "order", order |-> ranks, at |-> "sent", took |-> 0]
    BY <2>a, <2>b
  <2>7. m.at = "sent" /\ m.kind = "order"
    BY <2>6
  <2>8. mutation' = m /\ shown' = next
        /\ UNCHANGED <<services, allowed, wire, notice, queued, drag, version, refresh, outdated, revoked, saved>>
    BY <1>12, <2>3, <2>5, <2>6 DEF Drop, serverVars
  <2>9. ~revoked
    BY <2>1 DEF HealthInv, RevokedOK
  <2> QED
    BY <1>b, <2>1, <2>5, <2>7, <2>8, <2>9
<1>13. CASE StartDrag
  <2>1. /\ shown # Nothing /\ mutation = Nothing /\ drag = Nothing /\ shown \in Listed
        /\ UNCHANGED <<services, allowed, wire, notice, shown, queued, version, refresh, mutation, outdated, revoked, saved>>
    BY <1>13, <1>t DEF StartDrag, serverVars
  <2>2. PICK next \in [before : Listed] : next = [before |-> shown]
    BY <2>1
  <2>3. drag' = next /\ next.before = shown /\ next # Nothing
    BY <1>13, <2>2 DEF StartDrag
  <2>4. HealthPageTypeOK'
    BY <2>1, <2>3, <1>t, <1>k
  <2>5. queued = Nothing
    BY <2>1 DEF HealthInv, SnapsOK
  <2>6. SnapsOK'
    BY <2>1, <2>5 DEF HealthInv, SnapsOK, TrueToDate, Fits
  <2>7. MutationOK'
    BY <2>1 DEF MutationOK
  <2>8. ShownOK'
    BY <2>1, <2>3 DEF HealthInv, ShownOK, Agrees
  <2>9. Latest' = Latest
    BY <2>1, <2>3, <2>5 DEF Latest
  <2>10. FreshOK' /\ RevokedOK'
    BY <2>1, <2>9 DEF HealthInv, FreshOK, Covers, RevokedOK
  <2> QED
    BY <2>1, <2>4, <2>6, <2>7, <2>8, <2>10, <1>t DEF HealthInv
\* A drag is over: what is shown agrees with what is saved.
<1>e. Latest # Nothing => Agrees(Latest)
  <2>1. \A list : Fits(list) /\ list.at >= saved.at => Agrees(list)
    BY DEF Fits, Agrees
  <2> QED
    BY <2>1 DEF HealthInv, ShownOK, SnapsOK, Latest
<1>d. ASSUME drag # Nothing, shown' = Latest, drag' = Nothing, queued' = Nothing, mutation' = Nothing,
             UNCHANGED <<services, allowed, wire, version, outdated, revoked, saved>>,
             notice' \in [ChangeNo -> Notice],
             UNCHANGED <<refresh, notice>> \/ refresh' = Requested(refresh, version)
      PROVE  HealthInv'
  <2>1. drag \in [before : Listed] /\ Latest \in Listed
    BY <1>d, <1>t DEF Latest
  <2>2. /\ refresh' \in Refreshes
        /\ \/ refresh'.load = refresh.load
           \/ refresh'.load # Nothing /\ refresh'.load = [at |-> "sent", version |-> version, list |-> NotRead]
    BY <1>d, <1>q, <1>t
  <2>3. HealthPageTypeOK'
    BY <1>d, <1>t, <1>k, <2>1, <2>2
  <2>5. refresh'.load # Nothing => TrueToDate(refresh'.load)
    BY <2>2, <1>v DEF HealthInv, SnapsOK, TrueToDate
  <2>6. SnapsOK'
    BY <1>d, <2>5 DEF HealthInv, SnapsOK, TrueToDate, Fits
  <2>7. MutationOK'
    BY <1>d DEF MutationOK
  <2>8. Agrees(Latest) /\ Latest # Nothing
    BY <1>e, <2>1
  <2>9. ShownOK'
    BY <1>d, <2>8 DEF ShownOK, Agrees
  <2>10. Latest' = Latest
    BY <1>d DEF Latest
  <2>11. ASSUME UNCHANGED <<refresh, notice>> PROVE FreshOK'
    BY <1>d, <2>10, <2>11 DEF HealthInv, FreshOK, Covers
  <2>12. ASSUME refresh' = Requested(refresh, version) PROVE FreshOK'
    <3>1. refresh'.pending \/ (refresh'.load # Nothing /\ refresh'.load.at = "sent")
      BY <1>q, <2>12, Zenon
    <3> QED
      BY <3>1, Zenon DEF FreshOK
  <2>13. RevokedOK'
    BY <1>d DEF HealthInv, RevokedOK
  <2> QED
    BY <1>d, <2>2, <2>3, <2>6, <2>7, <2>9, <2>11, <2>12, <2>13 DEF HealthInv
<1>14. CASE CancelDrag
  <2>1. /\ drag # Nothing /\ mutation = Nothing /\ drag' = Nothing /\ queued' = Nothing
        /\ shown' = IF queued = Nothing THEN shown ELSE queued
    BY <1>14 DEF CancelDrag, FinishDrag
  <2>2. UNCHANGED <<services, allowed, wire, notice, version, refresh, mutation, outdated, revoked, saved>>
    BY <1>14 DEF CancelDrag, serverVars
  <2>3. shown' = Latest
    BY <2>1 DEF HealthInv, ShownOK, Latest
  <2> QED
    BY <2>1, <2>2, <2>3, <1>d, <1>t
<1>15. CASE MutationFails
  <2>1. mutation # Nothing /\ mutation' = Nothing
        /\ UNCHANGED <<services, allowed, wire, version, outdated, revoked, saved>>
    BY <1>15 DEF MutationFails
  <2>2. CASE mutation.kind = "order"
    <3>1. drag # Nothing
      BY <2>1, <2>2 DEF HealthInv, MutationOK
    <3>2. /\ drag' = Nothing /\ queued' = Nothing /\ refresh' = Requested(refresh, version)
          /\ shown' = IF queued = Nothing THEN drag.before ELSE queued
          /\ notice' = Forgiven(notice)
      BY <1>15, <2>2 DEF MutationFails, FinishDrag, AsksForLoad
    <3>3. shown' = Latest
      BY <3>1, <3>2 DEF Latest
    <3> QED
      <4>1. PICK told \in [ChangeNo -> Notice] : told = Forgiven(notice)
        BY <1>t, <1>f
      <4> QED
        BY <2>1, <3>1, <3>2, <3>3, <4>1, <1>d
  <2>3. CASE mutation.kind # "order"
    <3>1. UNCHANGED <<notice, shown, queued, drag, refresh>>
      BY <1>15, <2>3 DEF MutationFails
    <3>2. drag = Nothing
      BY <2>1, <2>3 DEF HealthInv, MutationOK
    <3>3. HealthPageTypeOK'
      BY <2>1, <3>1, <1>t, <1>k
    <3>4. SnapsOK'
      BY <2>1, <3>1 DEF HealthInv, SnapsOK, TrueToDate, Fits
    <3>5. MutationOK'
      BY <2>1 DEF MutationOK
    <3>6. ShownOK'
      BY <2>1, <3>1, <3>2 DEF HealthInv, ShownOK, Agrees
    <3>7. Latest' = Latest
      BY <3>1 DEF Latest
    <3>8. FreshOK' /\ RevokedOK'
      BY <2>1, <3>1, <3>7 DEF HealthInv, FreshOK, Covers, RevokedOK
    <3> QED
      BY <3>1, <3>3, <3>4, <3>5, <3>6, <3>8, <1>t DEF HealthInv
  <2> QED
    BY <2>2, <2>3
<1>16. CASE MutationSaved
  <2>1. mutation # Nothing /\ mutation.at = "done" /\ mutation' = Nothing /\ mutation \in Mutation
        /\ UNCHANGED <<services, allowed, wire, outdated, revoked>>
        /\ refresh' = Requested(Requested(refresh, version), version')
        /\ notice' \in [ChangeNo -> Notice]
    BY <1>16, <1>t, <1>f DEF MutationSaved
  <2>2. PICK asked \in Refreshes : asked = Requested(refresh, version)
    BY <1>t, RequestedFacts
  <2>3. \/ asked.load = refresh.load
        \/ asked.load # Nothing /\ asked.load = [at |-> "sent", version |-> version, list |-> NotRead]
    BY <2>2, <1>t, RequestedFacts
  <2>v. PICK next \in 0 .. MaxListed + 1 : next = version' /\ next \in Nat /\ (next = version \/ next = version + 1)
                /\ (mutation.kind = "order" => next = version + 1) /\ (mutation.kind # "order" => next = version)
    <3>1. CASE mutation.kind = "order"
      <4>1. version' = version + 1
        BY <1>16, <3>1 DEF MutationSaved
      <4>2. mutation.took <= services.at /\ saved.at < mutation.took /\ services.at <= MaxListed
            /\ mutation.took \in Nat /\ services.at \in Nat /\ saved.at \in Nat
        BY <2>1, <1>t, <1>l, <1>n, MutationFacts DEF HealthInv, MutationOK
      <4>3. version + 1 \in 0 .. MaxListed + 1
        BY <4>2, <1>v, <1>n
      <4> QED
        BY <3>1, <4>1, <4>3, <1>v
    <3>2. CASE mutation.kind # "order"
      <4>1. version' = version
        BY <1>16, <3>2 DEF MutationSaved
      <4> QED
        BY <3>2, <4>1, <1>t, <1>v
    <3> QED
      BY <3>1, <3>2
  <2>4. /\ refresh' \in Refreshes
        /\ \/ refresh'.load = asked.load /\ refresh'.pending
           \/ refresh'.load # Nothing /\ refresh'.load = [at |-> "sent", version |-> next, list |-> NotRead]
    BY <2>1, <2>2, <2>v, <1>t, RequestedFacts
  <2>5. FreshOK'
    BY <2>4 DEF FreshOK
  <2>6. refresh'.load # Nothing =>
          \/ refresh.load # Nothing /\ refresh'.load = refresh.load
          \/ refresh'.load.at = "sent" /\ refresh'.load.version \in {version, next}
    BY <2>3, <2>4
  <2>7. MutationOK'
    BY <2>1 DEF MutationOK
  <2>8. CASE mutation.kind = "order"
    <3>1. PICK took \in 0 .. MaxListed : took = mutation.took
      BY <2>1, MutationFacts
    <3>2. PICK ranks \in Orders : ranks = mutation.order
      BY <2>1, <2>8, MutationFacts
    <3>3. /\ saved.at < took /\ took <= services.at
          /\ took = services.at => services.order = ranks
          /\ refresh.load # Nothing /\ refresh.load.at = "read" /\ refresh.load.list.at = took =>
               refresh.load.list.order = ranks
      BY <2>1, <2>8, <3>1, <3>2 DEF HealthInv, MutationOK
    <3>4. PICK after \in Listed : after = [order |-> ranks, at |-> took]
      BY DEF Listed
    <3>5. saved' = after /\ after.at = took /\ after.order = ranks
      BY <1>16, <2>8, <3>1, <3>2, <3>4 DEF MutationSaved
    <3>6. PICK fin \in Orders :
            /\ fin = IF queued = Nothing THEN ranks ELSE Merged(ranks, queued.order)
            /\ Among(fin, ServicesOf(ranks)) = Among(ranks, ServicesOf(fin))
      <4>1. CASE queued = Nothing
        BY <4>1
      <4>2. CASE queued # Nothing
        <5>1. queued.order \in Orders
          BY <4>2, <1>t, <1>l
        <5> QED
          BY <4>2, <5>1, MergedOrder
      <4> QED
        BY <4>1, <4>2
    <3>7. PICK snap \in Listed : snap = [order |-> fin, at |-> took]
      BY DEF Listed
    <3>8. shown' = snap /\ drag' = Nothing /\ queued' = Nothing
      BY <1>16, <2>8, <3>1, <3>2, <3>6, <3>7 DEF MutationSaved, FinishDrag
    <3>9. HealthPageTypeOK'
      BY <2>1, <2>v, <2>4, <3>5, <3>8, <1>t, <1>k
    <3>10. ShownOK'
      <4>1. snap.at = after.at /\ snap.order = fin
        BY <3>5, <3>7
      <4>2. snap.at >= after.at
        BY <4>1, <3>5, <1>n
      <4> QED
        BY <3>5, <3>6, <3>8, <4>1, <4>2 DEF ShownOK, Agrees
    <3>11. next = version + 1 /\ next <= took
      <4>1. took \in Nat /\ saved.at \in Nat
        BY <1>t, <1>l, <1>n
      <4> QED
        BY <2>8, <2>v, <3>3, <4>1, <1>v
    <3>12. /\ after.at <= services.at /\ (after.at = services.at => after.order = services.order)
           /\ services.at >= after.at /\ (services.at = after.at => services.order = after.order)
      BY <3>3, <3>5
    <3>13. refresh'.load # Nothing =>
             /\ refresh'.load.version <= next
             /\ refresh'.load.at = "read" =>
                  /\ refresh'.load.list \in Listed /\ refresh'.load.list.at <= services.at
                  /\ refresh'.load.list.at = services.at => refresh'.load.list.order = services.order
                  /\ refresh'.load.list.at = after.at => refresh'.load.list.order = after.order
                  /\ refresh'.load.version = next => refresh'.load.list.at >= after.at
      <4>1. CASE refresh.load # Nothing /\ refresh'.load = refresh.load
        <5>1. (refresh.load.at = "read" => Fits(refresh.load.list)) /\ refresh.load.version <= version
          BY <4>1 DEF HealthInv, SnapsOK, TrueToDate
        <5>2. refresh.load.version <= next /\ refresh.load.version # next
          BY <4>1, <5>1, <3>11, <1>w, <1>v
        <5> QED
          BY <4>1, <5>1, <5>2, <3>3, <3>5 DEF Fits
      <4>2. CASE refresh'.load.at = "sent" /\ refresh'.load.version \in {version, next}
        <5>1. version <= next /\ next <= next
          BY <3>11, <1>v
        <5> QED
          BY <4>2, <5>1
      <4> QED
        BY <2>6, <4>1, <4>2
    <3>14. SnapsOK'
      BY <2>1, <2>v, <3>5, <3>8, <3>11, <3>12, <3>13 DEF SnapsOK, TrueToDate, Fits
    <3>15. RevokedOK'
      BY <2>1, <3>8 DEF HealthInv, RevokedOK
    <3> QED
      BY <2>4, <2>5, <2>7, <3>9, <3>10, <3>14, <3>15 DEF HealthInv
  <2>9. CASE mutation.kind # "order"
    <3>1. UNCHANGED <<version, saved, shown, queued, drag>> /\ next = version
      BY <1>16, <2>9, <2>v DEF MutationSaved
    <3>2. HealthPageTypeOK'
      BY <2>1, <2>4, <3>1, <1>t, <1>k
    <3>4. refresh'.load # Nothing => TrueToDate(refresh'.load)
      BY <2>6, <3>1, <1>v DEF HealthInv, SnapsOK, TrueToDate
    <3>5. SnapsOK'
      BY <2>1, <3>1, <3>4 DEF HealthInv, SnapsOK, TrueToDate, Fits
    <3>6. drag = Nothing
      BY <2>1, <2>9 DEF HealthInv, MutationOK
    <3>7. ShownOK'
      BY <2>1, <3>1, <3>6 DEF HealthInv, ShownOK, Agrees
    <3>8. RevokedOK'
      BY <2>1, <3>1 DEF HealthInv, RevokedOK
    <3> QED
      BY <2>4, <2>5, <2>7, <3>2, <3>5, <3>7, <3>8 DEF HealthInv
  <2> QED
    BY <2>8, <2>9
<1>17. CASE UNCHANGED healthPageVars
  <2>1. /\ UNCHANGED <<services, allowed, wire, notice, shown, queued, drag>>
        /\ UNCHANGED <<version, refresh, mutation, outdated, revoked, saved>>
    BY <1>17 DEF healthPageVars
  <2>2. HealthPageTypeOK'
    BY <2>1, <1>t, <1>k
  <2> QED
    BY <2>1, <2>2 DEF HealthInv, SnapsOK, TrueToDate, Fits, MutationOK, ShownOK, Agrees, FreshOK, Covers, Latest, RevokedOK
<1>18. (\E kind \in {"create", "delete"}, id \in Service : AddOrDelete(kind, id)) => HealthInv'
  BY <1>11
<1>19. (\E s, t \in Service : Drop(s, t)) => HealthInv'
  BY <1>12
<1>21. (\E n \in ChangeNo : Tell(n) \/ TellFails(n) \/ LoseNotice(n)) => HealthInv'
  BY <1>20
<1> QED
  BY <1>1, <1>2, <1>3, <1>4, <1>5, <1>6, <1>7, <1>8, <1>9, <1>10, <1>13, <1>14, <1>15, <1>16, <1>17,
     <1>18, <1>19, <1>21 DEF HealthPageNext

\* The page keeps the invariant (ServiceHealth.tsx, health-refresh.ts).
LEMMA HealthInvariance == HealthPageSpec => []HealthInv
BY HealthStart, HealthStep, PTL DEF HealthPageSpec

\* The page never goes back behind its own saved order, and at rest lacks only changes of
\* which it was not told, or whose notification was lost since it last asked for a load
\* (ServiceHealth.tsx, postgres-notifications.ts).
THEOREM HealthPageIsSafe == HealthPageSpec => [](HealthPageTypeOK /\ HealthPageSafe)
<1>1. HealthInv => HealthPageTypeOK /\ HealthPageSafe
  BY HealthInvSafe
<1> QED
  BY <1>1, HealthInvariance, PTL

-----------------------------------------------------------------------------
(* The weekly recap (Weekly). *)

\* What pages and loads may be.
ShownRecap == [is : {"shown"}, text : Text, saved : Text, busy : BOOLEAN]
RecapStates == [is : {"loading", "error"}] \cup ShownRecap
RecapLoad == [at : {"viewer", "note", "recheck"}, asked : 0 .. Queries, of : Scope, note : Text]

\* A save the page waits for is of its week; one that it left is of a week it does not know.
SaveIs(s, w, page, unknown) ==
  IF s.shown THEN s.week = w /\ page.is = "shown" /\ page.busy ELSE s.week \in unknown
SaveOK(s) == SaveIs(s, week, recap, apart)

\* It waits for at most one, and only the first one in the line has written.
NoteSavesOK ==
  /\ \A s \in asking : SaveOK(s)
  /\ \A i \in DOMAIN noteSaves : SaveOK(noteSaves[i])
  /\ \A s, r \in asking : s.shown /\ r.shown => s = r
  /\ \A i, j \in DOMAIN noteSaves : noteSaves[i].shown /\ noteSaves[j].shown => i = j
  /\ \A s \in asking, i \in DOMAIN noteSaves : ~(s.shown /\ noteSaves[i].shown)
  /\ \A i \in DOMAIN noteSaves : noteSaves[i].at = "written" => i = 1

\* What the page takes for saved is.
RecapPageOK ==
  /\ recap.is = "shown" /\ week \notin apart => recap.saved = notes[week]
  /\ load # NotLoading => recap.is = "loading"
  /\ load.at = "recheck" /\ week \notin apart => load.note = notes[week]

\* The history has what a record was admitted with: all that is so now and was looked at again.
Holds(r, still) == Still(r.of, scope) \cup 1 .. r.asked \subseteq still

StillHeldOK ==
  /\ load.at = "recheck" => Holds(load, heldRead)
  /\ noteSaves # <<>> /\ noteSaves[1].at = "written" => Holds(noteSaves[1], heldSave)

\* All of it, by the time it commits or is shown.
CommitsOK == \A c \in committed : c = Query

\* The inductive invariant.
RecapInv == RecapTypeOK /\ NoteSavesOK /\ RecapPageOK /\ StillHeldOK /\ CommitsOK

\* The invariant implies what is claimed.
LEMMA RecapInvSafe == RecapInv => RecapTypeOK /\ RecapsSafe
BY DEF RecapInv, RecapPageOK, CommitsOK, RecapsSafe, Exportable

\* One more answer keeps a record's other parts.
LEMMA OneMoreAsked ==
  ASSUME scope \in Scope, NEW r, r \in RecapLoad \/ r \in NoteSave, r.asked < Queries
  PROVE  /\ r \in RecapLoad => Asked(r) \in RecapLoad /\ Asked(r).at = r.at
         /\ r \in NoteSave => /\ Asked(r) \in NoteSave /\ Asked(r).at = r.at
                              /\ Asked(r).shown = r.shown /\ Asked(r).week = r.week
<1>1. Queries \in Nat
  BY RecapAssumption
<1>2. r.asked \in 0 .. Queries /\ r.of \in Scope
  BY DEF RecapLoad, NoteSave
<1>3. PICK of : of = [r.of EXCEPT ![r.asked + 1] = scope[r.asked + 1]]
  OBVIOUS
<1>4. of \in Scope /\ r.asked + 1 \in 0 .. Queries
  BY <1>1, <1>2, <1>3 DEF Scope, Query
<1>5. Asked(r) = [[r EXCEPT !.asked = r.asked + 1] EXCEPT !.of = of]
  BY <1>3 DEF Asked, RecapLoad, NoteSave
<1>6. ASSUME r \in RecapLoad PROVE Asked(r) \in RecapLoad /\ Asked(r).at = r.at
  BY <1>4, <1>5, <1>6 DEF RecapLoad
<1>7. ASSUME r \in NoteSave
      PROVE  /\ Asked(r) \in NoteSave /\ Asked(r).at = r.at
             /\ Asked(r).shown = r.shown /\ Asked(r).week = r.week
  BY <1>4, <1>5, <1>7 DEF NoteSave
<1> QED
  BY <1>6, <1>7

\* The queries among 1 .. asked + 1 are those and the next.
LEMMA NextAsked ==
  ASSUME scope \in Scope, NEW r, r \in RecapLoad \/ r \in NoteSave, r.asked < Queries,
         NEW still, Holds(r, still), Recheck(r.of, r.asked + 1)
  PROVE  Still(r.of, scope) \cup 1 .. (r.asked + 1) \subseteq still
<1>1. Queries \in Nat /\ r.asked \in 0 .. Queries
  BY RecapAssumption DEF RecapLoad, NoteSave
<1>2. r.asked + 1 \in Still(r.of, scope)
  BY <1>1 DEF Still, Recheck, Query
<1> QED
  BY <1>1, <1>2 DEF Holds

\* Nothing has been written at first.
LEMMA RecapStart == RecapInit => RecapInv
<1> SUFFICES ASSUME RecapInit PROVE RecapInv
  OBVIOUS
<1>1. scope \in Scope /\ 0 \in 0 .. MaxScopes /\ 0 \in 0 .. MaxEdits
  BY RecapAssumption DEF RecapInit, Scope
<1>2. recap \in [is : {"loading", "error"}] /\ recap.is = "loading"
  BY DEF RecapInit, Hidden
<1>3. noteSaves \in Seq(NoteSave) /\ DOMAIN noteSaves = {} /\ noteSaves = <<>> /\ asking = {}
  BY DEF RecapInit
<1>4. notes \in [RecapWeek -> Text]
  BY DEF RecapInit, Text
<1>5. RecapTypeOK
  BY <1>1, <1>2, <1>3, <1>4 DEF RecapInit, RecapTypeOK
<1>6. load.at = "none" /\ load = NotLoading
  BY DEF RecapInit, NotLoading
<1>7. NoteSavesOK /\ RecapPageOK /\ StillHeldOK /\ CommitsOK
  BY <1>2, <1>3, <1>6 DEF RecapInit, NoteSavesOK, RecapPageOK, StillHeldOK, CommitsOK
<1> QED
  BY <1>5, <1>7 DEF RecapInv

\* Every step of the page, of its saving and of the commits.
LEMMA RecapStep == RecapInv /\ [RecapNext]_recapVars => RecapInv'
<1> SUFFICES ASSUME RecapInv, [RecapNext]_recapVars PROVE RecapInv'
  OBVIOUS
<1>n. MaxScopes \in Nat /\ MaxEdits \in Nat /\ Queries \in Nat
  BY RecapAssumption
<1>t. /\ scope \in Scope /\ scopes \in 0 .. MaxScopes /\ notes \in [RecapWeek -> Text]
      /\ week \in RecapWeek /\ recap \in RecapStates /\ load \in {NotLoading} \cup RecapLoad
      /\ asking \subseteq NoteSave /\ noteSaves \in Seq(NoteSave) /\ edits \in 0 .. MaxEdits
      /\ apart \subseteq RecapWeek /\ heldRead \subseteq Query /\ heldSave \subseteq Query
  BY DEF RecapInv, RecapTypeOK, RecapStates, ShownRecap, RecapLoad
<1>k. ASSUME scope' \in Scope, scopes' \in 0 .. MaxScopes, notes' \in [RecapWeek -> Text],
             week' \in RecapWeek, recap' \in RecapStates, load' \in {NotLoading} \cup RecapLoad,
             asking' \subseteq NoteSave, noteSaves' \in Seq(NoteSave), edits' \in 0 .. MaxEdits,
             apart' \subseteq RecapWeek, heldRead' \subseteq Query, heldSave' \subseteq Query,
             CommitsOK'
      PROVE  RecapTypeOK'
  <2>1. committed' \subseteq SUBSET Query
    BY <1>k DEF CommitsOK
  <2> QED
    BY <1>k, <2>1 DEF RecapTypeOK, RecapStates, ShownRecap, RecapLoad
<1>s. recap.is = "shown" => recap \in ShownRecap
  BY <1>t DEF RecapStates
<1>l. load # NotLoading => load \in RecapLoad
  BY <1>t
<1>h. \A kind \in {"loading", "error"} : Hidden(kind) \in RecapStates /\ Hidden(kind).is = kind
  BY DEF Hidden, RecapStates
<1>z. NotLoading.at = "none"
  BY DEF NotLoading
<1>c. CommitsOK /\ NoteSavesOK /\ RecapPageOK /\ StillHeldOK
  BY DEF RecapInv
<1>e. Unasked \in Scope /\ NoWords \in Text /\ 0 \in 0 .. Queries
  BY <1>n DEF Unasked, Scope, Text
<1>f. noteSaves # <<>> =>
        1 \in DOMAIN noteSaves /\ Head(noteSaves) = noteSaves[1] /\ noteSaves[1] \in NoteSave
  BY <1>t
<1>1. CASE ScopeMoves
  <2>1. scopes' \in 0 .. MaxScopes
        /\ UNCHANGED <<notes, week, recap, load, asking, noteSaves, edits, apart, committed>>
    BY <1>1, <1>t, <1>n DEF ScopeMoves
  <2>2. scope' \in Scope
    <3>1. PICK q \in Query, a \in Answers \cup {NoAnswer} : scope' = [scope EXCEPT ![q] = a]
      BY <1>1 DEF ScopeMoves
    <3> QED
      BY <3>1, <1>t DEF Scope
  <2>3. /\ heldRead' = (IF Rechecking THEN heldRead \cup Still(load.of, scope') ELSE heldRead)
        /\ heldSave' = (IF Writing THEN heldSave \cup Still(Head(noteSaves).of, scope') ELSE heldSave)
    BY <1>1 DEF ScopeMoves
  <2>4. \A of : Still(of, scope') \subseteq Query
    BY DEF Still
  <2>5. heldRead' \subseteq Query /\ heldSave' \subseteq Query
    BY <2>3, <2>4, <1>t
  <2>6. CommitsOK'
    BY <2>1, <1>c DEF CommitsOK
  <2>7. RecapTypeOK'
    BY <2>1, <2>2, <2>5, <2>6, <1>t, <1>k
  <2>8. NoteSavesOK' /\ RecapPageOK'
    BY <2>1, <1>c DEF NoteSavesOK, SaveOK, SaveIs, RecapPageOK
  <2>9. StillHeldOK'
    <3>1. load.at = "recheck" => Still(load.of, scope') \cup 1 .. load.asked \subseteq heldRead'
      BY <2>3, <1>c DEF StillHeldOK, Holds, Rechecking
    <3>2. noteSaves # <<>> /\ noteSaves[1].at = "written" =>
            Still(noteSaves[1].of, scope') \cup 1 .. noteSaves[1].asked \subseteq heldSave'
      BY <2>3, <1>c, <1>f DEF StillHeldOK, Holds, Writing
    <3> QED
      BY <2>1, <3>1, <3>2 DEF StillHeldOK, Holds
  <2> QED
    BY <2>6, <2>7, <2>8, <2>9 DEF RecapInv
\* Nothing of a page without its recap is shown or awaited.
<1>g. ASSUME UNCHANGED <<scope, scopes, notes, week, asking, noteSaves, edits, apart, heldSave>>,
             recap.is # "shown", recap' \in RecapStates, load' \in {NotLoading} \cup RecapLoad,
             recap'.is = "shown" /\ week \notin apart => recap'.saved = notes[week],
             load' # NotLoading => recap'.is = "loading",
             load'.at = "recheck" /\ week \notin apart => load'.note = notes[week],
             heldRead' \subseteq Query,
             load'.at = "recheck" =>
               Still(load'.of, scope) \cup 1 .. load'.asked \subseteq heldRead',
             CommitsOK'
      PROVE  RecapInv'
  <2>1. RecapTypeOK'
    BY <1>g, <1>t, <1>k
  <2>2. NoteSavesOK'
    <3>1. \A s \in asking : ~s.shown /\ s.week \in apart
      BY <1>g, <1>c DEF NoteSavesOK, SaveOK, SaveIs
    <3>2. \A i \in DOMAIN noteSaves : ~noteSaves[i].shown /\ noteSaves[i].week \in apart
      BY <1>g, <1>c DEF NoteSavesOK, SaveOK, SaveIs
    <3> QED
      BY <1>g, <1>c, <3>1, <3>2 DEF NoteSavesOK, SaveOK, SaveIs
  <2>3. RecapPageOK'
    BY <1>g DEF RecapPageOK
  <2>4. StillHeldOK'
    BY <1>g, <1>c DEF StillHeldOK, Holds
  <2> QED
    BY <1>g, <2>1, <2>2, <2>3, <2>4 DEF RecapInv
<1>2. CASE RequestRecap
  <2>1. load = NotLoading /\ recap.is # "shown" /\ recap' = Hidden("loading")
        /\ load' = [at |-> "viewer", asked |-> 0, of |-> Unasked, note |-> NoWords]
        /\ UNCHANGED <<scope, scopes, notes, week, asking, noteSaves, edits, apart, heldRead, heldSave>>
        /\ CommitsOK'
    BY <1>2, <1>c DEF RequestRecap, CommitsOK
  <2>2. PICK next \in RecapLoad :
          next = [at |-> "viewer", asked |-> 0, of |-> Unasked, note |-> NoWords]
    BY <1>e DEF RecapLoad
  <2>3. load' = next /\ next.at = "viewer"
    BY <2>1, <2>2
  <2>4. recap' \in RecapStates /\ recap'.is = "loading"
    BY <2>1, <1>h
  <2> QED
    BY <2>1, <2>3, <2>4, <1>g, <1>t
\* It ends without being shown.
<1>o. ASSUME load # NotLoading, LoadEnds(Hidden("error")),
             UNCHANGED <<scope, scopes, notes, week, asking, noteSaves, edits, apart, heldSave, committed>>
      PROVE  RecapInv'
  <2>1. recap' = Hidden("error") /\ load' = NotLoading /\ heldRead' = {}
    BY <1>o DEF LoadEnds
  <2>2. recap' \in RecapStates /\ recap'.is = "error"
    BY <2>1, <1>h
  <2>3. recap.is = "loading" /\ CommitsOK'
    BY <1>o, <1>c DEF RecapPageOK, CommitsOK
  <2> QED
    BY <1>o, <2>1, <2>2, <2>3, <1>g, <1>z
\* It goes on.
<1>m. ASSUME NEW next \in RecapLoad, load \in RecapLoad, load # NotLoading, load' = next,
             next.at = "recheck" /\ week \notin apart => next.note = notes[week],
             heldRead' \subseteq Query,
             next.at = "recheck" => Still(next.of, scope) \cup 1 .. next.asked \subseteq heldRead',
             UNCHANGED <<scope, scopes, notes, week, recap, asking, noteSaves, edits, apart, heldSave,
                         committed>>
      PROVE  RecapInv'
  <2>1. recap.is = "loading" /\ CommitsOK'
    BY <1>m, <1>c DEF RecapPageOK, CommitsOK
  <2> QED
    BY <1>m, <2>1, <1>g, <1>t
<1>3. CASE ReadViewer
  <2>1. load.at = "viewer" /\ load.asked < Queries
        /\ UNCHANGED <<scope, scopes, notes, week, asking, noteSaves, edits, apart, heldSave, committed>>
    BY <1>3 DEF ReadViewer
  <2>2. load # NotLoading /\ load \in RecapLoad
    BY <2>1, <1>l, <1>z
  <2>3. CASE LoadEnds(Hidden("error"))
    BY <2>1, <2>2, <2>3, <1>o
  <2>4. CASE load' = Asked(load) /\ UNCHANGED <<recap, heldRead>>
    <3>1. PICK next : next = Asked(load)
      OBVIOUS
    <3>2. next \in RecapLoad /\ next.at = "viewer"
      BY <2>1, <2>2, <3>1, <1>t, OneMoreAsked
    <3> QED
      BY <2>1, <2>2, <2>4, <3>1, <3>2, <1>m, <1>t
  <2> QED
    BY <1>3, <2>3, <2>4 DEF ReadViewer
<1>4. CASE ReadHighlights
  <2>1. load.at = "viewer" /\ load' = [load EXCEPT !.at = "note"]
        /\ UNCHANGED <<scope, scopes, notes, week, recap, asking, noteSaves, edits, apart, heldRead,
                       heldSave, committed>>
    BY <1>4 DEF ReadHighlights
  <2>2. load # NotLoading /\ load \in RecapLoad
    BY <2>1, <1>l, <1>z
  <2>3. PICK next \in RecapLoad : next = [load EXCEPT !.at = "note"]
    BY <2>2 DEF RecapLoad
  <2>4. load' = next /\ next.at = "note"
    BY <2>1, <2>2, <2>3 DEF RecapLoad
  <2> QED
    BY <2>1, <2>2, <2>4, <1>m, <1>t
<1>5. CASE ReadNotes
  <2>1. load.at = "note" /\ load' = [load EXCEPT !.at = "recheck", !.asked = 0, !.note = notes[week]]
        /\ heldRead' = Still(load.of, scope)
        /\ UNCHANGED <<scope, scopes, notes, week, recap, asking, noteSaves, edits, apart, heldSave,
                       committed>>
    BY <1>5 DEF ReadNotes
  <2>2. load # NotLoading /\ load \in RecapLoad
    BY <2>1, <1>l, <1>z
  <2>3. PICK words \in Text : words = notes[week]
    BY <1>t
  <2>4. PICK next \in RecapLoad : next = [load EXCEPT !.at = "recheck", !.asked = 0, !.note = words]
    BY <2>2, <1>e DEF RecapLoad
  <2>5. load' = next /\ next.note = notes[week] /\ next.of = load.of /\ next.asked = 0
    BY <2>1, <2>2, <2>3, <2>4 DEF RecapLoad
  <2>6. heldRead' \subseteq Query /\ Still(next.of, scope) \cup 1 .. next.asked \subseteq heldRead'
    BY <2>1, <2>5 DEF Still
  <2> QED
    BY <2>1, <2>2, <2>5, <2>6, <1>m
<1>6. CASE RecheckLoad
  <2>1. load.at = "recheck" /\ load.asked < Queries
        /\ UNCHANGED <<scope, scopes, notes, week, asking, noteSaves, edits, apart, heldSave, committed>>
    BY <1>6 DEF RecheckLoad, Rechecking
  <2>2. load # NotLoading /\ load \in RecapLoad
    BY <2>1, <1>l, <1>z
  <2>3. CASE LoadEnds(Hidden("error"))
    BY <2>1, <2>2, <2>3, <1>o
  <2>4. CASE /\ Recheck(load.of, load.asked + 1)
             /\ load' = [load EXCEPT !.asked = load.asked + 1] /\ UNCHANGED <<recap, heldRead>>
    <3>1. load.asked + 1 \in 0 .. Queries
      BY <2>1, <2>2, <1>n DEF RecapLoad
    <3>2. PICK next \in RecapLoad : next = [load EXCEPT !.asked = load.asked + 1]
      BY <2>2, <3>1 DEF RecapLoad
    <3>3. load' = next /\ next.note = load.note /\ next.of = load.of /\ next.asked = load.asked + 1
      BY <2>2, <2>4, <3>2 DEF RecapLoad
    <3>4. Still(load.of, scope) \cup 1 .. (load.asked + 1) \subseteq heldRead
      BY <2>1, <2>2, <2>4, <1>c, <1>t, NextAsked DEF StillHeldOK
    <3>5. week \notin apart => next.note = notes[week]
      BY <2>1, <3>3, <1>c DEF RecapPageOK
    <3>6. Still(next.of, scope) \cup 1 .. next.asked \subseteq heldRead' /\ heldRead' \subseteq Query
      BY <2>4, <3>3, <3>4, <1>t
    <3> QED
      BY <2>1, <2>2, <2>4, <3>3, <3>5, <3>6, <1>m
  <2> QED
    BY <1>6, <2>3, <2>4 DEF RecheckLoad
<1>7. CASE RecapAnswered
  <2>1. load.at = "recheck" /\ load.asked = Queries
        /\ LoadEnds([is |-> "shown", text |-> load.note, saved |-> load.note, busy |-> FALSE])
        /\ committed' = committed \cup {heldRead}
        /\ UNCHANGED <<scope, scopes, notes, week, asking, noteSaves, edits, apart, heldSave>>
    BY <1>7 DEF RecapAnswered, Rechecking
  <2>2. load # NotLoading /\ load \in RecapLoad
    BY <2>1, <1>l, <1>z
  <2>3. recap.is = "loading" /\ (week \notin apart => load.note = notes[week])
    BY <2>1, <2>2, <1>c DEF RecapPageOK
  <2>4. PICK next \in ShownRecap : next = [is |-> "shown", text |-> load.note, saved |-> load.note,
                                             busy |-> FALSE]
    BY <2>2 DEF RecapLoad, ShownRecap
  <2>5. next \in RecapStates /\ next.saved = load.note
    BY <2>4 DEF RecapStates
  <2>6. recap' = next /\ load' = NotLoading /\ heldRead' = {}
    BY <2>1, <2>4 DEF LoadEnds
  <2>7. heldRead = Query
    BY <2>1, <1>c, <1>t DEF StillHeldOK, Holds, Query
  <2>8. CommitsOK'
    BY <2>1, <2>7, <1>c DEF CommitsOK
  <2>9. recap' \in RecapStates /\ (week \notin apart => recap'.saved = notes[week])
    BY <2>3, <2>5, <2>6
  <2> QED
    BY <2>1, <2>3, <2>6, <2>8, <2>9, <1>g, <1>z
<1>8. CASE RecapFails
  BY <1>8, <1>o DEF RecapFails
<1>9. ASSUME NEW w \in RecapWeek, Leave(w) PROVE RecapInv'
  <2>1. /\ edits < MaxEdits /\ edits' = edits + 1 /\ week' = w /\ LoadEnds(Hidden("loading"))
        /\ asking' = {[s EXCEPT !.shown = FALSE] : s \in asking}
        /\ noteSaves' = [i \in DOMAIN noteSaves |-> [noteSaves[i] EXCEPT !.shown = FALSE]]
        /\ apart' = apart \cup {s.week : s \in asking} \cup {noteSaves[i].week : i \in DOMAIN noteSaves}
        /\ UNCHANGED <<scope, scopes, notes, heldSave, committed>>
    BY <1>9 DEF Leave, Edit
  <2>l. recap' = Hidden("loading") /\ load' = NotLoading /\ heldRead' = {}
    BY <2>1 DEF LoadEnds
  <2>s. ASSUME NEW s \in NoteSave
        PROVE  /\ [s EXCEPT !.shown = FALSE] \in NoteSave /\ [s EXCEPT !.shown = FALSE].shown = FALSE
               /\ [s EXCEPT !.shown = FALSE].week = s.week /\ [s EXCEPT !.shown = FALSE].at = s.at
               /\ [s EXCEPT !.shown = FALSE].of = s.of /\ [s EXCEPT !.shown = FALSE].asked = s.asked
               /\ s.week \in RecapWeek
    BY DEF NoteSave
  <2>3. DOMAIN noteSaves = 1 .. Len(noteSaves) /\ Len(noteSaves) \in Nat
        /\ \A i \in DOMAIN noteSaves : noteSaves[i] \in NoteSave
    BY <1>t
  <2>4. noteSaves' \in [1 .. Len(noteSaves) -> NoteSave]
    BY <2>1, <2>s, <2>3
  <2>5. noteSaves' \in Seq(NoteSave) /\ asking' \subseteq NoteSave
    <3>1. noteSaves' \in Seq(NoteSave)
      BY <2>3, <2>4
    <3>2. asking' \subseteq NoteSave
      BY <2>1, <2>s, <1>t
    <3> QED
      BY <3>1, <3>2
  <2>6. recap' \in RecapStates /\ recap'.is = "loading"
    BY <2>l, <1>h
  <2>7. apart' \subseteq RecapWeek /\ edits' \in 0 .. MaxEdits /\ CommitsOK'
    <3>1. apart' \subseteq RecapWeek
      BY <2>1, <2>s, <2>3, <1>t
    <3> QED
      BY <3>1, <2>1, <1>t, <1>n, <1>c DEF CommitsOK
  <2>8. RecapTypeOK'
    BY <2>1, <2>l, <2>5, <2>6, <2>7, <1>t, <1>k
  <2>9. \A i \in DOMAIN noteSaves' :
          /\ i \in DOMAIN noteSaves /\ ~noteSaves'[i].shown /\ noteSaves'[i].week \in apart'
          /\ noteSaves'[i].at = noteSaves[i].at /\ noteSaves'[i].of = noteSaves[i].of
          /\ noteSaves'[i].asked = noteSaves[i].asked
    <3> TAKE i \in DOMAIN noteSaves'
    <3>1. i \in DOMAIN noteSaves
      BY <2>1
    <3>2. noteSaves'[i] = [noteSaves[i] EXCEPT !.shown = FALSE]
      BY <2>1, <3>1
    <3>3. PICK s \in NoteSave : s = noteSaves[i]
      BY <2>3, <3>1
    <3>4. PICK r : r = [s EXCEPT !.shown = FALSE]
      OBVIOUS
    <3>5. r.shown = FALSE /\ r.week = s.week /\ r.at = s.at /\ r.of = s.of /\ r.asked = s.asked
      BY <2>s, <3>4
    <3>6. s.week \in apart'
      BY <2>1, <3>1, <3>3
    <3> QED
      BY <3>1, <3>2, <3>3, <3>4, <3>5, <3>6
  <2>10. \A s \in asking' : ~s.shown /\ s.week \in apart'
    <3> TAKE r \in asking'
    <3>1. PICK s \in asking : r = [s EXCEPT !.shown = FALSE]
      BY <2>1
    <3>2. r.shown = FALSE /\ r.week = s.week
      BY <2>s, <3>1, <1>t
    <3>3. s.week \in apart'
      BY <2>1
    <3> QED
      BY <3>2, <3>3
  <2>11. NoteSavesOK'
    BY <2>9, <2>10, <1>c DEF NoteSavesOK, SaveOK, SaveIs
  <2>12. RecapPageOK'
    BY <2>l, <2>6, <1>z DEF RecapPageOK
  <2>13. StillHeldOK'
    <3>1. noteSaves' # <<>> => 1 \in DOMAIN noteSaves' /\ noteSaves # <<>>
      BY <2>4, <2>5, <2>9
    <3>2. ASSUME noteSaves' # <<>>, noteSaves'[1].at = "written"
          PROVE  Still(noteSaves'[1].of, scope') \cup 1 .. noteSaves'[1].asked \subseteq heldSave'
      <4>1. noteSaves[1].at = "written" /\ noteSaves # <<>>
        BY <2>9, <3>1, <3>2
      <4>2. Still(noteSaves[1].of, scope) \cup 1 .. noteSaves[1].asked \subseteq heldSave
        BY <4>1, <1>c DEF StillHeldOK, Holds
      <4> QED
        BY <2>1, <2>9, <3>1, <3>2, <4>2
    <3> QED
      BY <2>l, <3>2, <1>z DEF StillHeldOK, Holds
  <2> QED
    BY <2>7, <2>8, <2>11, <2>12, <2>13 DEF RecapInv
<1>10. ASSUME NEW t \in Words, WriteNote(t) PROVE RecapInv'
  <2>1. edits < MaxEdits /\ edits' = edits + 1 /\ recap.is = "shown" /\ recap' = [recap EXCEPT !.text = t]
        /\ UNCHANGED <<scope, scopes, notes, week, load, asking, noteSaves, apart, heldRead, heldSave,
                       committed>>
    BY <1>10 DEF WriteNote, Edit
  <2>2. recap \in ShownRecap /\ t \in Text
    BY <2>1, <1>s DEF Text
  <2>3. PICK next \in ShownRecap : next = [recap EXCEPT !.text = t]
    BY <2>2 DEF ShownRecap
  <2>4. recap' = next /\ next \in RecapStates /\ next.is = "shown" /\ next.saved = recap.saved /\ next.busy = recap.busy
    BY <2>1, <2>2, <2>3 DEF ShownRecap, RecapStates
  <2>5. edits' \in 0 .. MaxEdits /\ CommitsOK'
    BY <2>1, <1>t, <1>n, <1>c DEF CommitsOK
  <2>6. RecapTypeOK'
    BY <2>1, <2>4, <2>5, <1>t, <1>k
  <2>7. NoteSavesOK'
    BY <2>1, <2>4, <1>c DEF NoteSavesOK, SaveOK, SaveIs
  <2>8. RecapPageOK' /\ StillHeldOK'
    BY <2>1, <2>4, <1>c DEF RecapPageOK, StillHeldOK, Holds
  <2> QED
    BY <2>5, <2>6, <2>7, <2>8 DEF RecapInv
<1>11. CASE SaveReflection
  <2>1. /\ recap.is = "shown" /\ ~recap.busy /\ recap' = [recap EXCEPT !.busy = TRUE]
        /\ asking' = asking \cup {[at |-> "viewer", asked |-> 0, of |-> Unasked, week |-> week,
                                   text |-> recap.text, shown |-> TRUE]}
        /\ UNCHANGED <<scope, scopes, notes, week, load, noteSaves, edits, apart, heldRead, heldSave,
                       committed>>
    BY <1>11 DEF SaveReflection
  <2>2. recap \in ShownRecap /\ load = NotLoading
    BY <2>1, <1>s, <1>c DEF RecapPageOK
  <2>3. /\ \A i \in DOMAIN noteSaves : ~noteSaves[i].shown /\ noteSaves[i].week \in apart
        /\ \A r \in asking : ~r.shown /\ r.week \in apart
    BY <2>1, <1>c DEF NoteSavesOK, SaveOK, SaveIs
  <2>4. PICK s \in NoteSave : s = [at |-> "viewer", asked |-> 0, of |-> Unasked, week |-> week,
                                   text |-> recap.text, shown |-> TRUE]
    <3>1. recap.text \in Text
      BY <2>2 DEF ShownRecap
    <3> QED
      BY <3>1, <1>t, <1>e DEF NoteSave
  <2>5. s.week = week /\ s.shown /\ asking' = asking \cup {s}
    BY <2>1, <2>4
  <2>6. PICK next \in ShownRecap : next = [recap EXCEPT !.busy = TRUE]
    BY <2>2 DEF ShownRecap
  <2>7. recap' = next /\ next \in RecapStates /\ next.is = "shown" /\ next.saved = recap.saved /\ next.busy
    BY <2>1, <2>2, <2>6 DEF ShownRecap, RecapStates
  <2>8. asking' \subseteq NoteSave /\ CommitsOK'
    BY <2>1, <2>5, <1>t, <1>c DEF CommitsOK
  <2>9. RecapTypeOK'
    BY <2>1, <2>7, <2>8, <1>t, <1>k
  <2>10. NoteSavesOK'
    BY <2>1, <2>3, <2>5, <2>7, <1>c DEF NoteSavesOK, SaveOK, SaveIs
  <2>11. RecapPageOK' /\ StillHeldOK'
    BY <2>1, <2>2, <2>7, <1>c, <1>z DEF RecapPageOK, StillHeldOK, Holds
  <2> QED
    BY <2>8, <2>9, <2>10, <2>11 DEF RecapInv
\* The page hears the answer of a save if it waits for it.
<1>q. ASSUME NEW s, SaveOK(s), NEW page, AnswerPage(s, page)
      PROVE  \/ ~s.shown /\ recap' = recap
             \/ s.shown /\ recap' = page /\ recap \in ShownRecap /\ s.week = week
  BY <1>q, <1>s DEF AnswerPage, SaveOK, SaveIs
\* One that is still asking is over.
<1>a. ASSUME NEW s \in asking, asking' = asking \ {s},
             UNCHANGED <<scope, scopes, notes, week, load, noteSaves, edits, apart, heldRead, heldSave,
                         committed>>,
             recap' \in RecapStates,
             \/ ~s.shown /\ recap' = recap
             \/ s.shown /\ (recap'.is = "shown" /\ week \notin apart => recap'.saved = notes[week])
      PROVE  RecapInv'
  <2>1. CommitsOK'
    BY <1>a, <1>c DEF CommitsOK
  <2>2. RecapTypeOK'
    BY <1>a, <2>1, <1>t, <1>k
  <2>3. CASE ~s.shown
    <3>1. NoteSavesOK' /\ RecapPageOK' /\ StillHeldOK'
      BY <1>a, <2>3, <1>c DEF NoteSavesOK, SaveOK, SaveIs, RecapPageOK, StillHeldOK, Holds
    <3> QED
      BY <2>1, <2>2, <3>1 DEF RecapInv
  <2>4. CASE s.shown
    <3>1. \A r \in asking' : ~r.shown /\ r.week \in apart
      BY <1>a, <2>4, <1>c DEF NoteSavesOK, SaveOK, SaveIs
    <3>2. \A i \in DOMAIN noteSaves : ~noteSaves[i].shown /\ noteSaves[i].week \in apart
      BY <1>a, <2>4, <1>c DEF NoteSavesOK, SaveOK, SaveIs
    <3>3. NoteSavesOK'
      BY <1>a, <3>1, <3>2, <1>c DEF NoteSavesOK, SaveOK, SaveIs
    <3>4. load = NotLoading
      BY <2>4, <1>c DEF NoteSavesOK, SaveOK, SaveIs, RecapPageOK
    <3>5. RecapPageOK'
      BY <1>a, <2>4, <3>4, <1>z DEF RecapPageOK
    <3>6. StillHeldOK'
      BY <1>a, <1>c DEF StillHeldOK, Holds
    <3> QED
      BY <2>1, <2>2, <3>3, <3>5, <3>6 DEF RecapInv
  <2> QED
    BY <2>3, <2>4
<1>12. ASSUME NEW s \in asking, AskViewer(s) PROVE RecapInv'
  <2>1. s.asked < Queries
        /\ UNCHANGED <<scope, scopes, notes, week, load, noteSaves, edits, apart, heldRead, heldSave,
                       committed>>
    BY <1>12 DEF AskViewer
  <2>2. CASE asking' = asking \ {s} /\ AnswerPage(s, Hidden("error"))
    <3>1. \/ ~s.shown /\ recap' = recap
          \/ s.shown /\ recap' = Hidden("error")
      BY <2>2, <1>q, <1>c DEF NoteSavesOK
    <3>2. recap' \in RecapStates /\ (s.shown => recap'.is = "error")
      BY <3>1, <1>h, <1>t
    <3> QED
      BY <2>1, <2>2, <3>1, <3>2, <1>a
  <2>3. CASE asking' = (asking \ {s}) \cup {Asked(s)} /\ UNCHANGED recap
    <3>1. PICK r : r = Asked(s)
      OBVIOUS
    <3>2. r \in NoteSave /\ r.shown = s.shown /\ r.week = s.week
      BY <2>1, <3>1, <1>t, OneMoreAsked
    <3>3. asking' = (asking \ {s}) \cup {r}
      BY <2>3, <3>1
    <3>4. asking' \subseteq NoteSave /\ CommitsOK'
      BY <2>1, <3>2, <3>3, <1>t, <1>c DEF CommitsOK
    <3>5. RecapTypeOK'
      BY <2>1, <2>3, <3>4, <1>t, <1>k
    <3>6. NoteSavesOK'
      BY <2>1, <2>3, <3>2, <3>3, <1>c DEF NoteSavesOK, SaveOK, SaveIs
    <3>7. RecapPageOK' /\ StillHeldOK'
      BY <2>1, <2>3, <1>c DEF RecapPageOK, StillHeldOK, Holds
    <3> QED
      BY <3>4, <3>5, <3>6, <3>7 DEF RecapInv
  <2> QED
    BY <1>12, <2>2, <2>3 DEF AskViewer
<1>13. ASSUME NEW s \in asking, AskFails(s) PROVE RecapInv'
  <2>1. asking' = asking \ {s} /\ AnswerPage(s, [recap EXCEPT !.busy = FALSE])
        /\ UNCHANGED <<scope, scopes, notes, week, load, noteSaves, edits, apart, heldRead, heldSave,
                       committed>>
    BY <1>13 DEF AskFails
  <2>2. \/ ~s.shown /\ recap' = recap
        \/ s.shown /\ recap' = [recap EXCEPT !.busy = FALSE] /\ recap \in ShownRecap
    BY <2>1, <1>q, <1>c DEF NoteSavesOK
  <2>3. recap' \in RecapStates /\ (s.shown => recap'.saved = recap.saved /\ recap.is = "shown")
    BY <2>2, <1>t DEF RecapStates, ShownRecap
  <2>4. s.shown /\ week \notin apart => recap'.saved = notes[week]
    BY <2>3, <1>c DEF RecapPageOK
  <2> QED
    BY <2>1, <2>2, <2>3, <2>4, <1>a
<1>14. ASSUME NEW s \in asking, Enqueue(s) PROVE RecapInv'
  <2>1. /\ asking' = asking \ {s}
        /\ noteSaves' = Append(noteSaves, [s EXCEPT !.at = "queued", !.asked = 0])
        /\ UNCHANGED <<scope, scopes, notes, week, recap, load, edits, apart, heldRead, heldSave,
                       committed>>
    BY <1>14 DEF Enqueue
  <2>2. PICK r \in NoteSave : r = [s EXCEPT !.at = "queued", !.asked = 0]
    BY <1>t, <1>e DEF NoteSave
  <2>3. r.week = s.week /\ r.shown = s.shown /\ r.at = "queued"
    BY <2>2, <1>t DEF NoteSave
  <2>4. noteSaves' = Append(noteSaves, r)
    BY <2>1, <2>2
  <2>5. noteSaves' \in Seq(NoteSave) /\ DOMAIN noteSaves' = DOMAIN noteSaves \cup {Len(noteSaves) + 1}
        /\ noteSaves'[Len(noteSaves) + 1] = r
        /\ (\A i \in DOMAIN noteSaves : noteSaves'[i] = noteSaves[i])
        /\ (noteSaves # <<>> => 1 \in DOMAIN noteSaves) /\ (noteSaves = <<>> => noteSaves'[1] = r)
    BY <2>4, <1>t
  <2>6. CommitsOK' /\ asking' \subseteq NoteSave
    BY <2>1, <1>t, <1>c DEF CommitsOK
  <2>7. RecapTypeOK'
    BY <2>1, <2>5, <2>6, <1>t, <1>k
  <2>8. NoteSavesOK'
    <3>1. SaveOK(r)
      BY <2>3, <1>c DEF NoteSavesOK, SaveOK, SaveIs
    <3>4. \A i \in DOMAIN noteSaves' : i \in DOMAIN noteSaves \/ (i = Len(noteSaves) + 1 /\ noteSaves'[i] = r)
      BY <2>5
    <3>5. \A i \in DOMAIN noteSaves : ~(r.shown /\ noteSaves[i].shown)
      BY <2>3, <1>c DEF NoteSavesOK
    <3>6. \A q \in asking' : ~(r.shown /\ q.shown)
      BY <2>1, <2>3, <1>c DEF NoteSavesOK
    <3>7. \A i \in DOMAIN noteSaves' : SaveIs(noteSaves'[i], week', recap', apart')
      <4> TAKE i \in DOMAIN noteSaves'
      <4>1. CASE i \in DOMAIN noteSaves
        BY <4>1, <2>1, <2>5, <1>c DEF NoteSavesOK, SaveOK, SaveIs
      <4>2. CASE noteSaves'[i] = r
        BY <4>2, <2>1, <3>1 DEF SaveOK, SaveIs
      <4> QED
        BY <3>4, <4>1, <4>2
    <3>8. \A q \in asking' : SaveOK(q)'
      BY <2>1, <1>c DEF NoteSavesOK, SaveOK, SaveIs
    <3>9. \A q, p \in asking' : q.shown /\ p.shown => q = p
      BY <2>1, <1>c DEF NoteSavesOK
    <3>10. \A i, j \in DOMAIN noteSaves' : noteSaves'[i].shown /\ noteSaves'[j].shown => i = j
      <4> TAKE i, j \in DOMAIN noteSaves'
      <4> HAVE noteSaves'[i].shown /\ noteSaves'[j].shown
      <4>1. CASE i \in DOMAIN noteSaves /\ j \in DOMAIN noteSaves
        BY <4>1, <2>5, <1>c DEF NoteSavesOK
      <4>2. CASE i \notin DOMAIN noteSaves \/ j \notin DOMAIN noteSaves
        BY <4>2, <2>5, <3>4, <3>5
      <4> QED
        BY <4>1, <4>2
    <3>11. \A q \in asking', i \in DOMAIN noteSaves' : ~(q.shown /\ noteSaves'[i].shown)
      BY <2>1, <2>5, <3>4, <3>6, <1>c DEF NoteSavesOK
    <3>12. \A i \in DOMAIN noteSaves' : noteSaves'[i].at = "written" => i = 1
      BY <2>3, <2>5, <3>4, <1>c DEF NoteSavesOK
    <3> QED
      BY <3>7, <3>8, <3>9, <3>10, <3>11, <3>12 DEF NoteSavesOK, SaveOK
  <2>9. RecapPageOK'
    BY <2>1, <1>c DEF RecapPageOK
  <2>10. StillHeldOK'
    <3>1. noteSaves'[1].at = "written" => noteSaves # <<>> /\ noteSaves'[1] = noteSaves[1]
      BY <2>3, <2>5
    <3> QED
      BY <2>1, <3>1, <1>c DEF StillHeldOK, Holds
  <2> QED
    BY <2>6, <2>7, <2>8, <2>9, <2>10 DEF RecapInv
\* The first save in the line moves on.
<1>b. ASSUME NEW s \in NoteSave, noteSaves # <<>>, noteSaves' = [noteSaves EXCEPT ![1] = s],
             s.shown = noteSaves[1].shown, s.week = noteSaves[1].week,
             heldSave' \subseteq Query,
             s.at = "written" => Still(s.of, scope) \cup 1 .. s.asked \subseteq heldSave',
             UNCHANGED <<scope, scopes, notes, week, recap, load, asking, edits, apart, heldRead,
                         committed>>
      PROVE  RecapInv'
  <2>1. noteSaves' \in Seq(NoteSave) /\ DOMAIN noteSaves' = DOMAIN noteSaves /\ 1 \in DOMAIN noteSaves
        /\ \A i \in DOMAIN noteSaves : noteSaves'[i] = IF i = 1 THEN s ELSE noteSaves[i]
    <3>1. noteSaves \in [1 .. Len(noteSaves) -> NoteSave] /\ Len(noteSaves) \in Nat
      BY <1>t
    <3>2. noteSaves' \in [1 .. Len(noteSaves) -> NoteSave] /\ DOMAIN noteSaves' = DOMAIN noteSaves
          /\ \A i \in DOMAIN noteSaves : noteSaves'[i] = IF i = 1 THEN s ELSE noteSaves[i]
      BY <1>b, <3>1
    <3> QED
      BY <3>1, <3>2, <1>b, <1>f
  <2>2. /\ \A i \in DOMAIN noteSaves : noteSaves'[i].shown = noteSaves[i].shown /\ noteSaves'[i].week = noteSaves[i].week
        /\ \A i \in DOMAIN noteSaves : noteSaves'[i].at = "written" => i = 1
    BY <1>b, <2>1, <1>c DEF NoteSavesOK
  <2>3. CommitsOK'
    BY <1>b, <1>c DEF CommitsOK
  <2>4. RecapTypeOK'
    BY <1>b, <2>1, <2>3, <1>t, <1>k
  <2>5. NoteSavesOK'
    <3>1. \A i \in DOMAIN noteSaves' : SaveIs(noteSaves'[i], week', recap', apart')
      BY <1>b, <2>1, <2>2, <1>c DEF NoteSavesOK, SaveOK, SaveIs
    <3>2. \A r \in asking' : SaveOK(r)'
      BY <1>b, <1>c DEF NoteSavesOK, SaveOK, SaveIs
    <3> QED
      BY <1>b, <2>1, <2>2, <3>1, <3>2, <1>c DEF NoteSavesOK, SaveOK
  <2>6. RecapPageOK'
    BY <1>b, <1>c DEF RecapPageOK
  <2>7. StillHeldOK'
    BY <1>b, <2>1, <1>c DEF StillHeldOK, Holds
  <2> QED
    BY <2>3, <2>4, <2>5, <2>6, <2>7 DEF RecapInv
\* It is over, and the page hears if it waits for it.
<1>p. ASSUME noteSaves # <<>>, noteSaves' = Tail(noteSaves), heldSave' = {},
             UNCHANGED <<scope, scopes, week, load, asking, edits, heldRead>>,
             notes' \in [RecapWeek -> Text], apart' \subseteq RecapWeek, apart \subseteq apart',
             CommitsOK', recap' \in RecapStates,
             week \notin apart' => notes'[week] = notes[week] \/ Head(noteSaves).shown,
             \/ ~Head(noteSaves).shown /\ recap' = recap
             \/ /\ Head(noteSaves).shown
                /\ recap'.is = "shown" /\ week \notin apart' => recap'.saved = notes'[week]
      PROVE  RecapInv'
  <2>1. /\ noteSaves' \in Seq(NoteSave) /\ 1 \in DOMAIN noteSaves /\ Head(noteSaves) = noteSaves[1]
        /\ \A i \in DOMAIN noteSaves' : i + 1 \in DOMAIN noteSaves /\ noteSaves'[i] = noteSaves[i + 1] /\ i + 1 # 1
                                          /\ i \in Nat
        /\ noteSaves' # <<>> => 1 \in DOMAIN noteSaves'
    BY <1>p, <1>t
  <2>2. RecapTypeOK'
    BY <1>p, <2>1, <1>t, <1>k
  <2>3. \A i, j \in DOMAIN noteSaves' : noteSaves'[i].shown /\ noteSaves'[j].shown => i = j
    <3> TAKE i, j \in DOMAIN noteSaves'
    <3> HAVE noteSaves'[i].shown /\ noteSaves'[j].shown
    <3>1. i + 1 = j + 1
      BY <2>1, <1>c DEF NoteSavesOK
    <3> QED
      BY <2>1, <3>1
  <2>4. ASSUME NEW i \in DOMAIN noteSaves' PROVE SaveIs(noteSaves'[i], week', recap', apart')
    <3>1. CASE ~noteSaves'[i].shown
      BY <1>p, <2>1, <3>1, <1>c DEF NoteSavesOK, SaveOK, SaveIs
    <3>2. CASE noteSaves'[i].shown
      <4>1. ~noteSaves[1].shown
        BY <2>1, <3>2, <1>c DEF NoteSavesOK
      <4>2. recap' = recap
        BY <1>p, <2>1, <4>1
      <4> QED
        BY <1>p, <2>1, <3>2, <4>2, <1>c DEF NoteSavesOK, SaveOK, SaveIs
    <3> QED
      BY <3>1, <3>2
  <2>5. ASSUME NEW s \in asking' PROVE SaveOK(s)'
    <3>1. CASE ~s.shown
      BY <1>p, <3>1, <1>c DEF NoteSavesOK, SaveOK, SaveIs
    <3>2. CASE s.shown
      <4>1. ~noteSaves[1].shown
        BY <1>p, <2>1, <3>2, <1>c DEF NoteSavesOK
      <4>2. recap' = recap
        BY <1>p, <2>1, <4>1
      <4> QED
        BY <1>p, <3>2, <4>2, <1>c DEF NoteSavesOK, SaveOK, SaveIs
    <3> QED
      BY <3>1, <3>2
  <2>6. \A i \in DOMAIN noteSaves' : noteSaves'[i].at # "written"
    BY <2>1, <1>c DEF NoteSavesOK
  <2>7. NoteSavesOK'
    BY <1>p, <2>1, <2>3, <2>4, <2>5, <2>6, <1>c DEF NoteSavesOK, SaveOK
  <2>8. Head(noteSaves).shown => recap.is = "shown" /\ load = NotLoading
    BY <2>1, <1>c DEF NoteSavesOK, SaveOK, SaveIs, RecapPageOK
  <2>9. RecapPageOK'
    <3>1. CASE Head(noteSaves).shown
      BY <1>p, <2>8, <3>1, <1>z DEF RecapPageOK
    <3>2. CASE ~Head(noteSaves).shown
      BY <1>p, <3>2, <1>c DEF RecapPageOK
    <3> QED
      BY <3>1, <3>2
  <2>10. StillHeldOK'
    BY <1>p, <2>1, <2>6, <1>c DEF StillHeldOK, Holds
  <2> QED
    BY <1>p, <2>2, <2>7, <2>9, <2>10 DEF RecapInv
<1>r. ASSUME noteSaves # <<>>, Refuse PROVE RecapInv'
  <2>1. noteSaves' = Tail(noteSaves) /\ heldSave' = {} /\ AnswerPage(Head(noteSaves), Hidden("error"))
        /\ UNCHANGED <<scope, scopes, notes, week, load, asking, edits, apart, heldRead, committed>>
    BY <1>r DEF Refuse
  <2>2. \/ ~Head(noteSaves).shown /\ recap' = recap
        \/ Head(noteSaves).shown /\ recap' = Hidden("error")
    BY <1>r, <2>1, <1>q, <1>f, <1>c DEF NoteSavesOK
  <2>3. recap' \in RecapStates /\ (Head(noteSaves).shown => recap'.is = "error")
    BY <2>2, <1>h, <1>t
  <2>4. CommitsOK'
    BY <2>1, <1>c DEF CommitsOK
  <2> QED
    BY <1>r, <2>1, <2>2, <2>3, <2>4, <1>p, <1>t
<1>15. CASE RecheckSave
  <2>1. noteSaves # <<>> /\ noteSaves[1].asked < Queries /\ Head(noteSaves) = noteSaves[1]
        /\ noteSaves[1] \in NoteSave
    BY <1>15, <1>f DEF RecheckSave
  <2>2. CASE Refuse
    BY <2>1, <2>2, <1>r
  <2>3. CASE /\ Recheck(noteSaves[1].of, noteSaves[1].asked + 1)
             /\ noteSaves' = [noteSaves EXCEPT ![1].asked = noteSaves[1].asked + 1]
             /\ UNCHANGED <<scope, scopes, notes, week, recap, load, asking, edits, apart, heldRead,
                            heldSave, committed>>
    <3>1. noteSaves[1].asked + 1 \in 0 .. Queries
      BY <2>1, <1>n DEF NoteSave
    <3>2. PICK s \in NoteSave : s = [noteSaves[1] EXCEPT !.asked = noteSaves[1].asked + 1]
      BY <2>1, <3>1 DEF NoteSave
    <3>3. s.shown = noteSaves[1].shown /\ s.week = noteSaves[1].week /\ s.at = noteSaves[1].at
          /\ s.of = noteSaves[1].of /\ s.asked = noteSaves[1].asked + 1
      BY <2>1, <3>2 DEF NoteSave
    <3>4. noteSaves' = [noteSaves EXCEPT ![1] = s]
      BY <2>3, <3>2, <1>f, <2>1
    <3>5. s.at = "written" => Still(s.of, scope) \cup 1 .. s.asked \subseteq heldSave'
      <4>1. HAVE s.at = "written"
      <4>2. Holds(noteSaves[1], heldSave)
        BY <2>1, <3>3, <4>1, <1>c DEF StillHeldOK
      <4>3. Still(noteSaves[1].of, scope) \cup 1 .. (noteSaves[1].asked + 1) \subseteq heldSave
        BY <2>1, <2>3, <4>2, <1>t, NextAsked
      <4> QED
        BY <2>3, <3>3, <4>3
    <3> QED
      BY <2>1, <2>3, <3>3, <3>4, <3>5, <1>b, <1>t
  <2> QED
    BY <1>15, <2>1, <2>2, <2>3 DEF RecheckSave
<1>16. CASE SaveWrites
  <2>1. /\ noteSaves # <<>> /\ noteSaves' = [noteSaves EXCEPT ![1].at = "written", ![1].asked = 0]
        /\ heldSave' = Still(noteSaves[1].of, scope) /\ noteSaves[1] \in NoteSave
        /\ UNCHANGED <<scope, scopes, notes, week, recap, load, asking, edits, apart, heldRead, committed>>
    BY <1>16, <1>f DEF SaveWrites
  <2>2. PICK s \in NoteSave : s = [noteSaves[1] EXCEPT !.at = "written", !.asked = 0]
    BY <2>1, <1>e DEF NoteSave
  <2>3. s.shown = noteSaves[1].shown /\ s.week = noteSaves[1].week /\ s.of = noteSaves[1].of /\ s.asked = 0
    BY <2>1, <2>2 DEF NoteSave
  <2>4. noteSaves' = [noteSaves EXCEPT ![1] = s]
    BY <2>1, <2>2, <1>t, <1>f
  <2>5. heldSave' \subseteq Query /\ Still(s.of, scope) \cup 1 .. s.asked \subseteq heldSave'
    BY <2>1, <2>3 DEF Still
  <2> QED
    BY <2>1, <2>3, <2>4, <2>5, <1>b
<1>17. CASE SaveFails
  <2>1. noteSaves # <<>> /\ noteSaves' = Tail(noteSaves) /\ heldSave' = {}
        /\ AnswerPage(Head(noteSaves), [recap EXCEPT !.busy = FALSE])
        /\ UNCHANGED <<scope, scopes, notes, week, load, asking, edits, apart, heldRead, committed>>
    BY <1>17 DEF SaveFails
  <2>2. \/ ~Head(noteSaves).shown /\ recap' = recap
        \/ Head(noteSaves).shown /\ recap' = [recap EXCEPT !.busy = FALSE] /\ recap \in ShownRecap
    BY <2>1, <1>q, <1>f, <1>c DEF NoteSavesOK
  <2>3. recap' \in RecapStates /\ (Head(noteSaves).shown => recap'.saved = recap.saved /\ recap.is = "shown")
    BY <2>2, <1>t DEF RecapStates, ShownRecap
  <2>4. Head(noteSaves).shown /\ week \notin apart => recap'.saved = notes[week]
    BY <2>3, <1>c DEF RecapPageOK
  <2>5. CommitsOK'
    BY <2>1, <1>c DEF CommitsOK
  <2> QED
    BY <2>1, <2>2, <2>3, <2>4, <2>5, <1>p, <1>t
<1>18. ASSUME NEW known \in BOOLEAN, SaveCommits(known) PROVE RecapInv'
  <2>0. noteSaves # <<>> /\ Head(noteSaves) = noteSaves[1] /\ noteSaves[1] \in NoteSave
    BY <1>18, <1>f DEF SaveCommits, Writing
  <2>2. /\ noteSaves[1].at = "written" /\ noteSaves[1].asked = Queries
        /\ notes' = [notes EXCEPT ![noteSaves[1].week] = noteSaves[1].text]
        /\ noteSaves' = Tail(noteSaves) /\ heldSave' = {}
        /\ committed' = committed \cup {heldSave}
        /\ AnswerPage(noteSaves[1], IF known THEN [recap EXCEPT !.busy = FALSE, !.saved = noteSaves[1].text]
                                    ELSE [recap EXCEPT !.busy = FALSE])
        /\ apart' = (IF known THEN apart ELSE apart \cup {noteSaves[1].week})
        /\ UNCHANGED <<scope, scopes, week, load, asking, edits, heldRead>>
    BY <1>18, <2>0, Zenon DEF SaveCommits, Writing
  <2>c. CommitsOK'
    <3>1. heldSave = Query
      BY <2>0, <2>2, <1>c, <1>t DEF StillHeldOK, Holds, Query
    <3> QED
      BY <2>2, <3>1, <1>c DEF CommitsOK
  <2>3. PICK s \in NoteSave : s = noteSaves[1]
    BY <2>0
  <2>4. s.week \in RecapWeek /\ s.text \in Text
    BY DEF NoteSave
  <2>5. notes' \in [RecapWeek -> Text] /\ notes'[s.week] = s.text
        /\ \A w \in RecapWeek : w # s.week => notes'[w] = notes[w]
    BY <2>2, <2>3, <2>4, <1>t
  <2>6. apart' \subseteq RecapWeek /\ apart \subseteq apart' /\ (~known => s.week \in apart')
    BY <2>2, <2>3, <2>4, <1>t
  <2>7. SaveOK(s)
    BY <2>0, <2>3, <1>f, <1>c DEF NoteSavesOK
  <2>8. \/ ~s.shown /\ recap' = recap
        \/ /\ s.shown /\ s.week = week /\ recap \in ShownRecap
           /\ recap' = (IF known THEN [recap EXCEPT !.busy = FALSE, !.saved = s.text] ELSE [recap EXCEPT !.busy = FALSE])
    BY <2>2, <2>3, <2>7, <1>q
  <2>9. CASE s.shown
    <3>1. CASE known
      <4>1. PICK next \in ShownRecap : next = [recap EXCEPT !.busy = FALSE, !.saved = s.text]
        BY <2>4, <2>8, <2>9 DEF ShownRecap
      <4>2. next.saved = s.text /\ recap' = next /\ next \in RecapStates
        BY <2>8, <2>9, <3>1, <4>1 DEF ShownRecap, RecapStates
      <4>3. recap'.saved = notes'[week] /\ recap' \in RecapStates
        BY <2>5, <2>8, <2>9, <4>2
      <4> QED
        BY <2>0, <2>2, <2>c, <2>3, <2>5, <2>6, <2>9, <4>3, <1>p
    <3>2. CASE ~known
      <4>1. week \in apart'
        BY <2>6, <2>8, <2>9, <3>2
      <4>2. recap' \in RecapStates
        BY <2>8, <2>9, <3>2 DEF ShownRecap, RecapStates
      <4> QED
        BY <2>0, <2>2, <2>c, <2>3, <2>5, <2>6, <2>9, <4>1, <4>2, <1>p
    <3> QED
      BY <3>1, <3>2
  <2>10. CASE ~s.shown
    <3>1. week \notin apart' => notes'[week] = notes[week]
      BY <2>5, <2>6, <2>7, <2>10, <1>t DEF SaveOK, SaveIs
    <3> QED
      BY <2>0, <2>2, <2>c, <2>3, <2>5, <2>6, <2>8, <2>10, <3>1, <1>p, <1>t
  <2> QED
    BY <2>9, <2>10
<1>19. CASE UNCHANGED recapVars
  <2>1. UNCHANGED <<scope, scopes, notes, week, recap, load, asking>>
        /\ UNCHANGED <<noteSaves, edits, apart, heldRead, heldSave, committed>>
    BY <1>19 DEF recapVars
  <2>2. CommitsOK'
    BY <2>1, <1>c DEF CommitsOK
  <2>3. RecapTypeOK'
    BY <2>1, <2>2, <1>t, <1>k
  <2> QED
    BY <2>1, <2>2, <2>3, <1>c DEF RecapInv, NoteSavesOK, SaveOK, SaveIs, RecapPageOK, StillHeldOK, Holds
<1>20. (\E w \in RecapWeek : Leave(w)) => RecapInv'
  BY <1>9
<1>21. (\E t \in Words : WriteNote(t)) => RecapInv'
  BY <1>10
<1>22. (\E known \in BOOLEAN : SaveCommits(known)) => RecapInv'
  BY <1>18
<1>23. (\E s \in asking : AskViewer(s) \/ AskFails(s) \/ Enqueue(s)) => RecapInv'
  BY <1>12, <1>13, <1>14
<1> QED
  BY <1>1, <1>2, <1>3, <1>4, <1>5, <1>6, <1>7, <1>8, <1>11, <1>15, <1>16, <1>17, <1>19, <1>20, <1>21, <1>22,
     <1>23 DEF RecapNext

\* Recaps keep the invariant (recap-app.ts, RecapPage.tsx).
LEMMA RecapInvariance == RecapSpec => []RecapInv
BY RecapStart, RecapStep, PTL DEF RecapSpec

\* No note is stored and no recap shown without each part of the access it was admitted with at
\* some moment since the write or the reading, and what is exported is what is shown
\* (recap-app.ts, RecapPage.tsx).
THEOREM RecapsAreSafe == RecapSpec => [](RecapTypeOK /\ RecapsSafe)
<1>1. RecapInv => RecapTypeOK /\ RecapsSafe
  BY RecapInvSafe
<1> QED
  BY <1>1, RecapInvariance, PTL

-----------------------------------------------------------------------------
(* The weekly digests (Weekly). *)

\* The quotient of an integer, that may be negative.
LEMMA DivBoundsInt ==
  ASSUME NEW n \in Int, NEW k \in Nat \ {0}
  PROVE  n \div k \in Int /\ k * (n \div k) <= n /\ n < k * (n \div k) + k
OBVIOUS

\* The bounds of the weeks.
LEMMA DigestConstants ==
  /\ WeekTicks \in Nat \ {0} /\ FirstTick \in Nat \ {0} /\ LastTick \in Nat /\ Shift \in Nat
  /\ MaxSettings \in Nat /\ Offsets \subseteq Int /\ FirstTick >= 2 * WeekTicks /\ FirstTick <= LastTick
BY DigestAssumption

\* What a schedule is.
LEMMA ScheduleFacts ==
  ASSUME schedule \in Schedules
  PROVE  /\ schedule.slot \in Int /\ 0 <= schedule.slot /\ schedule.slot <= WeekTicks - 1
         /\ schedule.offset \in Int /\ schedule.change \in {-1, 0, 1}
<1>1. schedule.slot \in 0 .. (WeekTicks - 1) /\ schedule.offset \in Offsets /\ schedule.change \in {-1, 0, 1}
  BY DEF Schedules
<1>2. WeekTicks - 1 \in Int
  BY DigestConstants
<1>3. schedule.slot \in Int /\ 0 <= schedule.slot /\ schedule.slot <= WeekTicks - 1
  BY <1>1, <1>2
<1>4. schedule.offset \in Int
  BY <1>1, DigestConstants
<1> QED
  BY <1>1, <1>3, <1>4

\* The times of the schedule, what was due of them last, and the week it reports.
Slot(k) == WeekTicks * k + schedule.slot
WeekAt(t) == (t + OffsetAt(t)) \div WeekTicks
Due(t) == {u \in Candidates(t) : u <= t}
DueAt(t) == MaxOf(Due(t))

\* A local time has a time of the world.
LEMMA ToUTCInt ==
  ASSUME schedule \in Schedules, NEW l \in Int
  PROVE  ToUTC(l) \in Int
BY ScheduleFacts, DigestConstants DEF ToUTC

\* An offset is an integer.
LEMMA OffsetInt ==
  ASSUME schedule \in Schedules, NEW t \in Nat
  PROVE  OffsetAt(t) \in Int
BY ScheduleFacts, DigestConstants DEF OffsetAt

\* Slots are a week apart.
LEMMA SlotInt ==
  ASSUME schedule \in Schedules, NEW k \in Int
  PROVE  Slot(k) \in Int /\ Slot(k + 1) = Slot(k) + WeekTicks /\ Slot(k - 1) = Slot(k) - WeekTicks
<1>1. WeekTicks * k \in Int /\ WeekTicks * (k + 1) = WeekTicks * k + WeekTicks
      /\ WeekTicks * (k - 1) = WeekTicks * k - WeekTicks
  BY DigestConstants
<1> QED
  BY <1>1, ScheduleFacts, DigestConstants DEF Slot

\* The candidates of an instant are this week's slot and the last one's.
LEMMA CandidatesAre ==
  ASSUME schedule \in Schedules, NEW t \in Nat
  PROVE  /\ WeekAt(t) \in Int
         /\ Candidates(t) = {ToUTC(Slot(WeekAt(t))), ToUTC(Slot(WeekAt(t) - 1))}
         /\ Slot(WeekAt(t)) <= t + OffsetAt(t) + WeekTicks - 1
         /\ Slot(WeekAt(t) - 1) <= t + OffsetAt(t) - 1
         /\ Slot(WeekAt(t) + 1) > t + OffsetAt(t)
         /\ Slot(WeekAt(t) - 1) > t + OffsetAt(t) - 2 * WeekTicks
<1>1. t + OffsetAt(t) \in Int
  BY OffsetInt
<1>2. PICK k \in Int : k = WeekAt(t)
  BY <1>1, DivBoundsInt, DigestConstants DEF WeekAt
<1>3. WeekTicks * k <= t + OffsetAt(t) /\ t + OffsetAt(t) < WeekTicks * k + WeekTicks
  BY <1>1, <1>2, DivBoundsInt, DigestConstants DEF WeekAt
<1>4. LocalWeek(t) = WeekTicks * k
  BY <1>2 DEF LocalWeek, WeekAt
<1>5. LocalWeek(t) - 0 * WeekTicks + schedule.slot = Slot(k)
      /\ LocalWeek(t) - 1 * WeekTicks + schedule.slot = Slot(k) - WeekTicks
  <2>1. WeekTicks * k \in Int
    BY DigestConstants
  <2> QED
    BY <1>4, <2>1, ScheduleFacts, DigestConstants DEF Slot
<1>6. Candidates(t) = {ToUTC(Slot(k)), ToUTC(Slot(k - 1))}
  BY <1>5, SlotInt DEF Candidates
<1>7. Slot(k) = WeekTicks * k + schedule.slot /\ WeekTicks * k \in Int
  BY DigestConstants DEF Slot
<1>8. /\ Slot(k) <= t + OffsetAt(t) + WeekTicks - 1
      /\ Slot(k) - WeekTicks <= t + OffsetAt(t) - 1
      /\ Slot(k) + WeekTicks > t + OffsetAt(t)
      /\ Slot(k) - WeekTicks > t + OffsetAt(t) - 2 * WeekTicks
  <2>1. PICK n \in Int, o \in Int, d \in Int : n = WeekTicks * k /\ o = OffsetAt(t) /\ d = schedule.slot
    BY <1>7, OffsetInt, ScheduleFacts
  <2>2. n <= t + o /\ t + o < n + WeekTicks /\ 0 <= d /\ d <= WeekTicks - 1 /\ Slot(k) = n + d
    BY <1>3, <1>7, <2>1, ScheduleFacts
  <2> QED
    BY <2>1, <2>2, DigestConstants
<1> QED
  BY <1>2, <1>6, <1>8, SlotInt

\* Of two numbers, the greater one.
LEMMA GreaterOfTwo ==
  ASSUME NEW S, NEW a \in Int, NEW b \in Int, S \subseteq {a, b}, S # {}
  PROVE  MaxOf(S) \in S /\ MaxOf(S) \in Int /\ \A x \in S : x <= MaxOf(S)
<1>1. \E x \in S : \A y \in S : y <= x
  <2>1. CASE a \in S /\ b \in S
    BY <2>1
  <2>2. CASE ~(a \in S /\ b \in S)
    <3>1. PICK x \in S : TRUE
      OBVIOUS
    <3>2. x \in Int /\ \A y \in S : y = x
      BY <2>2
    <3> QED
      BY <3>2
  <2> QED
    BY <2>1, <2>2
<1> QED
  BY <1>1 DEF MaxOf

\* What is due was due before.
LEMMA DueIsPast ==
  ASSUME schedule \in Schedules, NEW t \in Nat, Due(t) # {}
  PROVE  DueAt(t) \in Due(t) /\ DueAt(t) \in Int /\ DueAt(t) <= t /\ \A x \in Due(t) : x <= DueAt(t)
<1>0. WeekAt(t) \in Int /\ WeekAt(t) - 1 \in Int
  BY CandidatesAre
<1>a. Slot(WeekAt(t)) \in Int /\ Slot(WeekAt(t) - 1) \in Int
  BY <1>0, SlotInt
<1>b. ToUTC(Slot(WeekAt(t))) \in Int /\ ToUTC(Slot(WeekAt(t) - 1)) \in Int
  BY <1>a, ToUTCInt
<1>1. PICK a \in Int, b \in Int : Candidates(t) = {a, b}
  BY <1>b, CandidatesAre
<1> QED
  BY <1>1, GreaterOfTwo DEF Due, DueAt

\* A schedule whose offset does not go back: later local times are later, and no farther apart.
LEMMA UTCInOrder ==
  ASSUME schedule \in Schedules, schedule.change >= 0, NEW l \in Int, NEW m \in Int, l <= m
  PROVE  ToUTC(l) <= ToUTC(m) /\ ToUTC(m) <= ToUTC(l) + (m - l)
<1>1. PICK o \in Int, c \in {0, 1} : o = schedule.offset /\ c = schedule.change
  BY ScheduleFacts
<1>2. \A x \in Int : ToUTC(x) = IF Shift > 0 /\ x - o - c >= Shift THEN x - o - c ELSE x - o
  BY <1>1 DEF ToUTC
<1> QED
  BY <1>2, DigestConstants

\* Whether a local time has come.
LEMMA UTCNow ==
  ASSUME schedule \in Schedules, schedule.change >= 0, NEW t \in Nat, NEW l \in Int
  PROVE  /\ l <= t + OffsetAt(t) - 1 => ToUTC(l) <= t
         /\ l > t + OffsetAt(t) => ToUTC(l) > t
         /\ l > t + OffsetAt(t) - 2 * WeekTicks => ToUTC(l) > t - 2 * WeekTicks
<1>1. PICK o \in Int, c \in {0, 1} : o = schedule.offset /\ c = schedule.change
  BY ScheduleFacts
<1>2. ToUTC(l) = IF Shift > 0 /\ l - o - c >= Shift THEN l - o - c ELSE l - o
  BY <1>1 DEF ToUTC
<1>3. OffsetAt(t) = IF Shift > 0 /\ t >= Shift THEN o + c ELSE o
  BY <1>1 DEF OffsetAt
<1>4. CASE Shift > 0 /\ t >= Shift
  <2>1. OffsetAt(t) = o + c
    BY <1>3, <1>4
  <2> QED
    BY <1>2, <1>4, <2>1, DigestConstants
<1>5. CASE ~(Shift > 0 /\ t >= Shift)
  <2>1. OffsetAt(t) = o
    BY <1>3, <1>5
  <2> QED
    BY <1>2, <1>5, <2>1, DigestConstants
<1> QED
  BY <1>4, <1>5

\* The week's time that was last, and the next one.
LEMMA LastDue ==
  ASSUME schedule \in Schedules, schedule.change >= 0, NEW t \in Nat, t >= 2 * WeekTicks
  PROVE  /\ Due(t) # {} /\ DueAt(t) >= 0
         /\ \E k \in Int : DueAt(t) = ToUTC(Slot(k)) /\ ToUTC(Slot(k)) <= t /\ t < ToUTC(Slot(k + 1))
<1>1. PICK k \in Int : k = WeekAt(t)
  BY CandidatesAre
<1>2. Candidates(t) = {ToUTC(Slot(k)), ToUTC(Slot(k - 1))} /\ Slot(k - 1) <= t + OffsetAt(t) - 1
      /\ Slot(k + 1) > t + OffsetAt(t) /\ Slot(k - 1) > t + OffsetAt(t) - 2 * WeekTicks
  BY <1>1, CandidatesAre
<1>3. Slot(k) \in Int /\ Slot(k + 1) \in Int /\ Slot(k - 1) \in Int /\ Slot(k - 1) <= Slot(k)
  BY SlotInt, DigestConstants
<1>4. ToUTC(Slot(k - 1)) <= t /\ ToUTC(Slot(k - 1)) > t - 2 * WeekTicks
  BY <1>2, <1>3, UTCNow
<1>5. ToUTC(Slot(k + 1)) > t
  BY <1>2, <1>3, UTCNow
<1>6. ToUTC(Slot(k - 1)) <= ToUTC(Slot(k)) /\ ToUTC(Slot(k)) \in Int /\ ToUTC(Slot(k - 1)) \in Int
  BY <1>3, UTCInOrder, ToUTCInt
<1>7. ToUTC(Slot(k - 1)) \in Due(t)
  BY <1>2, <1>4 DEF Due
<1>8. /\ DueAt(t) \in Due(t) /\ DueAt(t) \in Int /\ DueAt(t) <= t
      /\ \A x \in Due(t) : x <= DueAt(t)
  BY <1>7, DueIsPast
<1>9. DueAt(t) >= 0
  <2>1. ToUTC(Slot(k - 1)) <= DueAt(t)
    BY <1>7, <1>8
  <2> QED
    BY <2>1, <1>4, <1>6, <1>8, DigestConstants
<1>10. CASE ToUTC(Slot(k)) <= t
  <2>1. ToUTC(Slot(k)) \in Due(t)
    BY <1>2, <1>10 DEF Due
  <2>2. DueAt(t) = ToUTC(Slot(k))
    <3>1. ToUTC(Slot(k)) <= DueAt(t)
      BY <2>1, <1>8
    <3>2. DueAt(t) = ToUTC(Slot(k)) \/ DueAt(t) = ToUTC(Slot(k - 1))
      BY <1>2, <1>8 DEF Due
    <3> QED
      BY <3>1, <3>2, <1>6, <1>8
  <2> QED
    BY <1>5, <1>7, <1>9, <1>10, <2>2
<1>11. CASE ~(ToUTC(Slot(k)) <= t)
  <2>1. DueAt(t) = ToUTC(Slot(k - 1))
    BY <1>2, <1>8, <1>11 DEF Due
  <2>2. t < ToUTC(Slot(k))
    BY <1>6, <1>11
  <2>3. k - 1 \in Int /\ (k - 1) + 1 = k
    OBVIOUS
  <2> QED
    BY <1>4, <1>7, <1>9, <2>1, <2>2, <2>3
<1> QED
  BY <1>10, <1>11

\* From one instant to the next, the week that is due stays or is the next one.
LEMMA WeekAfterWeek ==
  ASSUME schedule \in Schedules, schedule.change >= 0, NEW t \in Nat, t >= 2 * WeekTicks
  PROVE  /\ CompletedWeek(DueAt(t)) \in Int
         /\ CompletedWeek(DueAt(t + 1)) \in {CompletedWeek(DueAt(t)), CompletedWeek(DueAt(t)) + 1}
<1>1. PICK k \in Int : DueAt(t) = ToUTC(Slot(k)) /\ ToUTC(Slot(k)) <= t /\ t < ToUTC(Slot(k + 1))
  BY LastDue
<1>2. t + 1 \in Nat /\ t + 1 >= 2 * WeekTicks
  BY DigestConstants
<1>3. PICK j \in Int : DueAt(t + 1) = ToUTC(Slot(j)) /\ ToUTC(Slot(j)) <= t + 1 /\ t + 1 < ToUTC(Slot(j + 1))
  BY <1>2, LastDue
<1>4. Slot(k) \in Int /\ Slot(j) \in Int /\ Slot(k + 1) = Slot(k) + WeekTicks /\ Slot(j + 1) = Slot(j) + WeekTicks
  BY SlotInt
<1>5. PICK a \in Int, b \in Int : a = ToUTC(Slot(k)) /\ b = ToUTC(Slot(j))
  BY <1>4, ToUTCInt
<1>6. b <= a + WeekTicks
  <2>1. ToUTC(Slot(k + 1)) <= ToUTC(Slot(k)) + (Slot(k + 1) - Slot(k)) /\ ToUTC(Slot(k + 1)) \in Int
    BY <1>4, UTCInOrder, ToUTCInt, DigestConstants
  <2> QED
    BY <1>1, <1>3, <1>4, <1>5, <2>1, DigestConstants
<1>7. a <= b
  <2>1. CASE k <= j
    <3>1. WeekTicks * k <= WeekTicks * j
      BY <2>1, DigestConstants
    <3>2. Slot(k) <= Slot(j)
      <4>1. WeekTicks * k \in Int /\ WeekTicks * j \in Int
        BY DigestConstants
      <4> QED
        BY <3>1, <4>1, ScheduleFacts DEF Slot
    <3> QED
      BY <1>4, <1>5, <3>2, UTCInOrder
  <2>2. CASE ~(k <= j)
    <3>1. WeekTicks * (j + 1) <= WeekTicks * k
      BY <2>2, DigestConstants
    <3>2. Slot(j + 1) <= Slot(k)
      <4>1. WeekTicks * k \in Int /\ WeekTicks * (j + 1) \in Int
        BY DigestConstants
      <4> QED
        BY <3>1, <4>1, ScheduleFacts DEF Slot
    <3>3. Slot(j + 1) \in Int
      BY <1>4, DigestConstants
    <3>4. ToUTC(Slot(j + 1)) <= ToUTC(Slot(k)) /\ ToUTC(Slot(j + 1)) \in Int
      BY <1>4, <3>2, <3>3, UTCInOrder, ToUTCInt
    <3> QED
      BY <1>1, <1>3, <1>5, <3>4
  <2> QED
    BY <2>1, <2>2
<1>8. PICK qa \in Int, qb \in Int : qa = a \div WeekTicks /\ qb = b \div WeekTicks
  BY DivBoundsInt, DigestConstants
<1>9. WeekTicks * qa <= a /\ a < WeekTicks * qa + WeekTicks /\ WeekTicks * qb <= b /\ b < WeekTicks * qb + WeekTicks
  BY <1>8, DivBoundsInt, DigestConstants
<1>10. qa <= qb
  <2> SUFFICES ASSUME qb + 1 <= qa PROVE FALSE
    OBVIOUS
  <2>1. WeekTicks * (qb + 1) <= WeekTicks * qa /\ WeekTicks * (qb + 1) = WeekTicks * qb + WeekTicks
    BY DigestConstants
  <2>2. WeekTicks * qa \in Int /\ WeekTicks * qb \in Int
    BY DigestConstants
  <2> QED
    BY <2>1, <2>2, <1>7, <1>9, DigestConstants
<1>11. qb <= qa + 1
  <2> SUFFICES ASSUME qa + 2 <= qb PROVE FALSE
    OBVIOUS
  <2>1. WeekTicks * (qa + 2) <= WeekTicks * qb /\ WeekTicks * (qa + 2) = WeekTicks * qa + WeekTicks + WeekTicks
    BY DigestConstants
  <2>2. WeekTicks * qa \in Int /\ WeekTicks * qb \in Int
    BY DigestConstants
  <2> QED
    BY <2>1, <2>2, <1>6, <1>9, DigestConstants
<1>12. qb = qa \/ qb = qa + 1
  BY <1>10, <1>11
<1> QED
  BY <1>1, <1>3, <1>5, <1>8, <1>12 DEF CompletedWeek, WeekBefore

\* What was queued was due, once for each week.
RunsOK ==
  \A r \in digested :
    /\ (r.week + 1) * WeekTicks <= r.due /\ r.since <= r.due /\ r.due <= r.at
    /\ \A q \in digested : q.week = r.week => q = r

\* The last week queued is the one that was complete when the schedule was due last.
LastIs(t) ==
  \E r \in digested : /\ r.week = CompletedWeek(DueAt(t))
                      /\ \A q \in digested : q.week <= r.week

\* No week between two reported ones is missing.
UnbrokenOK ==
  \A r, q \in digested : \A w \in r.week .. q.week : \E p \in digested : p.week = w

\* While the offset and the schedule stay, the last week reported is the one due, or the one before.
SteadyOK ==
  schedule.change >= 0 /\ steady =>
    /\ Listens /\ listening.since = 0
    /\ UnbrokenOK
    /\ IF polled THEN LastIs(dtick)
       ELSE \/ dtick = FirstTick /\ digested = {}
            \/ dtick > FirstTick /\ LastIs(dtick - 1)

\* The inductive invariant.
DigestInv == DigestTypeOK /\ RunsOK /\ SteadyOK

\* The invariant has the types, no week is queued twice and none is passed over.
LEMMA DigestInvSafe == DigestInv => DigestTypeOK /\ DigestsSafe
BY DEF DigestInv, RunsOK, SteadyOK, UnbrokenOK, DigestsSafe

\* Nothing has been queued at first.
LEMMA DigestStart == DigestInit => DigestInv
<1> SUFFICES ASSUME DigestInit PROVE DigestInv
  OBVIOUS
<1>1. dtick \in FirstTick .. LastTick /\ changes \in 0 .. MaxSettings
  BY DigestConstants DEF DigestInit
<1>2. listening = NotListening \/ (listening \in [since : 0 .. LastTick, on : BOOLEAN] /\ listening.since = 0)
  <2>1. PICK zero \in 0 .. LastTick : zero = 0
    BY DigestConstants
  <2>2. \A on \in BOOLEAN : [since |-> zero, on |-> on] \in [since : 0 .. LastTick, on : BOOLEAN]
    OBVIOUS
  <2> QED
    BY <2>1, <2>2 DEF DigestInit
<1>3. steady \in BOOLEAN /\ polled \in BOOLEAN
  BY <1>2 DEF DigestInit, Listens
<1>4. DigestTypeOK
  BY <1>1, <1>2, <1>3 DEF DigestInit, DigestTypeOK
<1>5. RunsOK /\ UnbrokenOK
  BY DEF DigestInit, RunsOK, UnbrokenOK
<1>6. SteadyOK
  BY <1>2, <1>5 DEF DigestInit, SteadyOK, Listens
<1> QED
  BY <1>4, <1>5, <1>6 DEF DigestInv

\* Every step of the clock, of the settings and of a run.
LEMMA DigestStep == DigestInv /\ [DigestNext]_digestVars => DigestInv'
<1> SUFFICES ASSUME DigestInv, [DigestNext]_digestVars PROVE DigestInv'
  OBVIOUS
<1>n. /\ WeekTicks \in Nat \ {0} /\ FirstTick \in Nat \ {0} /\ LastTick \in Nat /\ Shift \in Nat
      /\ MaxSettings \in Nat /\ FirstTick >= 2 * WeekTicks /\ FirstTick <= LastTick
  BY DigestConstants
<1>t. /\ dtick \in FirstTick .. LastTick /\ schedule \in Schedules
      /\ listening \in {NotListening} \cup [since : 0 .. LastTick, on : BOOLEAN]
      /\ digested \subseteq [week : Int, due : Int, at : Int, since : Int]
      /\ changes \in 0 .. MaxSettings
      /\ polled \in BOOLEAN /\ steady \in BOOLEAN
  BY DEF DigestInv, DigestTypeOK
<1>d. dtick \in Nat /\ dtick >= 2 * WeekTicks
  BY <1>t, <1>n
<1>k. ASSUME dtick' \in FirstTick .. LastTick, schedule' \in Schedules,
             listening' \in {NotListening} \cup [since : 0 .. LastTick, on : BOOLEAN],
             digested' \subseteq [week : Int, due : Int, at : Int, since : Int],
             changes' \in 0 .. MaxSettings,
             polled' \in BOOLEAN, steady' \in BOOLEAN
      PROVE  DigestTypeOK'
  BY <1>k DEF DigestTypeOK
<1>u. ASSUME schedule' = schedule, digested' = digested, NEW t
      PROVE  LastIs(t)' <=> LastIs(t)
  BY <1>u DEF LastIs, CompletedWeek, WeekBefore, DueAt, Due, Candidates, LocalWeek, OffsetAt, ToUTC
<1>1. CASE DTick
  <2>1. /\ dtick < LastTick /\ dtick' = dtick + 1 /\ polled' = FALSE /\ steady' = (steady /\ polled)
        /\ UNCHANGED <<schedule, listening, digested, changes>>
    BY <1>1 DEF DTick
  <2>2. dtick' \in FirstTick .. LastTick /\ dtick' > FirstTick /\ dtick' - 1 = dtick
    BY <2>1, <1>t, <1>n
  <2>3. polled' \in BOOLEAN /\ steady' \in BOOLEAN
    BY <2>1
  <2>4. DigestTypeOK'
    BY <2>1, <2>2, <2>3, <1>t, <1>k
  <2>5. RunsOK'
    BY <2>1 DEF DigestInv, RunsOK
  <2>6. SteadyOK'
    <3>1. ASSUME schedule'.change >= 0, steady'
          PROVE  /\ Listens' /\ listening'.since = 0 /\ UnbrokenOK'
                 /\ dtick' > FirstTick /\ LastIs(dtick)
      <4>1. steady /\ polled /\ schedule.change >= 0
        BY <2>1, <3>1
      <4>2. Listens /\ listening.since = 0 /\ UnbrokenOK /\ LastIs(dtick)
        BY <4>1 DEF DigestInv, SteadyOK
      <4>3. Listens' <=> Listens
        BY <2>1 DEF Listens
      <4>4. UnbrokenOK'
        BY <2>1, <4>2 DEF UnbrokenOK
      <4> QED
        BY <2>1, <2>2, <4>2, <4>3, <4>4
    <3>2. LastIs(dtick) => LastIs(dtick - 1)'
      <4>1. PICK t : t = dtick /\ dtick' - 1 = t
        BY <2>2
      <4>2. LastIs(t) => LastIs(t)'
        BY <2>1, <1>u
      <4> QED
        BY <4>1, <4>2 DEF LastIs, CompletedWeek, WeekBefore, DueAt, Due, Candidates, LocalWeek, OffsetAt, ToUTC
    <3> QED
      BY <2>1, <2>2, <3>1, <3>2 DEF SteadyOK, Listens
  <2> QED
    BY <2>4, <2>5, <2>6 DEF DigestInv
<1>2. CASE ScheduleDigests
  <2> DEFINE at == DueAt(dtick)
             wk == CompletedWeek(at)
             run == [week |-> wk, due |-> at, at |-> dtick, since |-> listening.since]
  <2>1. /\ ~polled /\ polled' = TRUE
        /\ UNCHANGED <<dtick, schedule, listening, changes, steady>>
        /\ IF /\ Due(dtick) # {} /\ Listens /\ listening.since <= at
              /\ \A r \in digested : r.week # wk
           THEN digested' = digested \cup {run} ELSE UNCHANGED digested
    BY <1>2 DEF ScheduleDigests, Due, DueAt
  <2>2. CASE /\ Due(dtick) # {} /\ Listens /\ listening.since <= at
             /\ \A r \in digested : r.week # wk
    <3>1. digested' = digested \cup {run}
      BY <2>1, <2>2
    <3>2. at \in Int /\ at <= dtick
      BY <2>2, <1>t, <1>d, DueIsPast
    <3>3. PICK last \in Int, from \in Int : last = at /\ from = listening.since
      BY <2>2, <3>2, <1>t DEF Listens
    <3>4. PICK done \in Int : done = wk /\ (done + 1) * WeekTicks <= last
      <4>1. last \div WeekTicks \in Int /\ WeekTicks * (last \div WeekTicks) <= last
        BY <1>n, DivBoundsInt
      <4>2. PICK qt \in Int : qt = last \div WeekTicks
        BY <4>1
      <4>3. wk = qt - 1 /\ qt - 1 \in Int
        BY <3>3, <4>2 DEF CompletedWeek, WeekBefore
      <4>4. (qt - 1 + 1) * WeekTicks = WeekTicks * qt
        BY <1>n
      <4> QED
        BY <4>1, <4>2, <4>3, <4>4
    <3>5. PICK new \in [week : Int, due : Int, at : Int, since : Int] :
            new = [week |-> done, due |-> last, at |-> dtick, since |-> from]
      <4>1. dtick \in Int
        BY <1>d
      <4> QED
        BY <4>1
    <3>6. new.week = done /\ new.due = last /\ new.at = dtick /\ new.since = from /\ run = new
      BY <3>3, <3>4, <3>5
    <3> HIDE DEF at, wk, run
    <3>7. digested' = digested \cup {new} /\ \A r \in digested : r.week # done
      BY <2>2, <3>1, <3>4, <3>6
    <3>8. DigestTypeOK'
      BY <2>1, <3>7, <1>t, <1>k
    <3>9. RunsOK'
      <4>1. (new.week + 1) * WeekTicks <= new.due /\ new.since <= new.due /\ new.due <= new.at
        BY <2>2, <3>2, <3>3, <3>4, <3>6
      <4> QED
        BY <3>6, <3>7, <4>1 DEF DigestInv, RunsOK
    <3>10. SteadyOK'
      <4> SUFFICES ASSUME schedule.change >= 0, steady
                   PROVE  /\ Listens /\ listening.since = 0
                          /\ UnbrokenOK' /\ LastIs(dtick)'
        BY <2>1 DEF SteadyOK, Listens
      <4>1. /\ Listens /\ listening.since = 0 /\ UnbrokenOK
            /\ (dtick = FirstTick /\ digested = {}) \/ (dtick > FirstTick /\ LastIs(dtick - 1))
        BY <2>1 DEF DigestInv, SteadyOK
      <4>2. LastIs(dtick)' <=> \E r \in digested' : r.week = done /\ \A q \in digested' : q.week <= r.week
        BY <2>1, <3>4 DEF LastIs, at, wk, CompletedWeek, WeekBefore, DueAt, Due, Candidates, LocalWeek, OffsetAt, ToUTC
      <4>3. CASE digested = {}
        <5>1. digested' = {new}
          BY <3>7, <4>3
        <5>2. UnbrokenOK'
          BY <5>1, <3>6 DEF UnbrokenOK
        <5>3. LastIs(dtick)'
          BY <5>1, <4>2, <3>6
        <5> QED
          BY <4>1, <5>2, <5>3
      <4>4. CASE dtick > FirstTick /\ LastIs(dtick - 1)
        <5>1. PICK t \in Nat : t = dtick - 1 /\ t >= 2 * WeekTicks /\ t + 1 = dtick
          BY <1>d, <1>n, <4>4
        <5>2. PICK old \in Int : old = CompletedWeek(DueAt(t)) /\ (done = old \/ done = old + 1)
          BY <5>1, <3>4, <1>t, WeekAfterWeek DEF at, wk
        <5>3. PICK r \in digested : r.week = old /\ \A q \in digested : q.week <= old
          BY <4>4, <5>1, <5>2 DEF LastIs
        <5>4. done = old + 1
          BY <3>7, <5>2, <5>3
        <5>5. \A q \in digested : q.week \in Int /\ q.week <= old
          BY <5>3, <1>t
        <5>6. LastIs(dtick)'
          BY <3>6, <3>7, <4>2, <5>4, <5>5
        <5>7. UnbrokenOK'
          <6> SUFFICES ASSUME NEW a \in digested', NEW b \in digested', NEW w \in a.week .. b.week
                       PROVE  \E p \in digested' : p.week = w
            BY DEF UnbrokenOK
          <6>0. a.week \in Int /\ b.week \in Int /\ w \in Int /\ a.week <= w /\ w <= b.week
            BY <3>6, <3>7, <5>5
          <6>1. CASE w = done
            BY <3>6, <3>7, <6>1
          <6>2. CASE w # done
            <7>1. b.week <= done
              BY <3>6, <3>7, <5>4, <5>5
            <7>2. w <= old /\ a \in digested
              BY <3>6, <3>7, <5>4, <6>0, <6>2, <7>1
            <7>3. w \in a.week .. r.week
              BY <5>3, <6>0, <7>2
            <7> QED
              BY <3>7, <4>1, <7>2, <7>3 DEF UnbrokenOK
          <6> QED
            BY <6>1, <6>2
        <5> QED
          BY <4>1, <5>6, <5>7
      <4> QED
        BY <4>1, <4>3, <4>4
    <3> QED
      BY <2>1, <3>8, <3>9, <3>10 DEF DigestInv
  <2>3. CASE ~(/\ Due(dtick) # {} /\ Listens /\ listening.since <= at
               /\ \A r \in digested : r.week # wk)
    <3>1. digested' = digested
      BY <2>1, <2>3
    <3>2. DigestTypeOK'
      BY <2>1, <3>1, <1>t, <1>k
    <3>3. RunsOK'
      BY <2>1, <3>1 DEF DigestInv, RunsOK
    <3>4. SteadyOK'
      <4> SUFFICES ASSUME schedule.change >= 0, steady
                   PROVE  /\ Listens /\ listening.since = 0
                          /\ UnbrokenOK' /\ LastIs(dtick)'
        BY <2>1 DEF SteadyOK, Listens
      <4>1. /\ Listens /\ listening.since = 0 /\ UnbrokenOK
            /\ (dtick = FirstTick /\ digested = {}) \/ (dtick > FirstTick /\ LastIs(dtick - 1))
        BY <2>1 DEF DigestInv, SteadyOK
      <4>2. Due(dtick) # {} /\ at >= 0
        BY <1>d, <1>t, LastDue
      <4>3. PICK r \in digested : r.week = wk
        <5> HIDE DEF wk
        <5> QED
          BY <2>3, <4>1, <4>2
      <4>4. dtick > FirstTick /\ LastIs(dtick - 1)
        BY <4>1, <4>3
      <4>5. PICK t \in Nat : t = dtick - 1 /\ t >= 2 * WeekTicks /\ t + 1 = dtick
        BY <1>d, <1>n, <4>4
      <4>6. PICK old \in Int : old = CompletedWeek(DueAt(t)) /\ (wk = old \/ wk = old + 1)
        BY <4>5, <1>t, WeekAfterWeek
      <4>7. PICK top \in digested : top.week = old /\ \A q \in digested : q.week <= old
        BY <4>4, <4>5, <4>6 DEF LastIs
      <4>8. wk = old
        <5>1. PICK done : done = wk
          OBVIOUS
        <5>2. r.week \in Int /\ r.week <= old /\ r.week = done /\ (done = old \/ done = old + 1)
          BY <4>3, <4>6, <4>7, <5>1, <1>t
        <5>3. done = old
          BY <5>2
        <5> QED
          BY <5>1, <5>3
      <4>9. LastIs(dtick)
        BY <4>7, <4>8 DEF LastIs
      <4>10. LastIs(dtick)'
        BY <4>9, <2>1, <3>1 DEF LastIs, CompletedWeek, WeekBefore, DueAt, Due, Candidates, LocalWeek, OffsetAt, ToUTC
      <4> QED
        BY <4>1, <4>10, <3>1 DEF UnbrokenOK
    <3> QED
      BY <3>2, <3>3, <3>4 DEF DigestInv
  <2> QED
    BY <2>2, <2>3
\* Anything else is a change, or leaves the schedule and what was queued alone.
<1>c. ASSUME changes' = changes \/ (changes < MaxSettings /\ changes' = changes + 1),
             UNCHANGED <<dtick, digested, polled>>,
             \/ ~steady'
             \/ steady' = steady /\ UNCHANGED <<schedule, listening>>,
             steady' \in BOOLEAN,
             schedule' \in Schedules, listening' \in {NotListening} \cup [since : 0 .. LastTick, on : BOOLEAN]
      PROVE  DigestInv'
  <2>1. changes' \in 0 .. MaxSettings
    BY <1>c, <1>t, <1>n
  <2>2. DigestTypeOK'
    BY <1>c, <2>1, <1>t, <1>k
  <2>3. RunsOK'
    BY <1>c DEF DigestInv, RunsOK
  <2>4. SteadyOK'
    <3>1. CASE ~steady'
      BY <3>1 DEF SteadyOK
    <3>2. CASE steady' = steady /\ UNCHANGED <<schedule, listening>>
      <4>1. \A t : LastIs(t)' <=> LastIs(t)
        BY <1>c, <3>2, <1>u
      <4>2. PICK t, s : t = dtick /\ s = dtick - 1
        OBVIOUS
      <4>3. t = dtick' /\ s = dtick' - 1
        BY <4>2, <1>c
      <4>4. (LastIs(t)' <=> LastIs(t)) /\ (LastIs(s)' <=> LastIs(s))
        BY <4>1
      <4>5. (LastIs(dtick)' <=> LastIs(dtick)) /\ (LastIs(dtick - 1)' <=> LastIs(dtick - 1))
        BY <4>2, <4>3, <4>4
      <4> QED
        BY <1>c, <3>2, <4>5 DEF DigestInv, SteadyOK, UnbrokenOK, Listens
    <3> QED
      BY <1>c, <3>1, <3>2
  <2> QED
    BY <1>c, <2>2, <2>3, <2>4 DEF DigestInv
<1>3. ASSUME NEW s \in Schedules, SaveSchedule(s) PROVE DigestInv'
  <2>1. /\ changes < MaxSettings /\ changes' = changes + 1 /\ steady' = FALSE /\ schedule' = s
        /\ UNCHANGED <<dtick, listening, digested, polled>>
    BY <1>3 DEF SaveSchedule, Change
  <2> QED
    BY <2>1, <1>c, <1>t
<1>4. CASE SetWebhook
  <2>1. /\ changes < MaxSettings /\ changes' = changes + 1 /\ steady' = FALSE
        /\ \/ listening' = [since |-> dtick, on |-> TRUE]
           \/ listening # NotListening /\ listening' = [listening EXCEPT !.on = ~listening.on]
           \/ listening' = NotListening
        /\ UNCHANGED <<dtick, schedule, digested, polled>>
    BY <1>4 DEF SetWebhook, Change
  <2>2. dtick \in 0 .. LastTick
    BY <1>t, <1>n
  <2>3. listening' \in {NotListening} \cup [since : 0 .. LastTick, on : BOOLEAN]
    <3>1. [since |-> dtick, on |-> TRUE] \in [since : 0 .. LastTick, on : BOOLEAN]
      BY <2>2
    <3>2. ASSUME listening # NotListening
          PROVE  [listening EXCEPT !.on = ~listening.on] \in [since : 0 .. LastTick, on : BOOLEAN]
      <4>1. listening \in [since : 0 .. LastTick, on : BOOLEAN]
        BY <3>2, <1>t
      <4>2. \A off \in BOOLEAN : [listening EXCEPT !.on = off] \in [since : 0 .. LastTick, on : BOOLEAN]
        BY <4>1
      <4>3. (~listening.on) = TRUE \/ (~listening.on) = FALSE
        BY Zenon
      <4> QED
        BY <4>2, <4>3
    <3> QED
      BY <2>1, <3>1, <3>2
  <2> QED
    BY <2>1, <2>3, <1>c, <1>t
<1>5. CASE UNCHANGED digestVars
  <2>1. UNCHANGED <<dtick, schedule, listening, digested, changes, polled, steady>>
    BY <1>5 DEF digestVars
  <2> QED
    BY <2>1, <1>c, <1>t
<1>6. (\E s \in Schedules : SaveSchedule(s)) => DigestInv'
  BY <1>3
<1> QED
  BY <1>1, <1>2, <1>4, <1>5, <1>6 DEF DigestNext

\* Digests keep the invariant (digest.ts).
LEMMA DigestInvariance == DigestSpec => []DigestInv
BY DigestStart, DigestStep, PTL DEF DigestSpec

\* A week is queued once, after it was over, and without a change of offset none is passed over
\* (digest.ts).
THEOREM DigestsAreSafe == DigestSpec => [](DigestTypeOK /\ DigestsSafe)
<1>1. DigestInv => DigestTypeOK /\ DigestsSafe
  BY DigestInvSafe
<1> QED
  BY <1>1, DigestInvariance, PTL

-----------------------------------------------------------------------------
(* A digest that is sent (Weekly). *)

\* The history has what is so now.
SinceOK ==
  SummaryRead => /\ pinned.on => pinned.repos \in since.pins
                 /\ member => since.member
                 /\ granted \in since.granted /\ sources \in since.keys

\* What has been looked at again is in the history.
LookedAgain ==
  /\ building.at \in {"activeAgain", "grantedAgain", "sourcesAgain", "send"} =>
       building.pins \in since.pins
  /\ building.at \in {"grantedAgain", "sourcesAgain", "send"} => since.member
  /\ building.at \in {"sourcesAgain", "send"} =>
       \E may \in since.granted : building.repos = building.pins \cap may
  /\ building.at = "send" => building.key \in since.keys

\* The inductive invariant.
DigestSendInv == DigestSendTypeOK /\ SinceOK /\ LookedAgain /\ DigestSendsSafe

\* Nothing is claimed at first.
LEMMA DigestSendStart == DigestSendInit => DigestSendInv
<1> SUFFICES ASSUME DigestSendInit PROVE DigestSendInv
  OBVIOUS
<1>1. 0 \in 0 .. MaxScopeMoves
  BY DigestSendAssumption
<1>2. pinned \in Pinned
  BY DEF DigestSendInit, Pinned
<1>3. building = NotBuilding /\ building.at = "none" /\ sent = NotSent
  BY DEF DigestSendInit, NotBuilding
<1>4. since \in Since
  BY DEF DigestSendInit, Never, Since
<1>5. DigestSendTypeOK
  BY <1>1, <1>2, <1>3, <1>4 DEF DigestSendInit, DigestSendTypeOK
<1>6. SinceOK /\ LookedAgain /\ DigestSendsSafe
  BY <1>3 DEF SinceOK, SummaryRead, LookedAgain, DigestSendsSafe
<1> QED
  BY <1>5, <1>6 DEF DigestSendInv

\* Every look at what may be read, and every change of it.
LEMMA DigestSendStep == DigestSendInv /\ [DigestSendNext]_sendVars => DigestSendInv'
<1> SUFFICES ASSUME DigestSendInv, [DigestSendNext]_sendVars PROVE DigestSendInv'
  OBVIOUS
<1>t. /\ pinned \in Pinned /\ member \in BOOLEAN /\ granted \subseteq Reposed
      /\ sources \in SourceKey /\ scopeMoves \in 0 .. MaxScopeMoves
      /\ building \in {NotBuilding} \cup Building /\ since \in Since
      /\ (sent = NotSent \/ sent \in [repos : SUBSET Reposed, key : SourceKey, was : Since])
  BY DEF DigestSendInv, DigestSendTypeOK
<1>k. ASSUME pinned' \in Pinned, member' \in BOOLEAN, granted' \subseteq Reposed,
             sources' \in SourceKey, scopeMoves' \in 0 .. MaxScopeMoves,
             building' \in {NotBuilding} \cup Building, since' \in Since,
             sent' = NotSent \/ sent' \in [repos : SUBSET Reposed, key : SourceKey, was : Since]
      PROVE  DigestSendTypeOK'
  BY <1>k DEF DigestSendTypeOK
<1>z. NotBuilding.at = "none" /\ (building # NotBuilding => building \in Building)
  BY <1>t DEF NotBuilding
<1>s. ASSUME sent' = sent PROVE DigestSendsSafe'
  BY <1>s DEF DigestSendInv, DigestSendsSafe
<1>e. Never \in Since
  BY DEF Never, Since
\* What is so now is of the type of the history.
<1>w. /\ Now.granted = {granted} /\ Now.keys = {sources} /\ Now.member = member
      /\ pinned.on => Now.pins = {pinned.repos}
      /\ Now \in Since
  BY <1>t DEF Now, Since, Pinned
<1>1. CASE ReadableMoves
  <2>1. /\ scopeMoves < MaxScopeMoves /\ scopeMoves' = scopeMoves + 1
        /\ since' = (IF SummaryRead THEN With(since, Now') ELSE since)
        /\ UNCHANGED <<building, sent>>
    BY <1>1 DEF ReadableMoves
  <2>2. pinned' \in Pinned /\ member' \in BOOLEAN /\ granted' \subseteq Reposed /\ sources' \in SourceKey
    BY <1>1, <1>t DEF ReadableMoves
  <2>3. /\ Now'.granted = {granted'} /\ Now'.keys = {sources'} /\ Now'.member = member'
        /\ pinned'.on => Now'.pins = {pinned'.repos}
        /\ Now' \in Since
    BY <2>2 DEF Now, Since, Pinned
  <2>4. ASSUME NEW now \in Since
        PROVE  /\ With(since, now) \in Since
               /\ With(since, now).pins = since.pins \cup now.pins
               /\ With(since, now).granted = since.granted \cup now.granted
               /\ With(since, now).keys = since.keys \cup now.keys
               /\ With(since, now).member = (since.member \/ now.member)
    BY <1>t DEF With, Since
  <2>5. since' \in Since /\ since.pins \subseteq since'.pins /\ since.granted \subseteq since'.granted
        /\ since.keys \subseteq since'.keys /\ (since.member => since'.member)
    BY <2>1, <2>3, <2>4, <1>t
  <2>6. scopeMoves' \in 0 .. MaxScopeMoves
    BY <2>1, <1>t, DigestSendAssumption
  <2>7. DigestSendTypeOK'
    BY <2>1, <2>2, <2>5, <2>6, <1>t, <1>k
  <2>8. SinceOK'
    <3>1. SummaryRead' <=> SummaryRead
      BY <2>1 DEF SummaryRead
    <3>2. CASE SummaryRead
      <4>1. since' = With(since, Now')
        BY <2>1, <3>2
      <4>2. /\ pinned'.on => pinned'.repos \in since'.pins
            /\ member' => since'.member
            /\ granted' \in since'.granted /\ sources' \in since'.keys
        BY <2>3, <2>4, <4>1
      <4> QED
        BY <4>2 DEF SinceOK
    <3> QED
      BY <3>1, <3>2 DEF SinceOK
  <2>9. LookedAgain'
    BY <2>1, <2>5 DEF DigestSendInv, LookedAgain
  <2> QED
    BY <2>1, <2>7, <2>8, <2>9, <1>s DEF DigestSendInv
\* What may be read stays as it is, and nothing is sent.
<1>g. ASSUME UNCHANGED <<pinned, member, granted, sources, scopeMoves, sent>>,
             building' \in {NotBuilding} \cup Building, since' \in Since, LookedAgain',
             SummaryRead' => \/ SummaryRead /\ since' = since
                             \/ since' = Now
      PROVE  DigestSendInv'
  <2>1. DigestSendTypeOK'
    BY <1>g, <1>t, <1>k
  <2>2. SinceOK'
    <3>1. CASE SummaryRead /\ since' = since
      BY <1>g, <3>1 DEF DigestSendInv, SinceOK
    <3>2. CASE since' = Now
      BY <1>g, <3>2, <1>w DEF SinceOK
    <3> QED
      BY <1>g, <3>1, <3>2 DEF SinceOK
  <2> QED
    BY <1>g, <2>1, <2>2, <1>s DEF DigestSendInv
\* It ends.
<1>n. ASSUME GiveUp PROVE /\ building' \in {NotBuilding} \cup Building /\ since' \in Since
                          /\ LookedAgain' /\ ~SummaryRead'
  <2>1. building' = NotBuilding /\ building'.at = "none" /\ since' = Never
    BY <1>n, <1>z DEF GiveUp
  <2> QED
    BY <2>1, <1>e DEF LookedAgain, SummaryRead
\* Before the summary nothing is noted.
<1>b. ASSUME UNCHANGED <<readVars, since, sent>>, building' \in Building,
             building'.at \in {"active", "granted", "sources", "summary"}
      PROVE  DigestSendInv'
  <2>1. LookedAgain' /\ ~SummaryRead'
    BY <1>b DEF LookedAgain, SummaryRead
  <2> QED
    BY <1>b, <2>1, <1>g, <1>t DEF readVars
<1>2. CASE ClaimDigest
  <2>1. /\ building' = [at |-> "active", pins |-> pinned.repos, repos |-> {}, key |-> NoKey]
        /\ UNCHANGED <<readVars, since, sent>>
    BY <1>2 DEF ClaimDigest
  <2>2. building' \in Building /\ building'.at = "active"
    BY <2>1, <1>t DEF Building, Pinned
  <2> QED
    BY <2>1, <2>2, <1>b
<1>3. CASE DigestFails
  BY <1>3, <1>n, <1>g DEF DigestFails, readVars
<1>4. CASE ReadActive
  <2>1. /\ building # NotBuilding /\ building' = [building EXCEPT !.at = "granted"]
        /\ UNCHANGED <<readVars, since, sent>>
    BY <1>4 DEF ReadActive
  <2>2. building' \in Building /\ building'.at = "granted"
    BY <2>1, <1>z DEF Building
  <2> QED
    BY <2>1, <2>2, <1>b
<1>5. CASE ReadGranted
  <2>1. /\ building # NotBuilding
        /\ building' = [building EXCEPT !.at = "sources", !.repos = building.pins \cap granted]
        /\ UNCHANGED <<readVars, since, sent>>
    BY <1>5 DEF ReadGranted
  <2>2. building.pins \cap granted \in SUBSET Reposed
    BY <1>t
  <2>3. building' \in Building /\ building'.at = "sources"
    BY <2>1, <2>2, <1>z DEF Building
  <2> QED
    BY <2>1, <2>3, <1>b
<1>6. CASE ReadScope
  <2>1. /\ building # NotBuilding /\ building' = [building EXCEPT !.at = "summary", !.key = sources]
        /\ UNCHANGED <<readVars, since, sent>>
    BY <1>6 DEF ReadScope
  <2>2. building' \in Building /\ building'.at = "summary"
    BY <2>1, <1>z, <1>t DEF Building
  <2> QED
    BY <2>1, <2>2, <1>b
<1>7. CASE ReadSummary
  <2>1. /\ building # NotBuilding /\ building' = [building EXCEPT !.at = "hookAgain"]
        /\ since' = Now /\ UNCHANGED <<readVars, sent>>
    BY <1>7 DEF ReadSummary
  <2>2. building' \in Building /\ building'.at = "hookAgain"
    BY <2>1, <1>z DEF Building
  <2>3. LookedAgain' /\ since' \in Since
    BY <2>1, <2>2, <1>w DEF LookedAgain
  <2> QED
    BY <2>1, <2>2, <2>3, <1>g DEF readVars
\* A look again goes on with a record of which it is true, or ends it.
<1>a. ASSUME NEW at, NEW same, NEW next \in Building, Again(at, same, next),
             at \in {"hookAgain", "activeAgain", "grantedAgain", "sourcesAgain"},
             building # NotBuilding /\ building.at = at /\ same /\ building' = next /\ since' = since => LookedAgain'
      PROVE  DigestSendInv'
  <2>1. building # NotBuilding /\ building.at = at /\ UNCHANGED <<readVars, sent>>
    BY <1>a DEF Again
  <2>2. CASE same /\ building' = next /\ UNCHANGED since
    <3>1. SummaryRead
      BY <1>a, <2>1 DEF SummaryRead
    <3> QED
      BY <1>a, <2>1, <2>2, <3>1, <1>g, <1>t DEF readVars
  <2>3. CASE GiveUp
    BY <2>1, <2>3, <1>n, <1>g DEF readVars
  <2> QED
    BY <1>a, <2>2, <2>3 DEF Again
<1>l. LookedAgain /\ SinceOK
  BY DEF DigestSendInv
<1>8. CASE HookAgain
  <2>1. building # NotBuilding /\ building.at = "hookAgain"
    BY <1>8 DEF HookAgain, Again
  <2>2. PICK next \in Building : next = [building EXCEPT !.at = "activeAgain", !.pins = pinned.repos]
    BY <2>1, <1>z, <1>t DEF Building, Pinned
  <2>3. next.at = "activeAgain" /\ next.pins = pinned.repos
    BY <2>1, <2>2, <1>z DEF Building
  <2>4. pinned.on => next.pins \in since.pins
    BY <2>1, <2>3, <1>l DEF SinceOK, SummaryRead
  <2>5. pinned.on /\ building' = next /\ since' = since => LookedAgain'
    BY <2>3, <2>4 DEF LookedAgain
  <2>6. Again("hookAgain", pinned.on, next)
    BY <1>8, <2>2 DEF HookAgain
  <2> QED
    BY <2>5, <2>6, <1>a
<1>9. CASE ActiveAgain
  <2>1. building # NotBuilding /\ building.at = "activeAgain"
    BY <1>9 DEF ActiveAgain, Again
  <2>2. PICK next \in Building : next = [building EXCEPT !.at = "grantedAgain"]
    BY <2>1, <1>z DEF Building
  <2>3. next.at = "grantedAgain" /\ next.pins = building.pins
    BY <2>1, <2>2, <1>z DEF Building
  <2>4. next.pins \in since.pins /\ (member => since.member)
    BY <2>1, <2>3, <1>l DEF SinceOK, SummaryRead, LookedAgain
  <2>5. member /\ building' = next /\ since' = since => LookedAgain'
    BY <2>3, <2>4 DEF LookedAgain
  <2>6. Again("activeAgain", member, next)
    BY <1>9, <2>2 DEF ActiveAgain
  <2> QED
    BY <2>5, <2>6, <1>a
<1>10. CASE GrantedAgain
  <2>1. building # NotBuilding /\ building.at = "grantedAgain"
    BY <1>10 DEF GrantedAgain, Again
  <2>2. PICK next \in Building : next = [building EXCEPT !.at = "sourcesAgain"]
    BY <2>1, <1>z DEF Building
  <2>3. next.at = "sourcesAgain" /\ next.pins = building.pins /\ next.repos = building.repos
    BY <2>1, <2>2, <1>z DEF Building
  <2>4. next.pins \in since.pins /\ since.member /\ granted \in since.granted
    BY <2>1, <2>3, <1>l DEF SinceOK, SummaryRead, LookedAgain
  <2>5. building.pins \cap granted = building.repos /\ building' = next /\ since' = since => LookedAgain'
    BY <2>3, <2>4 DEF LookedAgain
  <2>6. Again("grantedAgain", building.pins \cap granted = building.repos, next)
    BY <1>10, <2>2 DEF GrantedAgain
  <2> QED
    BY <2>5, <2>6, <1>a
<1>11. CASE SourcesAgain
  <2>1. building # NotBuilding /\ building.at = "sourcesAgain"
    BY <1>11 DEF SourcesAgain, Again
  <2>2. PICK next \in Building : next = [building EXCEPT !.at = "send"]
    BY <2>1, <1>z DEF Building
  <2>3. next.at = "send" /\ next.pins = building.pins /\ next.repos = building.repos /\ next.key = building.key
    BY <2>1, <2>2, <1>z DEF Building
  <2>4. /\ next.pins \in since.pins /\ since.member /\ sources \in since.keys
        /\ \E may \in since.granted : next.repos = next.pins \cap may
    BY <2>1, <2>3, <1>l DEF SinceOK, SummaryRead, LookedAgain
  <2>5. SameSources(building.key) /\ building' = next /\ since' = since => LookedAgain'
    BY <2>3, <2>4 DEF LookedAgain, SameSources
  <2>6. Again("sourcesAgain", SameSources(building.key), next)
    BY <1>11, <2>2 DEF SourcesAgain
  <2> QED
    BY <2>5, <2>6, <1>a
<1>12. CASE SendDigest
  <2>1. /\ building # NotBuilding /\ building.at = "send" /\ GiveUp
        /\ sent' = [repos |-> building.repos, key |-> building.key, was |-> since]
        /\ UNCHANGED readVars
    BY <1>12 DEF SendDigest
  <2>2. building.pins \in since.pins /\ since.member /\ building.key \in since.keys
        /\ \E may \in since.granted : building.repos = building.pins \cap may
    BY <2>1, <1>l DEF LookedAgain
  <2>3. building.repos \subseteq Reposed /\ building.key \in SourceKey
    BY <2>1, <2>2, <1>z, <1>t DEF Building, Since
  <2>4. sent' \in [repos : SUBSET Reposed, key : SourceKey, was : Since]
    BY <2>1, <2>3, <1>t
  <2>5. UNCHANGED <<pinned, member, granted, sources, scopeMoves>>
    BY <2>1 DEF readVars
  <2>6. DigestSendTypeOK' /\ LookedAgain' /\ SinceOK'
    BY <2>1, <2>4, <2>5, <1>n, <1>t, <1>k DEF SinceOK
  <2>7. sent'.repos = building.repos /\ sent'.key = building.key /\ sent'.was = since
    BY <2>1
  <2>8. DigestSendsSafe'
    BY <2>2, <2>7 DEF DigestSendsSafe
  <2> QED
    BY <2>6, <2>8 DEF DigestSendInv
<1>13. CASE UNCHANGED sendVars
  <2>1. UNCHANGED <<pinned, member, granted, sources, scopeMoves, building, since, sent>>
    BY <1>13 DEF sendVars
  <2>2. LookedAgain' /\ (SummaryRead' => SummaryRead)
    BY <2>1 DEF DigestSendInv, LookedAgain, SummaryRead
  <2> QED
    BY <2>1, <2>2, <1>g, <1>t
<1> QED
  BY <1>1, <1>2, <1>3, <1>4, <1>5, <1>6, <1>7, <1>8, <1>9, <1>10, <1>11, <1>12, <1>13 DEF DigestSendNext

\* What is sent is of what was pinned, granted and chosen at some moment after the summary was read
\* (webhook-worker.ts enrichDigest, performDelivery; digest.ts).
THEOREM DigestSendsAreSafe == DigestSendSpec => [](DigestSendTypeOK /\ DigestSendsSafe)
<1>1. DigestSendSpec => []DigestSendInv
  BY DigestSendStart, DigestSendStep, PTL DEF DigestSendSpec
<1>2. DigestSendInv => DigestSendTypeOK /\ DigestSendsSafe
  BY DEF DigestSendInv
<1> QED
  BY <1>1, <1>2, PTL

-----------------------------------------------------------------------------
(* The activity of a period (PulsePages). *)

\* What the page, its requests and its board may be.
HistoryRec ==
  [rows : Seq(Past), of : SUBSET (SUBSET InRepos), base : SUBSET Past, next : Position,
   first : Position, loaded : BOOLEAN, loading : BOOLEAN, failed : BOOLEAN]
PageRec == [is : {"page"}, rows : Seq(Past), next : Position, base : SUBSET Past]
AskRec == [at : {"timer", "sent", "read", "answer"}, cursor : Position,
           scope : SUBSET InRepos, page : Rows, key : BoardKey, news : Nat]
BoardRec == [key : BoardKey, asked : BoardKey, data : {NoPage} \cup [key : BoardKey, news : Nat]]

\* Rows in order.
NewestFirst(rows) == \A i, j \in DOMAIN rows : i < j => NewerThan(rows[i], rows[j])

\* An event is among the rows, or comes after the position at their end.
Reaches(rows, next, e) ==
  \/ \E i \in DOMAIN rows : rows[i] = e
  \/ next # NoPosition /\ NewerThan(next.after, e)

\* A position is that of the last row.
EndsAt(rows, next) == next # NoPosition => Len(rows) > 0 /\ next.after = rows[Len(rows)]

\* A page of what some repositories hold, from a cursor on.
PageIs(page, some, cursor) ==
  /\ NewestFirst(page.rows) /\ EndsAt(page.rows, page.next)
  /\ page.base \subseteq onFile
  /\ page.next # NoPosition => page.next.binding = some
  /\ cursor # NoPosition =>
       /\ cursor.binding = some
       /\ \A i \in DOMAIN page.rows : NewerThan(cursor.after, page.rows[i])
  /\ \A e \in page.base :
       PastIn[e] \in some /\ (cursor # NoPosition => NewerThan(cursor.after, e))
         => Reaches(page.rows, page.next, e)

\* A request that has read a page holds one of its scope, from its cursor on.
PageOK(ask) == ask.page # NoPage => ask.at = "answer" /\ PageIs(ask.page, ask.scope, ask.cursor)

\* The rows on show: in order, of one scope, none missed as far as they go.
HistoryOK ==
  /\ NewestFirst(history.rows) /\ EndsAt(history.rows, history.next)
  /\ history.base \subseteq onFile
  /\ history.of = {} \/ \E S \in SUBSET InRepos : history.of = {S}
  /\ history.next # NoPosition => history.of = {history.next.binding}
  /\ \A S \in history.of : \A e \in history.base :
       PastIn[e] \in S => Reaches(history.rows, history.next, e)
  /\ history.next # NoPosition /\ ~history.loading /\ ~history.failed => history.loaded
  /\ history.loaded /\ ~history.failed =>
       /\ history.first = NoPosition => history.next = NoPosition
       /\ history.first # NoPosition => history.of = {history.first.binding}

\* A load goes on from the end of the rows, or begins when they are not shown.
LoadOK ==
  asks["load"] # NoAsk =>
    /\ asks["load"].cursor = NoPosition => ~history.loaded /\ asks["check"] = NoAsk
    /\ asks["load"].cursor # NoPosition =>
         /\ history.loaded /\ ~history.failed /\ history.loading
         /\ history.next = asks["load"].cursor /\ history.first # NoPosition
         /\ asks["load"].page # NoPage => history.base \subseteq asks["load"].page.base
    /\ PageOK(asks["load"])

\* A check asks for the rows from the first page's position.
CheckOK ==
  asks["check"] # NoAsk =>
    /\ history.loaded /\ asks["check"].cursor = history.first
    /\ PageOK(asks["check"])

\* The board's request is of its key and of the newest revision.
BoardOK ==
  /\ board.asked = board.key
  /\ asks["board"] # NoAsk =>
       /\ asks["board"].key = board.key /\ asks["board"].page = NoPage
       /\ AsksAgain => asks["board"].news = news
  /\ board.data # NoPage =>
       /\ board.data.key = board.key
       /\ asks["board"] = NoAsk /\ AsksAgain => board.data.news = news

\* What was confirmed may be read.
ConfirmedOK == \A c \in confirmed : c[1] = {c[2]}

\* The inductive invariant.
PulseInv ==
  PulseTypeOK /\ board \in BoardRec /\ HistoryOK /\ LoadOK /\ CheckOK /\ BoardOK /\ ConfirmedOK

\* What the constants of Pulse are.
LEMMA PulseConstants ==
  /\ Past \subseteq Nat /\ IsFiniteSet(Past) /\ PastAt \in [Past -> Nat]
  /\ PageSize \in Nat \ {0} /\ MaxMoves \in Nat /\ LongAgo \subseteq BoardKey
BY PulseAssumption

\* No page, request or position is none.
LEMMA NoPageApart ==
  /\ NoPage \notin PageRec /\ NoAsk \notin AskRec /\ NoPosition \notin [after : Past, binding : SUBSET InRepos]
  /\ NoPage \in Rows /\ NoPosition \in Position /\ PageRec \subseteq Rows
  /\ NoPage.is = "none" /\ NoAsk.at = "none"
  /\ \A page \in Rows : page # NoPage => page \in PageRec
  /\ \A key : [key |-> key, news |-> news] # NoPage
BY DEF NoPage, NoAsk, NoPosition, PageRec, AskRec, Rows, Position

\* Newer than a newer event is newer.
LEMMA NewerTransitive ==
  ASSUME NEW e \in Past, NEW f \in Past, NEW g \in Past, NewerThan(e, f), NewerThan(f, g)
  PROVE  NewerThan(e, g)
<1>1. PICK a \in Nat, b \in Nat, c \in Nat : a = PastAt[e] /\ b = PastAt[f] /\ c = PastAt[g]
  BY PulseConstants
<1>2. e \in Nat /\ f \in Nat /\ g \in Nat
  BY PulseConstants
<1> QED
  BY <1>1, <1>2 DEF NewerThan

\* The first elements of a sequence.
LEMMA FirstOnes ==
  ASSUME NEW S, NEW s \in Seq(S), NEW n \in 0 .. Len(s)
  PROVE  /\ SubSeq(s, 1, n) \in Seq(S) /\ Len(SubSeq(s, 1, n)) = n
         /\ \A i \in 1 .. n : SubSeq(s, 1, n)[i] = s[i]
OBVIOUS

\* The elements of one sequence after another.
LEMMA OneAfterOther ==
  ASSUME NEW S, NEW s \in Seq(S), NEW t \in Seq(S)
  PROVE  /\ s \o t \in Seq(S) /\ Len(s \o t) = Len(s) + Len(t)
         /\ \A i \in 1 .. Len(s) : (s \o t)[i] = s[i]
         /\ \A i \in 1 .. Len(t) : (s \o t)[Len(s) + i] = t[i]
         /\ \A i \in 1 .. (Len(s) + Len(t)) :
              i <= Len(s) \/ (i - Len(s) \in 1 .. Len(t) /\ (s \o t)[i] = t[i - Len(s)])
OBVIOUS

\* A page that the store answers is in order, ends at its position, and goes on from its cursor.
LEMMA PageOfIs ==
  ASSUME NEW some \in SUBSET InRepos, NEW cursor \in Position, onFile \in SUBSET Past,
         CursorFits(cursor, some), NEW all \in Listings(Rest(some, cursor))
  PROVE  /\ PageOf(all, some) \in PageRec /\ PageOf(all, some).base = onFile
         /\ PageIs(PageOf(all, some), some, cursor)
<1> DEFINE rest == Rest(some, cursor)
<1>1. rest \in SUBSET onFile /\ IsFiniteSet(rest) /\ Cardinality(rest) \in Nat
  <2>1. rest \in SUBSET onFile /\ rest \subseteq Past
    BY DEF Rest
  <2> QED
    BY <2>1, PulseConstants, SubsetAtMost
<1>2. PICK n \in Nat : n = Cardinality(rest)
  BY <1>1
<1>3. all \in [1 .. n -> rest] /\ (\A e \in rest : \E i \in DOMAIN all : all[i] = e)
      /\ \A i, j \in DOMAIN all : i < j => NewerThan(all[i], all[j])
  BY <1>2 DEF Listings
<1>4. all \in Seq(Past) /\ Len(all) = n /\ DOMAIN all = 1 .. n
  BY <1>1, <1>3
<1>5. PICK m \in 0 .. n : m = (IF Len(all) > PageSize THEN PageSize ELSE Len(all))
  BY <1>4, PulseConstants
<1>6. PICK rows \in Seq(Past) : rows = SubSeq(all, 1, m) /\ Len(rows) = m /\ \A i \in 1 .. m : rows[i] = all[i]
  <2>1. m \in 0 .. Len(all)
    BY <1>4
  <2>2. /\ SubSeq(all, 1, m) \in Seq(Past) /\ Len(SubSeq(all, 1, m)) = m
        /\ \A i \in 1 .. m : SubSeq(all, 1, m)[i] = all[i]
    BY <1>4, <2>1, FirstOnes
  <2> QED
    BY <2>2
<1>7. DOMAIN rows = 1 .. m /\ \A i \in 1 .. m : i \in DOMAIN all /\ i \in Nat
  BY <1>4, <1>6
<1>8. n > PageSize => m = PageSize /\ PageSize \in 1 .. m /\ rows[PageSize] \in Past
  BY <1>4, <1>5, <1>6, <1>7, PulseConstants
<1>9. PICK next \in Position : next = (IF Len(all) > PageSize
               THEN [after |-> rows[PageSize], binding |-> some] ELSE NoPosition)
  BY <1>4, <1>8 DEF Position
<1>10. PICK page \in PageRec : page = [is |-> "page", rows |-> rows, base |-> onFile, next |-> next]
  BY DEF PageRec
<1>11. PageOf(all, some) = page
  BY <1>5, <1>6, <1>9, <1>10 DEF PageOf
<1>12. page.rows = rows /\ page.base = onFile /\ page.next = next
  BY <1>10
<1>13. next # NoPosition => n > PageSize /\ next.after = rows[PageSize] /\ next.binding = some
  BY <1>4, <1>9
<1>14. NewestFirst(rows)
  BY <1>3, <1>6, <1>7 DEF NewestFirst
<1>15. EndsAt(rows, next)
  BY <1>6, <1>8, <1>13, PulseConstants DEF EndsAt
<1>16. n > PageSize => next # NoPosition
  BY <1>4, <1>9 DEF NoPosition
<1>17. ASSUME NEW e \in rest PROVE Reaches(rows, next, e)
  <2>1. PICK i \in 1 .. n : all[i] = e
    BY <1>3, <1>4
  <2>2. CASE i <= m
    <3>1. i \in 1 .. m /\ i \in DOMAIN rows
      BY <1>7, <2>2
    <3>2. rows[i] = e
      BY <1>6, <2>1, <3>1
    <3> QED
      BY <3>1, <3>2 DEF Reaches
  <2>3. CASE ~(i <= m)
    <3>1. n > PageSize /\ PageSize < i /\ PageSize \in DOMAIN all /\ i \in DOMAIN all
      BY <1>4, <1>5, <2>3, PulseConstants
    <3>2. NewerThan(all[PageSize], e)
      BY <1>3, <2>1, <3>1
    <3> QED
      BY <1>6, <1>8, <1>13, <1>16, <3>1, <3>2 DEF Reaches
  <2> QED
    BY <2>2, <2>3
<1>18. \A i \in DOMAIN rows : cursor # NoPosition => NewerThan(cursor.after, rows[i])
  BY <1>3, <1>6, <1>7 DEF Rest, PastCursor
<1>19. \A e \in onFile : PastIn[e] \in some /\ (cursor # NoPosition => NewerThan(cursor.after, e)) => e \in rest
  BY DEF Rest, PastCursor
<1> QED
  BY <1>10, <1>11, <1>12, <1>13, <1>14, <1>15, <1>17, <1>18, <1>19 DEF PageIs, CursorFits

\* A page forgets one event of its base.
LEMMA ForgetFacts ==
  ASSUME NEW page \in Rows, NEW e
  PROVE  /\ Forget(page, e) \in Rows /\ (Forget(page, e) = NoPage <=> page = NoPage)
         /\ page # NoPage => /\ Forget(page, e).rows = page.rows /\ Forget(page, e).next = page.next
                             /\ Forget(page, e).base = page.base \ {e}
<1>1. CASE page = NoPage
  BY <1>1, NoPageApart DEF Forget
<1>2. CASE page # NoPage
  <2>1. page \in PageRec /\ page.is = "page"
    BY <1>2, NoPageApart DEF PageRec
  <2>2. PICK left \in SUBSET Past : left = page.base \ {e}
    BY <2>1 DEF PageRec
  <2>3. PICK next \in PageRec : next = [page EXCEPT !.base = left]
    BY <2>1 DEF PageRec
  <2>4. Forget(page, e) = next
    BY <2>1, <2>2, <2>3 DEF Forget, PageRec
  <2>5. next.rows = page.rows /\ next.next = page.next /\ next.base = left
    BY <2>1, <2>3 DEF PageRec
  <2> QED
    BY <1>2, <2>2, <2>4, <2>5, NoPageApart
<1> QED
  BY <1>1, <1>2

\* A request that is sent.
LEMMA AskIs ==
  ASSUME NEW cursor \in Position, board.key \in BoardKey, news \in Nat
  PROVE  /\ Ask(cursor) \in AskRec /\ Ask(cursor).cursor = cursor /\ Ask(cursor).page = NoPage
         /\ Ask(cursor).at = "sent" /\ Ask(cursor).news = news /\ Ask(cursor).key = board.key
<1>1. Ask(cursor) \in AskRec
  BY NoPageApart DEF Ask, AskRec
<1> QED
  BY <1>1 DEF Ask

\* A request of the board, that waits first.
LEMMA BoardAskIs ==
  ASSUME NEW key \in BoardKey, board.key \in BoardKey, news \in Nat
  PROVE  /\ BoardAsk(key) \in AskRec /\ BoardAsk(key).key = key /\ BoardAsk(key).news = news
         /\ BoardAsk(key).page = NoPage
<1>1. NoPosition \in Position
  BY NoPageApart
<1>2. PICK ask \in AskRec : ask = Ask(NoPosition) /\ ask.news = news /\ ask.page = NoPage
  BY <1>1, AskIs
<1>3. PICK next \in AskRec : next = [ask EXCEPT !.at = "timer", !.key = key]
  BY DEF AskRec
<1>4. BoardAsk(key) = next
  BY <1>2, <1>3 DEF BoardAsk
<1>5. next.key = key /\ next.news = news /\ next.page = NoPage
  BY <1>2, <1>3 DEF AskRec
<1> QED
  BY <1>4, <1>5

\* The invariant has the types and the promises of Pulse.
LEMMA PulseInvSafe == PulseInv => PulseTypeOK /\ PulseSafe
<1> SUFFICES ASSUME PulseInv PROVE PulseTypeOK /\ PulseSafe
  OBVIOUS
<1>1. Cardinality(history.of) <= 1
  <2>1. Cardinality(history.of) = 0 \/ Cardinality(history.of) = 1
    BY FS_EmptySet, FS_Singleton DEF PulseInv, HistoryOK
  <2> QED
    BY <2>1
<1>2. \A S \in history.of : \A e \in history.base :
       PastIn[e] \in S =>
         \/ \E i \in DOMAIN history.rows : history.rows[i] = e
         \/ history.next # NoPosition /\ NewerThan(history.next.after, e)
  BY DEF PulseInv, HistoryOK, Reaches
<1>3. \A i, j \in DOMAIN history.rows : i < j => NewerThan(history.rows[i], history.rows[j])
  BY DEF PulseInv, HistoryOK, NewestFirst
<1>4. board.asked = board.key /\ board.data # NoPage =>
       /\ board.data.key = board.key
       /\ asks["board"] = NoAsk /\ AsksAgain => board.data.news = news
  BY DEF PulseInv, BoardOK
<1> QED
  BY <1>1, <1>2, <1>3, <1>4 DEF PulseInv, ConfirmedOK, PulseSafe

\* Nothing has been read at first.
LEMMA PulseStart == PulseInit => PulseInv
<1> SUFFICES ASSUME PulseInit PROVE PulseInv
  OBVIOUS
<1>1. onFile \subseteq Past /\ mayRead \subseteq InRepos /\ moves \in 0 .. MaxMoves /\ news \in 0 .. MaxMoves /\ news \in Nat
      /\ view \in {"history", "overview", "dashboard"} /\ confirmed = {}
  BY PulseConstants DEF PulseInit
<1>2. PICK h \in HistoryRec :
        h = [rows |-> <<>>, of |-> {}, base |-> {}, next |-> NoPosition,
             first |-> NoPosition, loaded |-> FALSE, loading |-> view = "history", failed |-> FALSE]
  <2>1. (view = "history") \in BOOLEAN
    BY <1>1
  <2>2. <<>> \in Seq(Past) /\ NoPosition \in Position
    BY NoPageApart
  <2> QED
    BY <2>1, <2>2 DEF HistoryRec
<1>3. history = h
  BY <1>2 DEF PulseInit
<1>4. h.rows = <<>> /\ h.of = {} /\ h.base = {} /\ h.next = NoPosition /\ h.first = NoPosition /\ h.loaded = FALSE
  BY <1>2
<1>5. PICK k \in BoardKey : board = [key |-> k, asked |-> k, data |-> NoPage]
  BY DEF PulseInit
<1>6. PICK b \in BoardRec : b = [key |-> k, asked |-> k, data |-> NoPage]
  BY DEF BoardRec
<1>7. board = b /\ b.key = k /\ b.asked = k /\ b.data = NoPage
  BY <1>5, <1>6
<1>8. PICK first \in AskRec : first = Ask(NoPosition) /\ first.cursor = NoPosition /\ first.page = NoPage
  BY <1>1, <1>7, NoPageApart, AskIs
<1>9. PICK second \in AskRec : second = BoardAsk(board.key) /\ second.key = board.key /\ second.news = news
                                   /\ second.page = NoPage
  BY <1>1, <1>7, BoardAskIs
<1>10. asks = [a \in {"load", "check", "board"} |->
               IF view = "history"
               THEN IF a = "load" THEN first ELSE NoAsk
               ELSE IF a = "board" THEN second ELSE NoAsk]
  BY <1>8, <1>9 DEF PulseInit
<1>11. asks \in [{"load", "check", "board"} -> {NoAsk} \cup AskRec]
  BY <1>10
<1>12. asks["load"] \in {NoAsk, first} /\ asks["check"] = NoAsk /\ asks["board"] \in {NoAsk, second}
  BY <1>10
<1>13. PulseTypeOK
  BY <1>1, <1>3, <1>7, <1>11 DEF PulseTypeOK, HistoryRec, AskRec, Asks
<1>14. HistoryOK
  BY <1>3, <1>4 DEF HistoryOK, NewestFirst, EndsAt
<1>15. LoadOK /\ CheckOK
  BY <1>3, <1>4, <1>8, <1>12 DEF LoadOK, CheckOK, PageOK
<1>16. BoardOK
  BY <1>7, <1>9, <1>12 DEF BoardOK
<1> QED
  BY <1>1, <1>7, <1>13, <1>14, <1>15, <1>16 DEF PulseInv, ConfirmedOK

\* Every step of the events, of the routes and of the page.
LEMMA PulseStep == PulseInv /\ [PulseNext]_pulseVars => PulseInv'
<1> SUFFICES ASSUME PulseInv, [PulseNext]_pulseVars PROVE PulseInv'
  OBVIOUS
<1>n. MaxMoves \in Nat
  BY PulseConstants
<1>t. /\ onFile \subseteq Past /\ mayRead \subseteq InRepos /\ moves \in 0 .. MaxMoves /\ news \in 0 .. MaxMoves
      /\ history \in HistoryRec /\ view \in {"history", "overview", "dashboard"} /\ board \in BoardRec
      /\ asks \in [{"load", "check", "board"} -> {NoAsk} \cup AskRec]
      /\ confirmed \subseteq (SUBSET (SUBSET InRepos)) \X (SUBSET InRepos)
  BY DEF PulseInv, PulseTypeOK, HistoryRec, AskRec, Asks
<1>k. ASSUME onFile' \subseteq Past, mayRead' \subseteq InRepos, moves' \in 0 .. MaxMoves, news' \in 0 .. MaxMoves,
             history' \in HistoryRec, view' \in {"history", "overview", "dashboard"}, board' \in BoardRec,
             asks' \in [{"load", "check", "board"} -> {NoAsk} \cup AskRec],
             confirmed' \subseteq (SUBSET (SUBSET InRepos)) \X (SUBSET InRepos)
      PROVE  PulseTypeOK' /\ board' \in BoardRec
  <2>1. board'.key \in BoardKey /\ board'.asked \in BoardKey /\ (board'.data = NoPage \/ board'.data \in [key : BoardKey, news : Nat])
    BY <1>k DEF BoardRec
  <2> QED
    BY <1>k, <2>1 DEF PulseTypeOK, HistoryRec, AskRec, Asks
<1>d. DOMAIN asks = {"load", "check", "board"} /\ news \in Nat /\ board.key \in BoardKey
  BY <1>t, <1>n DEF BoardRec
<1>a. \A a \in {"load", "check", "board"} : asks[a] # NoAsk => asks[a] \in AskRec
  BY <1>t
<1>m. PulseMove => moves' \in 0 .. MaxMoves
  BY <1>t, <1>n DEF PulseMove
<1>p. ASSUME onFile' \in SUBSET Past, onFile \subseteq onFile', NEW page, NEW some, NEW cursor, PageIs(page, some, cursor)
      PROVE  PageIs(page, some, cursor)'
  BY <1>p DEF PageIs, NewestFirst, EndsAt, Reaches, NewerThan
<1>o. ASSUME onFile' \in SUBSET Past, onFile \subseteq onFile', UNCHANGED <<history, asks>>
      PROVE  HistoryOK' /\ LoadOK' /\ CheckOK'
  <2>1. \A a \in {"load", "check", "board"} : PageOK(asks[a]) => PageOK(asks[a])'
    BY <1>o, <1>p DEF PageOK
  <2>2. HistoryOK'
    BY <1>o DEF PulseInv, HistoryOK
  <2>3. LoadOK'
    BY <1>o, <2>1 DEF PulseInv, LoadOK
  <2>4. CheckOK'
    BY <1>o, <2>1 DEF PulseInv, CheckOK
  <2> QED
    BY <2>2, <2>3, <2>4
<1>b. ASSUME UNCHANGED <<board, view, news>>, asks'["board"] = asks["board"]
      PROVE  BoardOK'
  BY <1>b DEF PulseInv, BoardOK, AsksAgain
<1>c. ASSUME confirmed' = confirmed PROVE ConfirmedOK'
  BY <1>c DEF PulseInv, ConfirmedOK
<1>1. ASSUME NEW e \in Past, FileEvent(e) PROVE PulseInv'
  <2>1. PulseMove /\ onFile' = onFile \cup {e} /\ UNCHANGED <<mayRead, news, history, view, board, asks, confirmed>>
    BY <1>1 DEF FileEvent
  <2>2. onFile' \in SUBSET Past /\ onFile \subseteq onFile'
    BY <2>1, <1>t
  <2>3. PulseTypeOK' /\ board' \in BoardRec
    BY <2>1, <2>2, <1>m, <1>t, <1>k
  <2>4. HistoryOK' /\ LoadOK' /\ CheckOK'
    BY <2>1, <2>2, <1>o
  <2>5. BoardOK' /\ ConfirmedOK'
    BY <2>1, <1>b, <1>c
  <2> QED
    BY <2>3, <2>4, <2>5 DEF PulseInv
<1>2. ASSUME NEW e \in Past, DropEvent(e) PROVE PulseInv'
  <2>1. /\ PulseMove /\ onFile' = onFile \ {e} /\ history' = [history EXCEPT !.base = @ \ {e}]
        /\ asks' = [a \in {"load", "check", "board"} |-> IF asks[a] = NoAsk THEN NoAsk
                                    ELSE [asks[a] EXCEPT !.page = Forget(@, e)]]
        /\ UNCHANGED <<mayRead, news, view, board, confirmed>>
    BY <1>2, <1>d DEF DropEvent
  <2>2. PICK left \in SUBSET Past : left = history.base \ {e}
    BY <1>t DEF HistoryRec
  <2>3. PICK h \in HistoryRec : h = [history EXCEPT !.base = left]
    BY <1>t DEF HistoryRec
  <2>4. history' = h
    BY <2>1, <2>2, <2>3
  <2>5. /\ h.rows = history.rows /\ h.of = history.of /\ h.base = left /\ h.next = history.next /\ h.first = history.first
        /\ h.loaded = history.loaded /\ h.loading = history.loading /\ h.failed = history.failed
    BY <2>3, <1>t DEF HistoryRec
  <2>6. HistoryOK'
    <3>1. h.base \subseteq history.base /\ h.base \subseteq onFile'
      BY <2>1, <2>2, <2>5 DEF PulseInv, HistoryOK
    <3>2. NewestFirst(h.rows) /\ EndsAt(h.rows, h.next)
      BY <2>5 DEF PulseInv, HistoryOK
    <3>3. \A S \in h.of : \A f \in h.base : PastIn[f] \in S => Reaches(h.rows, h.next, f)
      BY <2>5, <3>1 DEF PulseInv, HistoryOK
    <3>4. h.next # NoPosition => h.of = {h.next.binding}
      BY <2>5 DEF PulseInv, HistoryOK
    <3> QED
      BY <2>4, <2>5, <3>1, <3>2, <3>3, <3>4 DEF PulseInv, HistoryOK
  <2>7. ASSUME NEW a \in {"load", "check", "board"}
        PROVE  /\ asks'[a] \in {NoAsk} \cup AskRec /\ (asks'[a] = NoAsk <=> asks[a] = NoAsk)
               /\ asks[a] # NoAsk =>
                    /\ asks'[a].cursor = asks[a].cursor /\ asks'[a].key = asks[a].key /\ asks'[a].news = asks[a].news
                    /\ asks'[a].page = NoPage <=> asks[a].page = NoPage
                    /\ asks[a].page # NoPage => asks'[a].page.base = asks[a].page.base \ {e}
                    /\ PageOK(asks[a]) => PageOK(asks[a])'
    <3>1. CASE asks[a] = NoAsk
      BY <2>1, <3>1
    <3>2. CASE asks[a] # NoAsk
      <4>1. PICK old \in AskRec : old = asks[a]
        BY <3>2, <1>a
      <4>2. PICK page \in Rows : page = old.page
        BY DEF AskRec
      <4>3. PICK rest \in Rows : /\ rest = Forget(page, e) /\ (rest = NoPage <=> page = NoPage)
                                 /\ page # NoPage => /\ rest.rows = page.rows /\ rest.next = page.next
                                                     /\ rest.base = page.base \ {e}
        BY ForgetFacts
      <4>4. PICK new \in AskRec : new = [old EXCEPT !.page = rest]
        BY DEF AskRec
      <4>5. /\ new.at = old.at /\ new.cursor = old.cursor /\ new.scope = old.scope /\ new.page = rest
            /\ new.key = old.key /\ new.news = old.news
        BY <4>4 DEF AskRec
      <4>6. asks'[a] = new
        BY <2>1, <3>2, <4>1, <4>2, <4>3, <4>4
      <4>7. PageOK(asks[a]) => PageOK(asks[a])'
        <5> SUFFICES ASSUME page # NoPage, old.at = "answer", PageIs(page, old.scope, old.cursor)
                     PROVE  PageIs(rest, old.scope, old.cursor)'
          BY <4>1, <4>2, <4>3, <4>5, <4>6 DEF PageOK
        <5> QED
          BY <2>1, <4>3 DEF PageIs, NewestFirst, EndsAt, Reaches, NewerThan
      <4> QED
        BY <3>2, <4>1, <4>2, <4>3, <4>5, <4>6, <4>7, NoPageApart
    <3> QED
      BY <3>1, <3>2
  <2>8. asks' \in [{"load", "check", "board"} -> {NoAsk} \cup AskRec]
    BY <2>1, <2>7
  <2>9. onFile' \subseteq Past
    BY <2>1, <1>t
  <2>10. PulseTypeOK' /\ board' \in BoardRec
    BY <2>1, <2>4, <2>8, <2>9, <1>m, <1>t, <1>k
  <2>11. LoadOK'
    <3>1. PICK a : a = "load"
      OBVIOUS
    <3>2. asks[a] # NoAsk => PageOK(asks[a])
      BY <3>1 DEF PulseInv, LoadOK
    <3>3. asks[a] # NoAsk => PageOK(asks[a])'
      BY <2>7, <3>1, <3>2
    <3>4. asks["load"] # NoAsk => PageOK(asks["load"])'
      BY <3>1, <3>3
    <3>5. /\ asks'["load"] = NoAsk <=> asks["load"] = NoAsk
          /\ asks'["check"] = NoAsk <=> asks["check"] = NoAsk
          /\ asks["load"] # NoAsk =>
                    /\ asks'["load"].cursor = asks["load"].cursor
                    /\ asks'["load"].page = NoPage <=> asks["load"].page = NoPage
                    /\ asks["load"].page # NoPage => asks'["load"].page.base = asks["load"].page.base \ {e}
      BY <2>7
    <3> QED
      BY <2>2, <2>4, <2>5, <3>4, <3>5 DEF PulseInv, LoadOK
  <2>12. CheckOK'
    <3>1. PICK a : a = "check"
      OBVIOUS
    <3>2. asks[a] # NoAsk => PageOK(asks[a])
      BY <3>1 DEF PulseInv, CheckOK
    <3>3. asks[a] # NoAsk => PageOK(asks[a])'
      BY <2>7, <3>1, <3>2
    <3>4. asks["check"] # NoAsk => PageOK(asks["check"])'
      BY <3>1, <3>3
    <3>5. /\ asks'["check"] = NoAsk <=> asks["check"] = NoAsk
          /\ asks["check"] # NoAsk => asks'["check"].cursor = asks["check"].cursor
      BY <2>7
    <3> QED
      BY <2>4, <2>5, <3>4, <3>5 DEF PulseInv, CheckOK
  <2>13. BoardOK' /\ ConfirmedOK'
    <3>1. /\ asks'["board"] = NoAsk <=> asks["board"] = NoAsk
          /\ asks["board"] # NoAsk => /\ asks'["board"].key = asks["board"].key /\ asks'["board"].news = asks["board"].news
                                      /\ asks'["board"].page = NoPage <=> asks["board"].page = NoPage
      BY <2>7
    <3> QED
      BY <2>1, <3>1, <1>c DEF PulseInv, BoardOK, AsksAgain
  <2> QED
    BY <2>6, <2>10, <2>11, <2>12, <2>13 DEF PulseInv
<1>3. ASSUME NEW S \in SUBSET InRepos, ReaderScope(S) PROVE PulseInv'
  <2>1. PulseMove /\ mayRead' = S /\ UNCHANGED <<onFile, news, history, view, board, asks, confirmed>>
    BY <1>3 DEF ReaderScope
  <2>2. PulseTypeOK' /\ board' \in BoardRec
    BY <2>1, <1>m, <1>t, <1>k
  <2>3. HistoryOK' /\ LoadOK' /\ CheckOK'
    BY <2>1, <1>o, <1>t
  <2>4. BoardOK' /\ ConfirmedOK'
    BY <2>1, <1>b, <1>c
  <2> QED
    BY <2>2, <2>3, <2>4 DEF PulseInv
\* A request moves on.
<1>g. ASSUME NEW a \in {"load", "check", "board"}, NEW ask \in AskRec, asks[a] # NoAsk, asks' = [asks EXCEPT ![a] = ask],
             UNCHANGED <<onFile, mayRead, moves, news, history, view, board, confirmed>>,
             ask.cursor = asks[a].cursor, ask.key = asks[a].key, ask.news = asks[a].news,
             PageOK(ask), ask.page # NoPage => ask.page.base = onFile, a = "board" => ask.page = NoPage
      PROVE  PulseInv'
  <2>1. /\ asks' \in [{"load", "check", "board"} -> {NoAsk} \cup AskRec] /\ asks'[a] = ask
        /\ \A c \in {"load", "check", "board"} : c # a => asks'[c] = asks[c]
        /\ \A c \in {"load", "check", "board"} : asks'[c] = NoAsk <=> asks[c] = NoAsk
    BY <1>g, <1>t, NoPageApart
  <2>2. PulseTypeOK' /\ board' \in BoardRec
    BY <1>g, <2>1, <1>t, <1>k
  <2>3. onFile' \in SUBSET Past /\ onFile \subseteq onFile'
    BY <1>g, <1>t
  <2>4. \A c \in {"load", "check", "board"} : PageOK(asks'[c]) => PageOK(asks[c])'
    BY <1>g, <2>3, <1>p DEF PageOK, PageIs
  <2>5. HistoryOK'
    BY <1>g DEF PulseInv, HistoryOK
  <2>6. LoadOK'
    <3>1. CASE a = "load"
      <4>1. PageOK(asks["load"])'
        BY <1>g, <2>1, <2>4, <3>1
      <4>2. asks'["load"] = ask /\ (asks'["check"] = NoAsk <=> asks["check"] = NoAsk)
        BY <2>1, <3>1
      <4>3. ask.page # NoPage => history.base \subseteq ask.page.base
        BY <1>g DEF PulseInv, HistoryOK
      <4> QED
        BY <1>g, <3>1, <4>1, <4>2, <4>3 DEF PulseInv, LoadOK
    <3>2. CASE a # "load"
      <4>1. asks'["load"] = asks["load"] /\ (asks'["check"] = NoAsk <=> asks["check"] = NoAsk)
        BY <2>1, <3>2
      <4>2. asks["load"] # NoAsk => PageOK(asks["load"])'
        BY <2>4, <4>1 DEF PulseInv, LoadOK
      <4> QED
        BY <1>g, <4>1, <4>2 DEF PulseInv, LoadOK
    <3> QED
      BY <3>1, <3>2
  <2>7. CheckOK'
    <3>1. CASE a = "check"
      <4>1. PageOK(asks["check"])'
        BY <1>g, <2>1, <2>4, <3>1
      <4> QED
        BY <1>g, <2>1, <3>1, <4>1 DEF PulseInv, CheckOK
    <3>2. CASE a # "check"
      <4>1. asks'["check"] = asks["check"]
        BY <2>1, <3>2
      <4>2. asks["check"] # NoAsk => PageOK(asks["check"])'
        BY <2>4, <4>1 DEF PulseInv, CheckOK
      <4> QED
        BY <1>g, <4>1, <4>2 DEF PulseInv, CheckOK
    <3> QED
      BY <3>1, <3>2
  <2>8. BoardOK' /\ ConfirmedOK'
    <3>1. /\ asks'["board"] = NoAsk <=> asks["board"] = NoAsk
          /\ asks["board"] # NoAsk => /\ asks'["board"].key = asks["board"].key /\ asks'["board"].news = asks["board"].news
                                      /\ asks["board"].page = NoPage => asks'["board"].page = NoPage
      BY <1>g, <2>1
    <3> QED
      BY <1>g, <3>1, <1>c DEF PulseInv, BoardOK, AsksAgain
  <2> QED
    BY <2>2, <2>5, <2>6, <2>7, <2>8 DEF PulseInv
<1>4. ASSUME NEW a \in {"load", "check", "board"}, ReadScopeOf(a) PROVE PulseInv'
  <2>1. /\ asks[a].at = "sent" /\ asks' = [asks EXCEPT ![a].at = "read", ![a].scope = mayRead]
        /\ UNCHANGED <<onFile, mayRead, moves, news, history, view, board, confirmed>>
    BY <1>4 DEF ReadScopeOf
  <2>2. asks[a] # NoAsk /\ asks[a] \in AskRec
    BY <2>1, <1>a, NoPageApart
  <2>3. PICK ask \in AskRec : ask = [asks[a] EXCEPT !.at = "read", !.scope = mayRead]
    BY <2>2, <1>t DEF AskRec
  <2>4. asks' = [asks EXCEPT ![a] = ask]
    BY <2>1, <2>3, <1>t
  <2>5. ask.cursor = asks[a].cursor /\ ask.key = asks[a].key /\ ask.news = asks[a].news /\ ask.page = asks[a].page
    BY <2>2, <2>3 DEF AskRec
  <2>6. asks[a].page = NoPage
    BY <2>1, <2>2 DEF PulseInv, LoadOK, CheckOK, BoardOK, PageOK
  <2> QED
    BY <2>1, <2>2, <2>4, <2>5, <2>6, <1>g DEF PageOK
<1>5. ASSUME NEW a \in {"load", "check", "board"}, ReadRowsOf(a) PROVE PulseInv'
  <2>0. asks[a].at = "read" /\ UNCHANGED <<onFile, mayRead, moves, news, history, view, board, confirmed>>
    BY <1>5 DEF ReadRowsOf
  <2>1. asks[a] # NoAsk /\ asks[a] \in AskRec
    BY <2>0, <1>a, NoPageApart
  <2>2. PICK some \in SUBSET InRepos, cursor \in Position : some = asks[a].scope /\ cursor = asks[a].cursor
    BY <2>1 DEF AskRec
  <2>3. PICK page : /\ asks' = [asks EXCEPT ![a].at = "answer", ![a].page = page]
                    /\ \/ page = NoPage
                       \/ /\ a # "board" /\ CursorFits(cursor, some)
                          /\ \E all \in Listings(Rest(some, cursor)) : page = PageOf(all, some)
    BY <1>5, <2>2 DEF ReadRowsOf
  <2>4. page \in Rows /\ (page # NoPage => page.base = onFile /\ PageIs(page, some, cursor) /\ a # "board")
    <3>1. CASE page = NoPage
      BY <3>1, NoPageApart
    <3>2. CASE page # NoPage
      <4>1. PICK all \in Listings(Rest(some, cursor)) : page = PageOf(all, some)
        BY <2>3, <3>2
      <4>2. CursorFits(cursor, some) /\ a # "board"
        BY <2>3, <3>2
      <4>3. PageOf(all, some) \in PageRec /\ PageOf(all, some).base = onFile /\ PageIs(PageOf(all, some), some, cursor)
        BY <4>2, <1>t, PageOfIs
      <4> QED
        BY <4>1, <4>2, <4>3, NoPageApart
    <3> QED
      BY <3>1, <3>2
  <2>5. PICK ask \in AskRec : ask = [asks[a] EXCEPT !.at = "answer", !.page = page]
    BY <2>1, <2>4 DEF AskRec
  <2>6. asks' = [asks EXCEPT ![a] = ask]
    BY <2>3, <2>5, <1>t
  <2>7. /\ ask.cursor = asks[a].cursor /\ ask.key = asks[a].key /\ ask.news = asks[a].news /\ ask.page = page
        /\ ask.at = "answer" /\ ask.scope = asks[a].scope
    BY <2>1, <2>5 DEF AskRec
  <2>8. PageOK(ask)
    BY <2>2, <2>4, <2>7 DEF PageOK
  <2> QED
    BY <2>0, <2>1, <2>4, <2>6, <2>7, <2>8, <1>g
<1>6. CASE TimerEnds
  <2>1. /\ asks["board"].at = "timer" /\ asks' = [asks EXCEPT !["board"].at = "sent"]
        /\ UNCHANGED <<onFile, mayRead, moves, news, history, view, board, confirmed>>
    BY <1>6 DEF TimerEnds
  <2>2. asks["board"] # NoAsk /\ asks["board"] \in AskRec
    BY <2>1, <1>a, NoPageApart
  <2>3. PICK ask \in AskRec : ask = [asks["board"] EXCEPT !.at = "sent"]
    BY <2>2 DEF AskRec
  <2>4. asks' = [asks EXCEPT !["board"] = ask]
    BY <2>1, <2>3, <1>t
  <2>5. /\ ask.cursor = asks["board"].cursor /\ ask.key = asks["board"].key /\ ask.news = asks["board"].news
        /\ ask.page = asks["board"].page
    BY <2>2, <2>3 DEF AskRec
  <2>6. ask.page = NoPage
    BY <2>2, <2>5 DEF PulseInv, BoardOK
  <2>7. PageOK(ask)
    BY <2>6 DEF PageOK
  <2> QED
    BY <2>1, <2>2, <2>4, <2>5, <2>6, <2>7, <1>g
\* The first page is there.
<1>f. ASSUME NEW h \in HistoryRec, NEW p \in PageRec, NEW some \in SUBSET InRepos, PageIs(p, some, NoPosition),
             h.loaded, history' = FirstPage(h, p, some), onFile' = onFile
      PROVE  /\ history' \in HistoryRec /\ HistoryOK' /\ history'.of = {some} /\ history'.failed = h.failed
             /\ history'.loaded /\ history'.loading = h.loading
  <2>1. PICK rows \in Seq(Past), next \in Position, base \in SUBSET Past : rows = p.rows /\ next = p.next /\ base = p.base
    BY DEF PageRec
  <2>2. PICK of \in SUBSET (SUBSET InRepos) : of = {some}
    OBVIOUS
  <2>3. PICK new \in HistoryRec :
          new = [h EXCEPT !.rows = rows, !.of = of, !.base = base, !.next = next, !.first = next]
    BY DEF HistoryRec
  <2>4. /\ new.rows = rows /\ new.of = of /\ new.base = base /\ new.next = next /\ new.first = next
        /\ new.loaded = h.loaded /\ new.loading = h.loading /\ new.failed = h.failed
    BY <2>3 DEF HistoryRec
  <2>5. history' = new
    BY <1>f, <2>1, <2>2, <2>3 DEF FirstPage
  <2>6. /\ NewestFirst(rows) /\ EndsAt(rows, next) /\ base \subseteq onFile
        /\ next # NoPosition => next.binding = some
        /\ \A e \in base : PastIn[e] \in some => Reaches(rows, next, e)
    BY <1>f, <2>1 DEF PageIs
  <2>7. \A S \in of : \A e \in base : PastIn[e] \in S => Reaches(rows, next, e)
    BY <2>2, <2>6
  <2>8. HistoryOK'
    BY <1>f, <2>2, <2>4, <2>5, <2>6, <2>7 DEF HistoryOK
  <2> QED
    BY <1>f, <2>2, <2>4, <2>5, <2>8
<1>7. CASE LoadAnswered
  <2>1. /\ asks["load"].at = "answer" /\ asks["load"].page # NoPage
        /\ asks' = [asks EXCEPT !["load"] = NoAsk]
        /\ UNCHANGED <<onFile, mayRead, moves, news, view, board, confirmed>>
    BY <1>7 DEF LoadAnswered, Succeeds
  <2>2. asks["load"] # NoAsk
    BY <2>1, NoPageApart
  <2>3. PICK ask \in AskRec : ask = asks["load"]
    BY <2>2, <1>a
  <2>4. PICK p \in PageRec : p = ask.page
    BY <2>1, <2>3, NoPageApart DEF AskRec
  <2>5. PICK some \in SUBSET InRepos, cursor \in Position : some = ask.scope /\ cursor = ask.cursor
    BY DEF AskRec
  <2>6. PageIs(p, some, cursor) /\ ask.page # NoPage
    BY <2>1, <2>2, <2>3, <2>4, <2>5 DEF PulseInv, LoadOK, PageOK
  <2>7. PICK done \in HistoryRec : done = [history EXCEPT !.loaded = TRUE, !.loading = FALSE]
    BY <1>t DEF HistoryRec
  <2>8. /\ done.rows = history.rows /\ done.of = history.of /\ done.base = history.base /\ done.next = history.next
        /\ done.first = history.first /\ done.loaded = TRUE /\ done.loading = FALSE /\ done.failed = history.failed
    BY <2>7, <1>t DEF HistoryRec
  <2>9. history' = (IF cursor = NoPosition THEN FirstPage(done, p, some)
                    ELSE [done EXCEPT !.rows = @ \o p.rows, !.next = p.next, !.of = @ \cup {some}])
    BY <1>7, <2>3, <2>4, <2>5, <2>7 DEF LoadAnswered
  <2>10. /\ asks' \in [{"load", "check", "board"} -> {NoAsk} \cup AskRec] /\ asks'["load"] = NoAsk
         /\ asks'["check"] = asks["check"] /\ asks'["board"] = asks["board"]
    BY <2>1, <1>t
  <2>11. LoadOK' /\ BoardOK' /\ ConfirmedOK'
    BY <2>1, <2>10, <1>b, <1>c DEF LoadOK
  <2>12. CASE cursor = NoPosition
    <3>1. history' \in HistoryRec /\ HistoryOK'
      BY <2>1, <2>6, <2>8, <2>9, <2>12, <1>f
    <3>2. asks["check"] = NoAsk
      BY <2>2, <2>3, <2>5, <2>12 DEF PulseInv, LoadOK
    <3>3. CheckOK'
      BY <2>10, <3>2 DEF CheckOK
    <3>4. PulseTypeOK' /\ board' \in BoardRec
      BY <2>1, <2>10, <3>1, <1>t, <1>k
    <3> QED
      BY <2>11, <3>1, <3>3, <3>4 DEF PulseInv
  <2>13. CASE cursor # NoPosition
    <3>1. /\ history.loaded /\ ~history.failed /\ history.next = cursor /\ history.first # NoPosition
          /\ history.base \subseteq p.base
      BY <2>2, <2>3, <2>4, <2>5, <2>6, <2>13 DEF PulseInv, LoadOK
    <3>2. /\ history.of = {cursor.binding} /\ history.of = {history.first.binding} /\ cursor.binding = some
          /\ Len(history.rows) > 0 /\ cursor.after = history.rows[Len(history.rows)] /\ NewestFirst(history.rows)
      BY <2>6, <2>13, <3>1 DEF PulseInv, HistoryOK, EndsAt, PageIs
    <3>3. PICK rows \in Seq(Past), more \in Seq(Past), next \in Position : rows = history.rows /\ more = p.rows /\ next = p.next
      BY <1>t DEF HistoryRec, PageRec
    <3>4. PICK all \in Seq(Past) :
            /\ all = rows \o more /\ Len(all) = Len(rows) + Len(more)
            /\ \A i \in 1 .. Len(rows) : all[i] = rows[i]
            /\ \A i \in 1 .. Len(more) : all[Len(rows) + i] = more[i]
            /\ \A i \in 1 .. (Len(rows) + Len(more)) :
                 i <= Len(rows) \/ (i - Len(rows) \in 1 .. Len(more) /\ all[i] = more[i - Len(rows)])
      <4>1. /\ rows \o more \in Seq(Past) /\ Len(rows \o more) = Len(rows) + Len(more)
            /\ \A i \in 1 .. Len(rows) : (rows \o more)[i] = rows[i]
            /\ \A i \in 1 .. Len(more) : (rows \o more)[Len(rows) + i] = more[i]
            /\ \A i \in 1 .. (Len(rows) + Len(more)) :
                 i <= Len(rows) \/ (i - Len(rows) \in 1 .. Len(more) /\ (rows \o more)[i] = more[i - Len(rows)])
        <5>1. rows \in Seq(Past) /\ more \in Seq(Past)
          OBVIOUS
        <5> QED
          BY <5>1, OneAfterOther
      <4> QED
        BY <4>1
    <3>5. PICK of \in SUBSET (SUBSET InRepos) : of = {some} /\ of = history.of \cup {some}
      BY <3>2
    <3>6. PICK new \in HistoryRec : new = [done EXCEPT !.rows = all, !.next = next, !.of = of]
      BY DEF HistoryRec
    <3>7. history' = new
      BY <2>8, <2>9, <2>13, <3>3, <3>4, <3>5, <3>6
    <3>8. /\ new.rows = all /\ new.of = of /\ new.base = history.base /\ new.next = next /\ new.first = history.first
          /\ new.loaded = TRUE /\ new.loading = FALSE /\ new.failed = history.failed
      BY <2>8, <3>6 DEF HistoryRec
    <3>9. Len(rows) \in Nat /\ Len(more) \in Nat /\ DOMAIN rows = 1 .. Len(rows) /\ DOMAIN more = 1 .. Len(more)
          /\ DOMAIN all = 1 .. (Len(rows) + Len(more)) /\ Len(rows) > 0 /\ cursor.after = rows[Len(rows)]
      BY <3>2, <3>3, <3>4
    <3>10. /\ \A i \in 1 .. Len(rows) : rows[i] \in Past
           /\ \A i \in 1 .. Len(more) : more[i] \in Past
      BY <3>9
    <3>11. /\ NewestFirst(rows) /\ NewestFirst(more) /\ EndsAt(more, next)
           /\ \A i \in 1 .. Len(more) : NewerThan(rows[Len(rows)], more[i])
      BY <2>6, <2>13, <3>2, <3>3, <3>9 DEF PageIs
    <3>12. NewestFirst(all)
      <4> SUFFICES ASSUME NEW i \in DOMAIN all, NEW j \in DOMAIN all, i < j
                   PROVE  NewerThan(all[i], all[j])
        BY DEF NewestFirst
      <4>0. i \in Nat /\ j \in Nat /\ i >= 1 /\ j >= 1 /\ i <= Len(rows) + Len(more) /\ j <= Len(rows) + Len(more)
        BY <3>9
      <4>1. CASE j <= Len(rows)
        <5>1. i \in DOMAIN rows /\ j \in DOMAIN rows /\ all[i] = rows[i] /\ all[j] = rows[j]
          BY <3>4, <3>9, <4>0, <4>1
        <5> QED
          BY <3>11, <5>1 DEF NewestFirst
      <4>2. CASE i > Len(rows)
        <5>0. i \in 1 .. (Len(rows) + Len(more)) /\ ~(i <= Len(rows)) /\ j \in 1 .. (Len(rows) + Len(more)) /\ ~(j <= Len(rows))
          BY <3>9, <4>0, <4>2
        <5>a. /\ i - Len(rows) \in 1 .. Len(more) /\ all[i] = more[i - Len(rows)]
              /\ j - Len(rows) \in 1 .. Len(more) /\ all[j] = more[j - Len(rows)]
          BY <3>4, <5>0
        <5>1. PICK a \in 1 .. Len(more) : a = i - Len(rows) /\ all[i] = more[a]
          BY <5>a
        <5>2. PICK b \in 1 .. Len(more) : b = j - Len(rows) /\ all[j] = more[b]
          BY <5>a
        <5>3. a < b
          BY <3>9, <4>0, <5>1, <5>2
        <5> QED
          BY <3>9, <3>11, <5>1, <5>2, <5>3 DEF NewestFirst
      <4>3. CASE i <= Len(rows) /\ j > Len(rows)
        <5>0. j \in 1 .. (Len(rows) + Len(more)) /\ ~(j <= Len(rows))
          BY <3>9, <4>0, <4>3
        <5>a. j - Len(rows) \in 1 .. Len(more) /\ all[j] = more[j - Len(rows)]
          BY <3>4, <5>0
        <5>1. PICK b \in 1 .. Len(more) : all[j] = more[b]
          BY <5>a
        <5>2. all[i] = rows[i] /\ i \in 1 .. Len(rows) /\ Len(rows) \in 1 .. Len(rows)
          BY <3>4, <3>9, <4>0, <4>3
        <5>3. NewerThan(rows[Len(rows)], more[b])
          BY <3>11
        <5>4. CASE i = Len(rows)
          BY <5>1, <5>2, <5>3, <5>4
        <5>5. CASE i # Len(rows)
          <6>1. NewerThan(rows[i], rows[Len(rows)])
            BY <3>9, <3>11, <4>0, <4>3, <5>2, <5>5 DEF NewestFirst
          <6> QED
            BY <3>10, <5>1, <5>2, <5>3, <6>1, NewerTransitive
        <5> QED
          BY <5>4, <5>5
      <4> QED
        BY <3>9, <4>0, <4>1, <4>2, <4>3
    <3>13. EndsAt(all, next)
      <4> SUFFICES ASSUME next # NoPosition PROVE Len(all) > 0 /\ next.after = all[Len(all)]
        BY DEF EndsAt
      <4>1. Len(more) > 0 /\ next.after = more[Len(more)]
        BY <3>11 DEF EndsAt
      <4>2. all[Len(rows) + Len(more)] = more[Len(more)]
        BY <3>4, <3>9, <4>1
      <4> QED
        BY <3>4, <3>9, <4>1, <4>2
    <3>14. ASSUME NEW e \in history.base, PastIn[e] \in some
           PROVE  Reaches(all, next, e)
      <4>1. Reaches(rows, cursor, e)
        BY <3>1, <3>2, <3>3, <3>14 DEF PulseInv, HistoryOK
      <4>2. CASE \E i \in DOMAIN rows : rows[i] = e
        <5>1. PICK i \in 1 .. Len(rows) : rows[i] = e
          BY <3>9, <4>2
        <5>2. all[i] = e /\ i \in DOMAIN all
          BY <3>4, <3>9, <5>1
        <5> QED
          BY <5>2 DEF Reaches
      <4>3. CASE NewerThan(cursor.after, e)
        <5>1. Reaches(more, next, e)
          BY <2>6, <3>1, <3>3, <3>14, <4>3 DEF PageIs
        <5>2. ASSUME NEW i \in DOMAIN more, more[i] = e PROVE Reaches(all, next, e)
          <6>1. all[Len(rows) + i] = e /\ Len(rows) + i \in DOMAIN all
            BY <3>4, <3>9, <5>2
          <6> QED
            BY <6>1 DEF Reaches
        <5> QED
          BY <5>1, <5>2 DEF Reaches
      <4> QED
        BY <4>1, <4>2, <4>3 DEF Reaches
    <3>15. next # NoPosition => next.binding = some
      BY <2>6, <3>3 DEF PageIs
    <3>16. \A S \in of : \A e \in history.base : PastIn[e] \in S => Reaches(all, next, e)
      BY <3>5, <3>14
    <3>17. history.base \subseteq onFile'
      BY <2>1 DEF PulseInv, HistoryOK
    <3>18. HistoryOK'
      BY <3>1, <3>2, <3>5, <3>7, <3>8, <3>12, <3>13, <3>15, <3>16, <3>17 DEF HistoryOK
    <3>19. asks["check"] # NoAsk => PageOK(asks["check"])'
      BY <2>1, <2>10 DEF PulseInv, CheckOK, PageOK, PageIs
    <3>20. CheckOK'
      BY <2>10, <3>7, <3>8, <3>19 DEF PulseInv, CheckOK
    <3>21. PulseTypeOK' /\ board' \in BoardRec
      BY <2>1, <2>10, <3>7, <1>t, <1>k
    <3> QED
      BY <2>11, <3>18, <3>20, <3>21 DEF PulseInv
  <2> QED
    BY <2>12, <2>13
\* A load or a check has failed: the rows go.
<1>h. ASSUME history' = Cleared(history), onFile' = onFile
      PROVE  /\ history' \in HistoryRec /\ HistoryOK'
             /\ history'.first = history.first /\ history'.loaded = history.loaded /\ history'.failed
  <2>1. <<>> \in Seq(Past) /\ NoPosition \in Position
    BY NoPageApart
  <2>2. PICK new \in HistoryRec :
          new = [history EXCEPT !.rows = <<>>, !.of = {}, !.base = {}, !.next = NoPosition, !.loading = FALSE,
                                !.failed = TRUE]
    BY <2>1, <1>t DEF HistoryRec
  <2>3. /\ new.rows = <<>> /\ new.of = {} /\ new.base = {} /\ new.next = NoPosition /\ new.failed = TRUE
        /\ new.first = history.first /\ new.loaded = history.loaded
    BY <2>2, <1>t DEF HistoryRec
  <2>4. history' = new
    BY <1>h, <2>2 DEF Cleared
  <2>5. HistoryOK'
    BY <2>3, <2>4 DEF HistoryOK, NewestFirst, EndsAt
  <2> QED
    BY <2>3, <2>4, <2>5
<1>i. ASSUME onFile' = onFile, asks'["check"] = NoAsk \/ (asks'["check"] = asks["check"] /\ history'.first = history.first /\ history'.loaded = history.loaded)
      PROVE  CheckOK'
  <2>1. CASE asks'["check"] = NoAsk
    BY <2>1 DEF CheckOK
  <2>2. CASE asks'["check"] = asks["check"] /\ history'.first = history.first /\ history'.loaded = history.loaded
    <3>1. asks["check"] # NoAsk => PageOK(asks["check"])'
      BY <1>i, <2>2 DEF PulseInv, CheckOK, PageOK, PageIs
    <3> QED
      BY <2>2, <3>1 DEF PulseInv, CheckOK
  <2> QED
    BY <1>i, <2>1, <2>2
<1>8. CASE LoadFails
  <2>1. history' = Cleared(history) /\ asks' = [asks EXCEPT !["load"] = NoAsk]
        /\ UNCHANGED <<onFile, mayRead, moves, news, view, board, confirmed>>
    BY <1>8 DEF LoadFails
  <2>2. /\ asks' \in [{"load", "check", "board"} -> {NoAsk} \cup AskRec] /\ asks'["load"] = NoAsk
        /\ asks'["check"] = asks["check"] /\ asks'["board"] = asks["board"]
    BY <2>1, <1>t
  <2>3. /\ history' \in HistoryRec /\ HistoryOK'
        /\ history'.first = history.first /\ history'.loaded = history.loaded
    BY <2>1, <1>h
  <2>4. PulseTypeOK' /\ board' \in BoardRec
    BY <2>1, <2>2, <2>3, <1>t, <1>k
  <2>5. LoadOK' /\ CheckOK' /\ BoardOK' /\ ConfirmedOK'
    BY <2>1, <2>2, <2>3, <1>b, <1>c, <1>i DEF LoadOK
  <2> QED
    BY <2>3, <2>4, <2>5 DEF PulseInv
<1>9. CASE CheckFails
  <2>1. history' = Cleared(history) /\ asks' = [asks EXCEPT !["load"] = NoAsk, !["check"] = NoAsk]
        /\ UNCHANGED <<onFile, mayRead, moves, news, view, board, confirmed>>
    BY <1>9 DEF CheckFails
  <2>2. /\ asks' \in [{"load", "check", "board"} -> {NoAsk} \cup AskRec] /\ asks'["load"] = NoAsk
        /\ asks'["check"] = NoAsk /\ asks'["board"] = asks["board"]
    BY <2>1, <1>t
  <2>3. history' \in HistoryRec /\ HistoryOK'
    BY <2>1, <1>h
  <2>4. PulseTypeOK' /\ board' \in BoardRec
    BY <2>1, <2>2, <2>3, <1>t, <1>k
  <2>5. LoadOK' /\ CheckOK' /\ BoardOK' /\ ConfirmedOK'
    BY <2>1, <2>2, <1>b, <1>c, <1>i DEF LoadOK
  <2> QED
    BY <2>3, <2>4, <2>5 DEF PulseInv
<1>10. CASE LoadMore
  <2>1. /\ history.next # NoPosition /\ ~history.loading /\ ~history.failed
        /\ history' = [history EXCEPT !.loading = TRUE] /\ asks' = [asks EXCEPT !["load"] = Ask(history.next)]
        /\ UNCHANGED <<onFile, mayRead, moves, news, view, board, confirmed>>
    BY <1>10 DEF LoadMore
  <2>2. PICK cursor \in Position : cursor = history.next
    BY <1>t DEF HistoryRec
  <2>3. PICK ask \in AskRec : ask = Ask(cursor) /\ ask.cursor = cursor /\ ask.page = NoPage
    BY <1>d, AskIs
  <2>4. /\ asks' \in [{"load", "check", "board"} -> {NoAsk} \cup AskRec] /\ asks'["load"] = ask
        /\ asks'["check"] = asks["check"] /\ asks'["board"] = asks["board"]
    BY <2>1, <2>2, <2>3, <1>t
  <2>5. PICK new \in HistoryRec : new = [history EXCEPT !.loading = TRUE]
    BY <1>t DEF HistoryRec
  <2>6. /\ new.rows = history.rows /\ new.of = history.of /\ new.base = history.base /\ new.next = history.next
        /\ new.first = history.first /\ new.loaded = history.loaded /\ new.loading = TRUE /\ new.failed = history.failed
    BY <2>5, <1>t DEF HistoryRec
  <2>7. history' = new
    BY <2>1, <2>5
  <2>8. history.loaded /\ history.first # NoPosition
    BY <2>1 DEF PulseInv, HistoryOK
  <2>9. HistoryOK'
    BY <2>1, <2>6, <2>7 DEF PulseInv, HistoryOK
  <2>10. LoadOK'
    BY <2>1, <2>2, <2>3, <2>4, <2>6, <2>7, <2>8 DEF LoadOK, PageOK
  <2>11. CheckOK' /\ BoardOK' /\ ConfirmedOK'
    BY <2>1, <2>4, <2>6, <2>7, <1>b, <1>c, <1>i
  <2>12. PulseTypeOK' /\ board' \in BoardRec
    BY <2>1, <2>4, <2>7, <1>t, <1>k
  <2> QED
    BY <2>9, <2>10, <2>11, <2>12 DEF PulseInv
<1>11. CASE TryAgain
  <2>1. /\ history' = [history EXCEPT !.loaded = FALSE, !.first = NoPosition, !.loading = TRUE, !.failed = FALSE]
        /\ asks' = [asks EXCEPT !["load"] = Ask(NoPosition), !["check"] = NoAsk]
        /\ UNCHANGED <<onFile, mayRead, moves, news, view, board, confirmed>>
    BY <1>11 DEF TryAgain
  <2>2. PICK ask \in AskRec : ask = Ask(NoPosition) /\ ask.cursor = NoPosition /\ ask.page = NoPage
    BY <1>d, AskIs, NoPageApart
  <2>3. /\ asks' \in [{"load", "check", "board"} -> {NoAsk} \cup AskRec] /\ asks'["load"] = ask
        /\ asks'["check"] = NoAsk /\ asks'["board"] = asks["board"]
    BY <2>1, <2>2, <1>t
  <2>4. PICK new \in HistoryRec : new = [history EXCEPT !.loaded = FALSE, !.first = NoPosition, !.loading = TRUE, !.failed = FALSE]
    BY <1>t, NoPageApart DEF HistoryRec
  <2>5. /\ new.rows = history.rows /\ new.of = history.of /\ new.base = history.base /\ new.next = history.next
        /\ new.loaded = FALSE /\ new.loading = TRUE
    BY <2>4, <1>t DEF HistoryRec
  <2>6. history' = new
    BY <2>1, <2>4
  <2>7. HistoryOK'
    BY <2>1, <2>5, <2>6 DEF PulseInv, HistoryOK
  <2>8. LoadOK'
    BY <2>2, <2>3, <2>5, <2>6 DEF LoadOK, PageOK
  <2>9. CheckOK' /\ BoardOK' /\ ConfirmedOK'
    BY <2>1, <2>3, <1>b, <1>c, <1>i
  <2>10. PulseTypeOK' /\ board' \in BoardRec
    BY <2>1, <2>3, <2>6, <1>t, <1>k
  <2> QED
    BY <2>7, <2>8, <2>9, <2>10 DEF PulseInv
<1>12. CASE CheckAnswered
  <2>1. /\ asks["check"].at = "answer" /\ asks["check"].page # NoPage /\ asks["check"].scope = mayRead
        /\ asks' = [asks EXCEPT !["check"] = NoAsk]
        /\ UNCHANGED <<onFile, mayRead, moves, news, view, board>>
    BY <1>12 DEF CheckAnswered, Succeeds, StillReads
  <2>2. asks["check"] # NoAsk
    BY <2>1, NoPageApart
  <2>3. PICK ask \in AskRec : ask = asks["check"]
    BY <2>2, <1>a
  <2>4. PICK p \in PageRec : p = ask.page
    BY <2>1, <2>3, NoPageApart DEF AskRec
  <2>5. PICK some \in SUBSET InRepos, cursor \in Position : some = ask.scope /\ cursor = ask.cursor /\ some = mayRead
    BY <2>1, <2>3 DEF AskRec
  <2>6. PageIs(p, some, cursor) /\ history.loaded /\ cursor = history.first
    BY <2>1, <2>2, <2>3, <2>4, <2>5 DEF PulseInv, CheckOK, PageOK
  <2>7. /\ asks' \in [{"load", "check", "board"} -> {NoAsk} \cup AskRec] /\ asks'["check"] = NoAsk
        /\ asks'["load"] = asks["load"] /\ asks'["board"] = asks["board"]
    BY <2>1, <1>t
  <2>8. CheckOK' /\ BoardOK'
    BY <2>1, <2>7, <1>b, <1>i
  <2>9. history' = IF cursor = NoPosition THEN FirstPage(history, p, some) ELSE history
    BY <1>12, <2>3, <2>4, <2>5 DEF CheckAnswered
  <2>10. confirmed' = IF history'.failed THEN confirmed ELSE confirmed \cup {<<history'.of, mayRead>>}
    BY <1>12 DEF CheckAnswered
  <2>11. ASSUME history' \in HistoryRec, history'.failed \/ history'.of = {some}
         PROVE  confirmed' \subseteq (SUBSET (SUBSET InRepos)) \X (SUBSET InRepos) /\ ConfirmedOK'
    <3>1. CASE history'.failed
      BY <2>10, <3>1, <1>t, <1>c
    <3>2. CASE ~history'.failed
      <4>1. confirmed' = confirmed \cup {<<{some}, some>>}
        BY <2>5, <2>10, <2>11, <3>2
      <4>2. ConfirmedOK'
        BY <4>1 DEF PulseInv, ConfirmedOK
      <4> QED
        BY <4>1, <4>2, <1>t
    <3> QED
      BY <3>1, <3>2
  <2>12. CASE cursor = NoPosition
    <3>1. /\ history' \in HistoryRec /\ HistoryOK' /\ history'.of = {some} /\ history'.failed = history.failed
          /\ history'.loaded
      BY <2>1, <2>6, <2>9, <2>12, <1>f, <1>t
    <3>2. asks["load"] = NoAsk
      BY <2>2, <2>6, <2>12 DEF PulseInv, LoadOK
    <3>3. LoadOK'
      BY <2>7, <3>2 DEF LoadOK
    <3>4. confirmed' \subseteq (SUBSET (SUBSET InRepos)) \X (SUBSET InRepos) /\ ConfirmedOK'
      BY <2>11, <3>1
    <3>5. PulseTypeOK' /\ board' \in BoardRec
      BY <2>1, <2>7, <3>1, <3>4, <1>t, <1>k
    <3> QED
      BY <2>8, <3>1, <3>3, <3>4, <3>5 DEF PulseInv
  <2>13. CASE cursor # NoPosition
    <3>1. history' = history
      BY <2>9, <2>13
    <3>2. history.failed \/ history.of = {some}
      BY <2>6, <2>13 DEF PulseInv, HistoryOK, PageIs
    <3>3. confirmed' \subseteq (SUBSET (SUBSET InRepos)) \X (SUBSET InRepos) /\ ConfirmedOK'
      BY <2>11, <3>1, <3>2, <1>t
    <3>4. PulseTypeOK' /\ board' \in BoardRec
      BY <2>1, <2>7, <3>1, <3>3, <1>t, <1>k
    <3>5. HistoryOK'
      BY <2>1, <3>1 DEF PulseInv, HistoryOK
    <3>6. asks["load"] # NoAsk => PageOK(asks["load"])'
      BY <2>1, <2>7 DEF PulseInv, LoadOK, PageOK, PageIs
    <3>7. LoadOK'
      BY <2>2, <2>7, <3>1, <3>6 DEF PulseInv, LoadOK
    <3> QED
      BY <2>8, <3>3, <3>4, <3>5, <3>7 DEF PulseInv
  <2> QED
    BY <2>12, <2>13
\* What is asked again: the board's key is the one asked, and data of another key goes.
<1>r. ASSUME NEW key \in BoardKey, board' = Refetching(key)
      PROVE  /\ board' \in BoardRec /\ board'.key = key /\ board'.asked = key
             /\ board'.data = NoPage \/ (view = "dashboard" /\ board.asked = key /\ board'.data = board.data)
  <2>1. PICK data \in {NoPage} \cup [key : BoardKey, news : Nat] :
          data = (IF view = "dashboard" /\ board.asked = key THEN board.data ELSE NoPage)
    BY <1>t DEF BoardRec
  <2>2. PICK new \in BoardRec : new = [board EXCEPT !.key = key, !.asked = key, !.data = data]
    BY <1>t DEF BoardRec
  <2>3. board' = new
    BY <1>r, <2>1, <2>2 DEF Refetching
  <2>4. new.key = key /\ new.asked = key /\ new.data = data
    BY <2>2, <1>t DEF BoardRec
  <2> QED
    BY <2>1, <2>3, <2>4
\* Only the board's request changes.
<1>l. ASSUME onFile' = onFile, history' = history, confirmed' = confirmed, mayRead' = mayRead, moves' \in 0 .. MaxMoves,
             news' = news, view' = view, board' \in BoardRec,
             NEW ask \in {NoAsk} \cup AskRec, asks' = [asks EXCEPT !["board"] = ask], BoardOK'
      PROVE  PulseInv'
  <2>1. /\ asks' \in [{"load", "check", "board"} -> {NoAsk} \cup AskRec] /\ asks'["board"] = ask
        /\ asks'["check"] = asks["check"] /\ asks'["load"] = asks["load"]
    BY <1>l, <1>t
  <2>2. PulseTypeOK' /\ board' \in BoardRec
    BY <1>l, <2>1, <1>t, <1>k
  <2>3. HistoryOK'
    BY <1>l DEF PulseInv, HistoryOK
  <2>4. CheckOK' /\ ConfirmedOK'
    BY <1>l, <2>1, <1>c, <1>i
  <2>5. asks["load"] # NoAsk => PageOK(asks["load"])'
    BY <1>l, <2>1 DEF PulseInv, LoadOK, PageOK, PageIs
  <2>6. LoadOK'
    BY <1>l, <2>1, <2>5 DEF PulseInv, LoadOK
  <2> QED
    BY <1>l, <2>2, <2>3, <2>4, <2>6 DEF PulseInv
<1>13. ASSUME NEW k \in BoardKey, SelectPeriod(k) PROVE PulseInv'
  <2>1. /\ PulseMove /\ k # board.key /\ board' = Refetching(k) /\ asks' = [asks EXCEPT !["board"] = BoardAsk(k)]
        /\ UNCHANGED <<onFile, mayRead, news, history, view, confirmed>>
    BY <1>13 DEF SelectPeriod
  <2>2. /\ board' \in BoardRec /\ board'.key = k /\ board'.asked = k
        /\ board'.data = NoPage \/ (view = "dashboard" /\ board.asked = k /\ board'.data = board.data)
    BY <2>1, <1>r
  <2>3. board'.data = NoPage
    BY <2>1, <2>2 DEF PulseInv, BoardOK
  <2>4. PICK ask \in AskRec : ask = BoardAsk(k) /\ ask.key = k /\ ask.news = news /\ ask.page = NoPage
    BY <1>d, BoardAskIs
  <2>5. asks' = [asks EXCEPT !["board"] = ask] /\ asks'["board"] = ask
    BY <2>1, <2>4, <1>t
  <2>6. BoardOK'
    BY <2>1, <2>2, <2>3, <2>4, <2>5 DEF BoardOK
  <2>7. ask \in {NoAsk} \cup AskRec /\ moves' \in 0 .. MaxMoves
    BY <2>1, <1>m
  <2> QED
    BY <2>1, <2>2, <2>5, <2>6, <2>7, <1>l
<1>14. CASE BoardAnswered
  <2>1. /\ asks' = [asks EXCEPT !["board"] = NoAsk] /\ UNCHANGED <<onFile, mayRead, moves, news, history, view, confirmed>>
    BY <1>14 DEF BoardAnswered
  <2>2. asks["board"].at \in {"sent", "answer"}
    BY <1>14 DEF BoardAnswered, Succeeds, Fails
  <2>3. PICK ask \in AskRec : ask = asks["board"] /\ ask # NoAsk
    BY <2>2, <1>a, NoPageApart
  <2>4. \/ board' = [board EXCEPT !.asked = ask.key, !.data = [key |-> ask.key, news |-> ask.news]]
        \/ board' = [board EXCEPT !.data = NoPage]
    BY <1>14, <2>3 DEF BoardAnswered
  <2>5. ask.key = board.key /\ (AsksAgain => ask.news = news) /\ ask.key \in BoardKey /\ ask.news \in Nat
    BY <2>3 DEF PulseInv, BoardOK, AskRec
  <2>6. asks'["board"] = NoAsk
    BY <2>1, <1>t
  <2>7. CASE board' = [board EXCEPT !.asked = ask.key, !.data = [key |-> ask.key, news |-> ask.news]]
    <3>1. PICK data \in [key : BoardKey, news : Nat] : data = [key |-> ask.key, news |-> ask.news]
      BY <2>5
    <3>2. PICK new \in BoardRec : new = [board EXCEPT !.asked = ask.key, !.data = data]
      BY <2>5, <3>1, <1>t DEF BoardRec
    <3>3. board' = new /\ new.key = board.key /\ new.asked = ask.key /\ new.data = data
      BY <2>7, <3>1, <3>2, <1>t DEF BoardRec
    <3>4. BoardOK'
      BY <2>1, <2>5, <2>6, <3>1, <3>3 DEF BoardOK, AsksAgain
    <3>5. board' \in BoardRec /\ moves' \in 0 .. MaxMoves /\ NoAsk \in {NoAsk} \cup AskRec
      BY <2>1, <3>3, <1>t
    <3> QED
      BY <2>1, <3>4, <3>5, <1>l
  <2>8. CASE board' = [board EXCEPT !.data = NoPage]
    <3>2. PICK new \in BoardRec : new = [board EXCEPT !.data = NoPage]
      BY <1>t DEF BoardRec
    <3>3. board' = new /\ new.key = board.key /\ new.asked = board.asked /\ new.data = NoPage
      BY <2>8, <3>2, <1>t DEF BoardRec
    <3>4. BoardOK'
      BY <2>1, <2>6, <3>3 DEF PulseInv, BoardOK, AsksAgain
    <3>5. board' \in BoardRec /\ moves' \in 0 .. MaxMoves /\ NoAsk \in {NoAsk} \cup AskRec
      BY <2>1, <3>3, <1>t
    <3> QED
      BY <2>1, <3>4, <3>5, <1>l
  <2> QED
    BY <2>4, <2>7, <2>8
<1>15. CASE Revision
  <2>1. /\ news < MaxMoves /\ news' = news + 1 /\ UNCHANGED <<onFile, mayRead, moves, history, view, confirmed>>
        /\ board' = (IF AsksAgain THEN Refetching(board.key) ELSE board)
    BY <1>15 DEF Revision
  <2>2. news' \in 0 .. MaxMoves /\ news' \in Nat
    BY <2>1, <1>t, <1>n
  <2>3. PICK later \in AskRec : later = [BoardAsk(board.key) EXCEPT !.news = news + 1]
                                /\ later.key = board.key /\ later.news = news + 1 /\ later.page = NoPage
    <3>1. PICK ask \in AskRec : ask = BoardAsk(board.key) /\ ask.key = board.key /\ ask.page = NoPage
      BY <1>d, BoardAskIs
    <3>a. PICK more \in Nat : more = news + 1
      BY <1>d
    <3>2. PICK new \in AskRec : new = [ask EXCEPT !.news = more]
      BY DEF AskRec
    <3>3. new.key = ask.key /\ new.page = ask.page /\ new.news = more
      BY <3>2 DEF AskRec
    <3> QED
      BY <3>a, <3>1, <3>2, <3>3
  <2>4. PICK next \in {NoAsk} \cup AskRec : next = (IF AsksAgain THEN later ELSE asks["board"])
    BY <1>t
  <2>5. history.first \in Position
    BY <1>t DEF HistoryRec
  <2>6. PICK checked \in AskRec : checked = Ask(history.first) /\ checked.cursor = history.first /\ checked.page = NoPage
    BY <2>5, <1>d, AskIs
  <2>7. PICK check \in {NoAsk} \cup AskRec : check = (IF history.loaded THEN checked ELSE NoAsk)
    OBVIOUS
  <2>8. asks' = [asks EXCEPT !["board"] = next, !["check"] = check]
    BY <1>15, <2>3, <2>4, <2>6, <2>7, <1>t DEF Revision
  <2>9. /\ asks' \in [{"load", "check", "board"} -> {NoAsk} \cup AskRec] /\ asks'["board"] = next
        /\ asks'["check"] = check /\ asks'["load"] = asks["load"]
    BY <2>8, <1>t
  <2>10. HistoryOK'
    BY <2>1 DEF PulseInv, HistoryOK
  <2>11. asks["load"] # NoAsk => PageOK(asks["load"])'
    BY <2>1, <2>9 DEF PulseInv, LoadOK, PageOK, PageIs
  <2>12. check # NoAsk => check = checked /\ history.loaded
    BY <2>7
  <2>13. LoadOK'
    BY <2>1, <2>9, <2>11, <2>12 DEF PulseInv, LoadOK
  <2>14. CheckOK'
    BY <2>1, <2>6, <2>9, <2>12 DEF CheckOK, PageOK
  <2>15. board' \in BoardRec /\ BoardOK'
    <3>1. CASE AsksAgain
      <4>1. /\ board' \in BoardRec /\ board'.key = board.key /\ board'.asked = board.key
        BY <2>1, <3>1, <1>d, <1>r
      <4>2. board'.data = NoPage \/ board'.data = board.data
        BY <2>1, <3>1, <1>d, <1>r
      <4>3. asks'["board"] = later /\ later # NoAsk
        BY <2>4, <2>9, <3>1, NoPageApart
      <4>4. board'.data # NoPage => board'.data.key = board'.key
        BY <4>1, <4>2 DEF PulseInv, BoardOK
      <4> QED
        BY <2>1, <2>3, <4>1, <4>3, <4>4 DEF BoardOK
    <3>2. CASE ~AsksAgain
      <4>1. board' = board /\ ~AsksAgain' /\ asks'["board"] = asks["board"]
        BY <2>1, <2>4, <2>9, <3>2 DEF AsksAgain
      <4> QED
        BY <4>1, <1>t DEF PulseInv, BoardOK
    <3> QED
      BY <3>1, <3>2
  <2>16. ConfirmedOK'
    BY <2>1, <1>c
  <2>17. PulseTypeOK'
    BY <2>1, <2>2, <2>9, <2>15, <1>t, <1>k
  <2> QED
    BY <2>10, <2>13, <2>14, <2>15, <2>16, <2>17 DEF PulseInv
<1>16. CASE UNCHANGED pulseVars
  <2>1. UNCHANGED <<onFile, mayRead, moves, news, history, view, board, asks, confirmed>>
    BY <1>16 DEF pulseVars
  <2>2. onFile' \in SUBSET Past /\ onFile \subseteq onFile'
    BY <2>1, <1>t
  <2>3. HistoryOK' /\ LoadOK' /\ CheckOK'
    BY <2>1, <2>2, <1>o
  <2>4. BoardOK' /\ ConfirmedOK'
    BY <2>1, <1>b, <1>c
  <2>5. PulseTypeOK' /\ board' \in BoardRec
    BY <2>1, <1>t, <1>k
  <2> QED
    BY <2>3, <2>4, <2>5 DEF PulseInv
<1>17. (\E e \in Past : FileEvent(e) \/ DropEvent(e)) => PulseInv'
  BY <1>1, <1>2
<1>18. (\E S \in SUBSET InRepos : ReaderScope(S)) => PulseInv'
  BY <1>3
<1>19. (\E a \in DOMAIN asks : ReadScopeOf(a) \/ ReadRowsOf(a)) => PulseInv'
  BY <1>4, <1>5, <1>d
<1>20. (\E k \in BoardKey : SelectPeriod(k)) => PulseInv'
  BY <1>13
<1> QED
  BY <1>6, <1>7, <1>8, <1>9, <1>10, <1>11, <1>12, <1>14, <1>15, <1>16, <1>17, <1>18, <1>19, <1>20 DEF PulseNext

\* Pulse keeps the invariant (PulseHistoryFeed.tsx, usePulse.ts, pulse-store.ts).
LEMMA PulseInvariance == PulseSpec => []PulseInv
<1>1. PulseInit => PulseInv
  BY PulseStart
<1>2. PulseInv /\ [PulseNext]_pulseVars => PulseInv'
  BY PulseStep
<1> QED
  BY <1>1, <1>2, PTL DEF PulseSpec

\* The pages followed miss no event and are of one scope, and the numbers are of the period on
\* screen (PulseHistoryFeed.tsx, pulse-store.ts).
THEOREM PulseIsSafe == PulseSpec => [](PulseTypeOK /\ PulseSafe)
<1>1. PulseInv => PulseTypeOK /\ PulseSafe
  BY PulseInvSafe
<1> QED
  BY <1>1, PulseInvariance, PTL

-----------------------------------------------------------------------------
(* The numbers of a period (PulsePages). *)

\* What the constants of the numbers are.
LEMMA SumConstants ==
  /\ SumDays \subseteq Nat /\ SumRepos \subseteq Nat /\ SumOrgs \subseteq Nat /\ MaxSumRows \in Nat /\ DailyUpTo \in Nat \ {0}
BY SumAssumption

\* A day is so many days after a Monday.
LEMMA WeeksOf == \A n \in Int : \E k \in Int, m \in 0 .. 6 : n = 7 * k + m /\ n % 7 = m
<1> SUFFICES ASSUME NEW n \in Int PROVE \E k \in Int, m \in 0 .. 6 : n = 7 * k + m /\ n % 7 = m
  OBVIOUS
<1>1. n \div 7 \in Int /\ n % 7 \in 0 .. 6 /\ n = 7 * (n \div 7) + (n % 7)
  OBVIOUS
<1> QED
  BY <1>1

\* No Monday is between a day and the next one.
LEMMA NextWeek ==
  ASSUME NEW b \in Int, NEW n \in Int, n % 7 = 0, b < n
  PROVE  b + 7 - (b % 7) <= n
<1>1. PICK k \in Int, m \in 0 .. 6 : b = 7 * k + m /\ b % 7 = m
  BY WeeksOf
<1>2. PICK j \in Int, l \in 0 .. 6 : n = 7 * j + l /\ n % 7 = l
  BY WeeksOf
<1>3. 7 * k + m < 7 * j /\ m \in Int /\ m >= 0
  BY <1>1, <1>2
<1>4. k + 1 <= j
  BY <1>3
<1> QED
  BY <1>1, <1>2, <1>4

\* The days of a period.
LEMMA PeriodDays ==
  ASSUME NEW p \in Period
  PROVE  p.from \in Nat /\ p.to \in Nat /\ p.from <= p.to /\ p.from \in SumDays /\ p.to \in SumDays
BY SumConstants DEF Period

\* Buckets start in the period.
LEMMA StartsAre ==
  ASSUME NEW p \in Period, NEW b \in BucketStarts(p)
  PROVE  /\ b \in Int /\ p.from <= b /\ b <= p.to /\ NextBucket(p, b) \in Int
         /\ b = p.from \/ Daily(p) \/ b % 7 = 0
<1>1. p.from \in Nat /\ p.to \in Nat /\ p.from <= p.to
  BY PeriodDays
<1>2. b = p.from \/ (b \in p.from .. p.to /\ (Daily(p) \/ b % 7 = 0))
  BY DEF BucketStarts
<1>3. b \in Int /\ p.from <= b /\ b <= p.to
  BY <1>1, <1>2
<1>4. PICK k \in Int, m \in 0 .. 6 : b = 7 * k + m /\ b % 7 = m
  BY <1>3, WeeksOf
<1>5. NextBucket(p, b) \in Int
  BY <1>3, <1>4 DEF NextBucket
<1> QED
  BY <1>2, <1>3, <1>5

\* Two buckets never hold the same day.
LEMMA OneBucket ==
  ASSUME NEW p \in Period, NEW b \in BucketStarts(p), NEW c \in BucketStarts(p), NEW d \in Int,
         b <= d, d < NextBucket(p, b), c <= d, d < NextBucket(p, c)
  PROVE  b = c
<1>1. ASSUME NEW x \in BucketStarts(p), NEW y \in BucketStarts(p), x < y, y <= d, d < NextBucket(p, x)
      PROVE  FALSE
  <2>1. x \in Int /\ y \in Int /\ p.from <= x /\ (y = p.from \/ Daily(p) \/ y % 7 = 0) /\ p.from \in Int
    <3>1. x \in Int /\ p.from <= x
      BY StartsAre
    <3>2. y \in Int /\ (y = p.from \/ Daily(p) \/ y % 7 = 0)
      BY StartsAre
    <3>3. p.from \in Int
      BY PeriodDays
    <3> QED
      BY <3>1, <3>2, <3>3
  <2>2. Daily(p) \/ y % 7 = 0
    BY <1>1, <2>1
  <2>3. CASE Daily(p)
    <3>1. NextBucket(p, x) = x + 1
      BY <2>3 DEF NextBucket
    <3> QED
      BY <1>1, <2>1, <3>1
  <2>4. CASE ~Daily(p) /\ y % 7 = 0
    <3>1. NextBucket(p, x) = x + 7 - (x % 7)
      BY <2>4 DEF NextBucket
    <3>2. x + 7 - (x % 7) <= y
      BY <1>1, <2>1, <2>4, NextWeek
    <3>3. NextBucket(p, x) \in Int
      BY StartsAre
    <3> QED
      BY <1>1, <2>1, <3>1, <3>2, <3>3
  <2> QED
    BY <2>2, <2>3, <2>4
<1>2. b \in Int /\ c \in Int
  BY StartsAre
<1>3. ~(b < c)
  BY <1>1
<1>4. ~(c < b)
  BY <1>1
<1> QED
  BY <1>2, <1>3, <1>4

\* The bucket of a day of the period starts where the database truncates it.
LEMMA TruncatedBucket ==
  ASSUME period \in Period, NEW d \in Int, period.from <= d, d <= period.to
  PROVE  /\ Truncated(d) \in BucketStarts(period)
         /\ Truncated(d) <= d /\ d < NextBucket(period, Truncated(d))
<1>1. period.from \in Nat /\ period.to \in Nat /\ period.from <= period.to
  BY PeriodDays
<1>2. CASE Daily(period)
  <2>1. Truncated(d) = d
    BY <1>1, <1>2 DEF Truncated
  <2>2. NextBucket(period, d) = d + 1
    BY <1>2 DEF NextBucket
  <2>3. d \in BucketStarts(period)
    BY <1>1, <1>2 DEF BucketStarts
  <2> QED
    BY <2>1, <2>2, <2>3
<1>3. CASE ~Daily(period)
  <2>1. PICK k \in Int, m \in 0 .. 6 : d = 7 * k + m /\ d % 7 = m
    BY WeeksOf
  <2>2. PICK start \in Int : start = d - m /\ start = 7 * k
    BY <2>1
  <2>3. Truncated(d) = (IF start < period.from THEN period.from ELSE start)
    BY <1>3, <2>1, <2>2 DEF Truncated
  <2>4. CASE start < period.from
    <3>1. PICK i \in Int, l \in 0 .. 6 : period.from = 7 * i + l /\ period.from % 7 = l
      <4>1. period.from \in Int
        BY <1>1
      <4> QED
        BY <4>1, WeeksOf
    <3>2. start <= period.from /\ period.from <= d /\ d <= start + 6
      <4>1. PICK n \in Int : n = period.from
        BY <1>1
      <4>2. m \in Int /\ m <= 6 /\ d = start + m
        BY <2>1, <2>2
      <4>3. start <= n /\ d <= start + 6
        BY <2>4, <4>1, <4>2
      <4> QED
        BY <4>1, <4>3
    <3>3. i = k
      <4>1. PICK n \in Int : n = period.from
        BY <1>1
      <4>2. start <= n /\ n <= start + 6 /\ start = 7 * k /\ n = 7 * i + l /\ l \in 0 .. 6
        BY <2>2, <3>1, <3>2, <4>1
      <4> QED
        BY <4>2
    <3>4. NextBucket(period, period.from) = period.from + 7 - l
      BY <1>3, <3>1 DEF NextBucket
    <3>5. d < period.from + 7 - l
      BY <2>1, <3>1, <3>3
    <3> QED
      BY <2>3, <2>4, <3>4, <3>5 DEF BucketStarts
  <2>5. CASE ~(start < period.from)
    <3>1. PICK i \in Int, l \in 0 .. 6 : start = 7 * i + l /\ start % 7 = l
      BY WeeksOf
    <3>2. l = 0
      BY <2>2, <3>1
    <3>3. NextBucket(period, start) = start + 7
      BY <1>3, <3>1, <3>2 DEF NextBucket
    <3>4. start \in period.from .. period.to /\ start <= d /\ d < start + 7
      BY <1>1, <2>1, <2>2, <2>5
    <3> QED
      BY <1>3, <2>3, <2>5, <3>1, <3>2, <3>3, <3>4 DEF BucketStarts
  <2> QED
    BY <2>4, <2>5
<1> QED
  BY <1>2, <1>3

\* The browser and the database agree on the bucket of a day.
LEMMA BucketIsTruncated ==
  ASSUME period \in Period, NEW d \in Int, period.from <= d, d <= period.to
  PROVE  BucketOf(period, d) = Truncated(d)
<1>1. /\ Truncated(d) \in BucketStarts(period)
      /\ Truncated(d) <= d /\ d < NextBucket(period, Truncated(d))
  BY TruncatedBucket
<1>2. /\ BucketOf(period, d) \in BucketStarts(period)
      /\ BucketOf(period, d) <= d /\ d < NextBucket(period, BucketOf(period, d))
  BY <1>1 DEF BucketOf
<1> QED
  BY <1>1, <1>2, OneBucket

\* Every day of the period is in exactly one bucket.
LEMMA DaysShared ==
  ASSUME period \in Period, NEW d \in period.from .. period.to
  PROVE  Cardinality({b \in BucketStarts(period) : b <= d /\ d < NextBucket(period, b)}) = 1
<1>1. d \in Int /\ period.from <= d /\ d <= period.to
  BY PeriodDays
<1>2. /\ Truncated(d) \in BucketStarts(period)
      /\ Truncated(d) <= d /\ d < NextBucket(period, Truncated(d))
  BY <1>1, TruncatedBucket
<1>3. {b \in BucketStarts(period) : b <= d /\ d < NextBucket(period, b)} = {Truncated(d)}
  BY <1>1, <1>2, OneBucket
<1> QED
  BY <1>3, FS_Singleton

\* What a row has.
LEMMA RowIs ==
  ASSUME NEW q \in SumRow
  PROVE  /\ q.at \in Nat /\ q.repo \in Nat /\ q.org \in Nat /\ q.at \in SumDays /\ q.repo \in SumRepos
         /\ q.id \in SumIds /\ q.human \in BOOLEAN
BY SumConstants DEF SumRow

\* What may not replace a row may not replace one that does, and is no newer.
LEMMA ReplacesOrder ==
  ASSUME NEW q \in SumRow, NEW r \in SumRow, NEW s \in SumRow
  PROVE  /\ ~Replaces(q, q)
         /\ ~Replaces(q, r) /\ Replaces(s, r) => ~Replaces(q, s)
         /\ ~Replaces(q, r) => q.at <= r.at
<1>1. PICK a \in Nat, b \in Nat, c \in Nat : a = q.at /\ b = r.at /\ c = s.at
  BY RowIs
<1>2. PICK d \in Nat, e \in Nat, f \in Nat : d = q.repo /\ e = r.repo /\ f = s.repo
  BY RowIs
<1> QED
  BY <1>1, <1>2 DEF Replaces

\* Sets that have one member of each id, and the same ids, have as many.
LEMMA SameCount ==
  ASSUME NEW A, NEW B, IsFiniteSet(A),
         \A x, y \in A : x.id = y.id => x = y, \A x, y \in B : x.id = y.id => x = y,
         \A x \in A : \E y \in B : y.id = x.id, \A y \in B : \E x \in A : x.id = y.id
  PROVE  Cardinality(A) = Cardinality(B)
<1> DEFINE f == [x \in A |-> CHOOSE y \in B : y.id = x.id]
<1>1. \A x \in A : f[x] \in B /\ f[x].id = x.id
  OBVIOUS
<1>2. f \in [A -> B]
  BY <1>1
<1> HIDE DEF f
<1>3. \A x, y \in A : f[x] = f[y] => x = y
  BY <1>1
<1>4. \A y \in B : \E x \in A : f[x] = y
  BY <1>1
<1>5. f \in Bijection(A, B)
  BY <1>2, <1>3, <1>4 DEF Bijection, Injection, Surjection, IsInjective
<1>6. ExistsBijection(A, B)
  BY <1>5 DEF ExistsBijection
<1> QED
  BY <1>6, FS_Bijection

\* What the numbers may be.
SumRec ==
  [total : Nat, previous : Nat, earliest : Int, bucket : [BucketStarts(period) -> Nat],
   repo : [SumRepos -> Nat]]

\* The rows still to be read.
Left == {unread[i] : i \in DOMAIN unread}

\* Of the rows read, the newest of each id is kept, once.
CanonicalOK ==
  /\ Left \subseteq Stored /\ canonical \subseteq Stored
  /\ \A c \in canonical : c.human
  /\ \A c, d \in canonical : c.id = d.id => c = d
  /\ \A q \in Stored : q.human => q \in Left \/ \E c \in canonical : c.id = q.id /\ ~Replaces(q, c)

\* What of some rows a period has, up to now.
Held(S, p) == {r \in S : Within(r.at, p) /\ r.at <= today}
\* Those of a repository, and those of a bucket.
HeldOf(S, p, repo) == {r \in Held(S, p) : r.repo = repo}
HeldFrom(S, p, start) == {r \in Held(S, p) : Truncated(r.at) = start}

\* The earliest day of what was counted.
EarliestOK ==
  /\ sums.earliest = -1 => \A r \in tallied : ~(r.at <= today)
  /\ sums.earliest # -1 => \E r \in tallied : r.at = sums.earliest /\ r.at <= today
  /\ \A r \in tallied : r.at <= today => sums.earliest <= r.at

\* The numbers are those of the rows counted.
TalliedOK ==
  /\ tallied # {} => unread = <<>>
  /\ IsFiniteSet(tallied)
  /\ sums.total = Cardinality(Held(tallied, period))
  /\ sums.previous = Cardinality(Held(tallied, Previous(period)))
  /\ \A repo \in SumRepos : sums.repo[repo] = Cardinality(HeldOf(tallied, period, repo))
  /\ \A start \in BucketStarts(period) : sums.bucket[start] = Cardinality(HeldFrom(tallied, period, start))
  /\ EarliestOK

\* The inductive invariant.
SumInv == SumTypeOK /\ Keyed(input) /\ sums \in SumRec /\ CanonicalOK /\ TalliedOK

\* Once all rows are read, each one kept stands for one that the database tells apart, of the same
\* event and time, and the other way round.
LEMMA CanonicalDistinct ==
  ASSUME SumInv, unread = <<>>
  PROVE  /\ \A c \in canonical : \E r \in Distinct : r.id = c.id /\ r.at = c.at
         /\ \A r \in Distinct : \E c \in canonical : c.id = r.id /\ c.at = r.at
         /\ \A r, s \in Distinct : r.id = s.id => r = s
         /\ \A c, d \in canonical : c.id = d.id => c = d
         /\ \A r \in Distinct \cup canonical : r \in Stored /\ r \in SumRow /\ r.human
<1>0. CanonicalOK /\ Keyed(input) /\ Left = {}
  BY DEF SumInv, Left
<1>1. Stored \subseteq SumRow
  BY DEF SumInv, SumTypeOK, Stored
<1>2. \A q \in Stored : q.at \in Nat /\ q.org \in Nat
  BY <1>1, RowIs
<1>3. \A c, d \in canonical : c.id = d.id => c = d
  BY <1>0 DEF CanonicalOK
<1>4. \A r \in Distinct \cup canonical : r \in Stored /\ r \in SumRow /\ r.human
  BY <1>0, <1>1 DEF Distinct, CanonicalOK
<1>5. ASSUME NEW q \in Stored, q.human PROVE \E c \in canonical : c.id = q.id /\ q.at <= c.at
  <2>1. PICK c \in canonical : c.id = q.id /\ ~Replaces(q, c)
    BY <1>0, <1>5 DEF CanonicalOK
  <2>2. q.at <= c.at
    BY <1>1, <1>4, <2>1, ReplacesOrder
  <2> QED
    BY <2>1, <2>2
<1>6. ASSUME NEW c \in canonical PROVE \E r \in Distinct : r.id = c.id /\ r.at = c.at
  <2>1. PICK T \in SUBSET Stored : T = {q \in Stored : q.human /\ q.id = c.id /\ q.at = c.at}
    OBVIOUS
  <2>2. PICK O : O = {q.org : q \in T}
    OBVIOUS
  <2>3. O \subseteq Nat /\ O # {}
    BY <1>2, <1>4, <2>1, <2>2
  <2>4. PICK least \in O : \A n \in O : least <= n
    BY <2>3, LeastOne
  <2>5. PICK r \in T : r.org = least
    BY <2>2, <2>4
  <2>6. r \in Stored /\ r.human /\ r.id = c.id /\ r.at = c.at
    BY <2>1
  <2>7. ASSUME NEW q \in Stored, q.id = r.id, q.human PROVE ~Precedes(q, r)
    <3>1. PICK d \in canonical : d.id = q.id /\ q.at <= d.at
      BY <1>5, <2>7
    <3>2. d = c
      BY <1>3, <2>6, <2>7, <3>1
    <3>3. q.at <= r.at
      BY <2>6, <3>1, <3>2
    <3>4. q.at = r.at => r.org <= q.org
      BY <2>1, <2>2, <2>4, <2>5, <2>6, <2>7
    <3> QED
      BY <1>2, <2>6, <3>3, <3>4 DEF Precedes
  <2>8. r \in Distinct
    BY <2>6, <2>7 DEF Distinct
  <2> QED
    BY <2>6, <2>8
<1>7. ASSUME NEW r \in Distinct PROVE \E c \in canonical : c.id = r.id /\ c.at = r.at
  <2>1. r \in Stored /\ r.human
    BY <1>4
  <2>2. PICK c \in canonical : c.id = r.id /\ r.at <= c.at
    BY <1>5, <2>1
  <2>3. c \in Stored /\ c.human
    BY <1>4
  <2>4. ~Precedes(c, r)
    BY <2>2, <2>3 DEF Distinct
  <2>5. c.at = r.at
    BY <1>2, <2>1, <2>2, <2>3, <2>4 DEF Precedes
  <2> QED
    BY <2>2, <2>5
<1>8. ASSUME NEW r \in Distinct, NEW s \in Distinct, r.id = s.id PROVE r = s
  <2>1. r \in Stored /\ s \in Stored /\ ~Precedes(r, s) /\ ~Precedes(s, r)
    BY <1>8 DEF Distinct
  <2>2. r.org = s.org
    BY <1>2, <2>1 DEF Precedes
  <2>3. PICK i \in DOMAIN input, j \in DOMAIN input : r = input[i] /\ s = input[j]
    BY <2>1 DEF Stored
  <2>4. i = j
    BY <1>0, <1>8, <2>2, <2>3 DEF Keyed
  <2> QED
    BY <2>3, <2>4
<1> QED
  BY <1>3, <1>4, <1>6, <1>7, <1>8

\* The invariant has the types, and both ways give the same numbers.
LEMMA SumInvSafe == SumInv => SumTypeOK /\ SumsSafe
<1> SUFFICES ASSUME SumInv PROVE SumTypeOK /\ SumsSafe
  OBVIOUS
<1> SUFFICES ASSUME unread = <<>>, tallied = canonical
    PROVE    /\ sums.total = Cardinality(UpToNow(period))
             /\ sums.previous = Cardinality(UpToNow(Previous(period)))
             /\ sums.earliest = IF {r \in Distinct : r.at <= today} = {} THEN -1
                                ELSE CHOOSE d \in SumDays :
                                       /\ \E r \in Distinct : r.at = d
                                       /\ \A r \in Distinct : d <= r.at
             /\ \A start \in BucketStarts(period) :
                  sums.bucket[start] = Cardinality({e \in UpToNow(period) : Truncated(e.at) = start})
             /\ NoTies => \A r \in SumRepos :
                  sums.repo[r] = Cardinality({e \in UpToNow(period) : e.repo = r})
             /\ \A d \in period.from .. period.to :
                  Cardinality({b \in BucketStarts(period) : b <= d /\ d < NextBucket(period, b)}) = 1
  BY DEF SumInv, SumsSafe
<1>1. /\ \A c \in tallied : \E r \in Distinct : r.id = c.id /\ r.at = c.at
      /\ \A r \in Distinct : \E c \in tallied : c.id = r.id /\ c.at = r.at
      /\ \A r, s \in Distinct : r.id = s.id => r = s
      /\ \A c, d \in tallied : c.id = d.id => c = d
      /\ \A r \in Distinct \cup tallied : r \in Stored /\ r \in SumRow /\ r.human
  BY CanonicalDistinct
<1>f. \A p, start, r : /\ IsFiniteSet(Held(tallied, p)) /\ IsFiniteSet(HeldFrom(tallied, p, start))
                       /\ IsFiniteSet(HeldOf(tallied, p, r))
  <2>1. IsFiniteSet(tallied)
    BY DEF SumInv, TalliedOK
  <2>2. \A p, start, r : /\ Held(tallied, p) \subseteq tallied /\ HeldFrom(tallied, p, start) \subseteq tallied
                         /\ HeldOf(tallied, p, r) \subseteq tallied
    BY DEF Held, HeldFrom, HeldOf
  <2> QED
    BY <2>1, <2>2, FS_Subset
<1>2. ASSUME NEW p PROVE Cardinality(Held(tallied, p)) = Cardinality(UpToNow(p))
  <2>1. PICK A, B : A = Held(tallied, p) /\ B = UpToNow(p)
    OBVIOUS
  <2>2. /\ \A x, y \in A : x.id = y.id => x = y
        /\ \A x, y \in B : x.id = y.id => x = y
        /\ \A x \in A : \E y \in B : y.id = x.id
        /\ \A y \in B : \E x \in A : x.id = y.id
    BY <1>1, <2>1 DEF Held, UpToNow
  <2>3. IsFiniteSet(A)
    BY <1>f, <2>1
  <2>4. Cardinality(A) = Cardinality(B)
    BY <2>2, <2>3, SameCount
  <2> QED
    BY <2>1, <2>4
<1>3. sums.total = Cardinality(UpToNow(period)) /\ sums.previous = Cardinality(UpToNow(Previous(period)))
  BY <1>2 DEF SumInv, TalliedOK
<1>4. ASSUME NoTies, NEW n \in SumRepos
      PROVE  sums.repo[n] = Cardinality({e \in UpToNow(period) : e.repo = n})
  <2>1. PICK A, B : A = HeldOf(tallied, period, n) /\ B = {e \in UpToNow(period) : e.repo = n}
    OBVIOUS
  <2>2. \A c \in tallied, r \in Distinct : c.id = r.id /\ c.at = r.at => c.repo = r.repo
    BY <1>1, <1>4 DEF NoTies
  <2>3. \A x \in A : \E y \in B : y.id = x.id
    BY <1>1, <2>1, <2>2 DEF HeldOf, Held, UpToNow
  <2>4. \A y \in B : \E x \in A : x.id = y.id
    BY <1>1, <2>1, <2>2 DEF HeldOf, Held, UpToNow
  <2>5. /\ \A x, y \in A : x.id = y.id => x = y
        /\ \A x, y \in B : x.id = y.id => x = y
    BY <1>1, <2>1 DEF HeldOf, Held, UpToNow
  <2>6. IsFiniteSet(A)
    BY <1>f, <2>1
  <2>7. Cardinality(A) = Cardinality(B)
    BY <2>3, <2>4, <2>5, <2>6, SameCount
  <2> QED
    BY <2>1, <2>7 DEF SumInv, TalliedOK
<1>5. ASSUME NEW start \in BucketStarts(period)
      PROVE  sums.bucket[start] = Cardinality({e \in UpToNow(period) : Truncated(e.at) = start})
  <2>1. PICK A, B : A = HeldFrom(tallied, period, start)
                    /\ B = {e \in UpToNow(period) : Truncated(e.at) = start}
    OBVIOUS
  <2>2. /\ \A x, y \in A : x.id = y.id => x = y
        /\ \A x, y \in B : x.id = y.id => x = y
        /\ \A x \in A : \E y \in B : y.id = x.id
        /\ \A y \in B : \E x \in A : x.id = y.id
    BY <1>1, <2>1 DEF HeldFrom, Held, UpToNow
  <2>3. IsFiniteSet(A)
    BY <1>f, <2>1
  <2>4. Cardinality(A) = Cardinality(B)
    BY <2>2, <2>3, SameCount
  <2> QED
    BY <2>1, <2>4 DEF SumInv, TalliedOK
<1>6. \A d \in period.from .. period.to :
         Cardinality({b \in BucketStarts(period) : b <= d /\ d < NextBucket(period, b)}) = 1
  BY DaysShared DEF SumInv, SumTypeOK
<1>7. tallied \subseteq SumRow /\ today \in Nat /\ SumDays \subseteq Nat
  BY SumConstants DEF SumInv, SumTypeOK
<1>8. sums.earliest = IF {r \in Distinct : r.at <= today} = {} THEN -1
                      ELSE CHOOSE d \in SumDays :
                             /\ \E r \in Distinct : r.at = d
                             /\ \A r \in Distinct : d <= r.at
  <2>1. CASE {r \in Distinct : r.at <= today} = {}
    <3>1. \A c \in tallied : ~(c.at <= today)
      BY <1>1, <2>1
    <3>2. sums.earliest = -1
      BY <3>1 DEF SumInv, TalliedOK, EarliestOK
    <3> QED
      BY <2>1, <3>2
  <2>2. CASE {r \in Distinct : r.at <= today} # {}
    <3>1. PICK c \in tallied : c.at <= today
      BY <1>1, <2>2
    <3>2. sums.earliest # -1
      BY <3>1 DEF SumInv, TalliedOK, EarliestOK
    <3>3. PICK r \in tallied : r.at = sums.earliest /\ r.at <= today
      BY <3>2 DEF SumInv, TalliedOK, EarliestOK
    <3>4. PICK day \in SumDays : day = sums.earliest /\ day = r.at
      BY <1>7, <3>3, RowIs
    <3>5. ASSUME NEW s \in Distinct PROVE day <= s.at
      <4>1. PICK d \in tallied : d.at = s.at
        BY <1>1
      <4>2. d.at \in Nat /\ day \in Nat
        BY <1>7, <4>1, RowIs
      <4>3. CASE d.at <= today
        BY <3>4, <4>1, <4>3 DEF SumInv, TalliedOK, EarliestOK
      <4>4. CASE ~(d.at <= today)
        BY <1>7, <3>3, <3>4, <4>1, <4>2, <4>4
      <4> QED
        BY <4>3, <4>4
    <3>6. \E s \in Distinct : s.at = day
      BY <1>1, <3>4
    <3>7. ASSUME NEW d \in SumDays, \E s \in Distinct : s.at = d, \A s \in Distinct : d <= s.at
          PROVE  d = day
      <4>1. d <= day
        BY <3>6, <3>7
      <4>2. day <= d
        BY <3>5, <3>7
      <4> QED
        BY <1>7, <4>1, <4>2
    <3>8. (CHOOSE d \in SumDays :
                             /\ \E s \in Distinct : s.at = d
                             /\ \A s \in Distinct : d <= s.at) = day
      BY <3>5, <3>6, <3>7
    <3> QED
      BY <2>2, <3>4, <3>8
  <2> QED
    BY <2>1, <2>2
<1> QED
  BY <1>3, <1>4, <1>5, <1>6, <1>8

\* One more row counts once where it belongs.
CountsOnce(S, x) ==
  /\ IsFiniteSet(S \cup {x})
  /\ \A p, repo, start :
       /\ Cardinality(Held(S \cup {x}, p)) =
            IF Within(x.at, p) /\ x.at <= today THEN Cardinality(Held(S, p)) + 1 ELSE Cardinality(Held(S, p))
       /\ Cardinality(HeldOf(S \cup {x}, p, repo)) =
            IF Within(x.at, p) /\ x.at <= today /\ x.repo = repo THEN Cardinality(HeldOf(S, p, repo)) + 1
            ELSE Cardinality(HeldOf(S, p, repo))
       /\ Cardinality(HeldFrom(S \cup {x}, p, start)) =
            IF Within(x.at, p) /\ x.at <= today /\ Truncated(x.at) = start
            THEN Cardinality(HeldFrom(S, p, start)) + 1 ELSE Cardinality(HeldFrom(S, p, start))

\* So it does with any finite set of rows.
LEMMA HeldGrows ==
  ASSUME NEW S, IsFiniteSet(S), NEW x, x \notin S
  PROVE  CountsOnce(S, x)
<1>0. SUFFICES ASSUME NEW p, NEW repo, NEW start
               PROVE  /\ IsFiniteSet(S \cup {x})
                      /\ Cardinality(Held(S \cup {x}, p)) =
                           IF Within(x.at, p) /\ x.at <= today THEN Cardinality(Held(S, p)) + 1 ELSE Cardinality(Held(S, p))
                      /\ Cardinality(HeldOf(S \cup {x}, p, repo)) =
                           IF Within(x.at, p) /\ x.at <= today /\ x.repo = repo THEN Cardinality(HeldOf(S, p, repo)) + 1
                           ELSE Cardinality(HeldOf(S, p, repo))
                      /\ Cardinality(HeldFrom(S \cup {x}, p, start)) =
                           IF Within(x.at, p) /\ x.at <= today /\ Truncated(x.at) = start
                           THEN Cardinality(HeldFrom(S, p, start)) + 1 ELSE Cardinality(HeldFrom(S, p, start))
  BY DEF CountsOnce
<1>1. IsFiniteSet(S \cup {x})
  BY FS_AddElement
<1>2. ASSUME NEW A \in SUBSET S PROVE Cardinality(A \cup {x}) = Cardinality(A) + 1
  <2>1. IsFiniteSet(A) /\ x \notin A
    BY FS_Subset
  <2> QED
    BY <2>1, FS_AddElement
<1>3. Held(S, p) \in SUBSET S /\ HeldOf(S, p, repo) \in SUBSET S /\ HeldFrom(S, p, start) \in SUBSET S
  BY DEF Held, HeldOf, HeldFrom
<1>4. Held(S \cup {x}, p) =
        IF Within(x.at, p) /\ x.at <= today THEN Held(S, p) \cup {x} ELSE Held(S, p)
  BY DEF Held
<1>5. HeldOf(S \cup {x}, p, repo) =
        IF Within(x.at, p) /\ x.at <= today /\ x.repo = repo THEN HeldOf(S, p, repo) \cup {x} ELSE HeldOf(S, p, repo)
  BY <1>4 DEF HeldOf
<1>6. HeldFrom(S \cup {x}, p, start) =
        IF Within(x.at, p) /\ x.at <= today /\ Truncated(x.at) = start
        THEN HeldFrom(S, p, start) \cup {x} ELSE HeldFrom(S, p, start)
  BY <1>4 DEF HeldFrom
<1>7. /\ Cardinality(Held(S, p) \cup {x}) = Cardinality(Held(S, p)) + 1
      /\ Cardinality(HeldOf(S, p, repo) \cup {x}) = Cardinality(HeldOf(S, p, repo)) + 1
      /\ Cardinality(HeldFrom(S, p, start) \cup {x}) = Cardinality(HeldFrom(S, p, start)) + 1
  BY <1>2, <1>3
<1> QED
  BY <1>1, <1>4, <1>5, <1>6, <1>7

\* Nothing has been read at first.
LEMMA SumStart == SumInit => SumInv
<1> SUFFICES ASSUME SumInit PROVE SumInv
  OBVIOUS
<1>1. /\ period \in Period /\ today \in SumDays /\ input \in Seq(SumRow) /\ unread = input /\ Keyed(input)
      /\ canonical = {} /\ tallied = {} /\ sums = Zero
  <2>1. PICK n \in 0 .. MaxSumRows : input \in [1 .. n -> SumRow]
    BY DEF SumInit
  <2>2. n \in Nat
    BY SumConstants
  <2>3. input \in Seq(SumRow)
    BY <2>1, <2>2
  <2> QED
    BY <2>3 DEF SumInit
<1>2. PICK bucket \in [BucketStarts(period) -> Nat] : bucket = [d \in BucketStarts(period) |-> 0]
  OBVIOUS
<1>3. PICK repo \in [SumRepos -> Nat] : repo = [r \in SumRepos |-> 0]
  OBVIOUS
<1>z. PICK zero \in Nat, never \in Int : zero = 0 /\ never = -1
  OBVIOUS
<1>4. PICK new \in SumRec : new = [total |-> zero, previous |-> zero, earliest |-> never, bucket |-> bucket, repo |-> repo]
  BY DEF SumRec
<1>5. sums = new /\ new.total = 0 /\ new.previous = 0 /\ new.earliest = -1 /\ new.bucket = bucket /\ new.repo = repo
  BY <1>1, <1>2, <1>3, <1>4, <1>z DEF Zero
<1>6. SumTypeOK
  BY <1>1, <1>2, <1>3, <1>5 DEF SumTypeOK
<1>7. CanonicalOK
  BY <1>1 DEF CanonicalOK, Left, Stored
<1>8. TalliedOK
  <2>1. \A p : Held(tallied, p) = {}
    BY <1>1 DEF Held
  <2>2. (\A p, r : HeldOf(tallied, p, r) = {}) /\ (\A p, start : HeldFrom(tallied, p, start) = {})
    BY <2>1 DEF HeldOf, HeldFrom
  <2>3. IsFiniteSet({}) /\ Cardinality({}) = 0
    BY FS_EmptySet
  <2> QED
    BY <1>1, <1>2, <1>3, <1>5, <2>1, <2>2, <2>3 DEF TalliedOK, EarliestOK
<1> QED
  BY <1>1, <1>5, <1>6, <1>7, <1>8 DEF SumInv

\* Every row read and every row counted.
LEMMA SumStep == SumInv /\ [SumNext]_sumVars => SumInv'
<1> SUFFICES ASSUME SumInv, [SumNext]_sumVars PROVE SumInv'
  OBVIOUS
<1>t. /\ period \in Period /\ today \in SumDays /\ input \in Seq(SumRow) /\ unread \in Seq(SumRow)
      /\ canonical \subseteq SumRow /\ tallied \subseteq canonical /\ sums \in SumRec
  BY DEF SumInv, SumTypeOK
<1>s. Stored \subseteq SumRow /\ Left \subseteq Stored
  BY <1>t DEF SumInv, Stored, CanonicalOK
<1>1. CASE ReadRow
  <2>1. unread # <<>> /\ unread' = Tail(unread) /\ UNCHANGED <<period, today, input, tallied, sums>>
    BY <1>1 DEF ReadRow
  <2>2. PICK one \in SumRow : one = Head(unread)
    BY <2>1, <1>t
  <2>3. PICK old \in SUBSET canonical : old = {o \in canonical : o.id = one.id}
    OBVIOUS
  <2>4. canonical' = (IF one.human /\ \A o \in old : Replaces(one, o)
                      THEN (canonical \ old) \cup {one} ELSE canonical)
    BY <1>1, <2>2, <2>3 DEF ReadRow
  <2>5. Left = {one} \cup Left' /\ unread' \in Seq(SumRow)
    <3>1. /\ unread' \in Seq(SumRow) /\ Len(unread) \in Nat /\ Len(unread) > 0 /\ DOMAIN unread = 1 .. Len(unread)
          /\ DOMAIN unread' = 1 .. (Len(unread) - 1) /\ \A i \in 1 .. (Len(unread) - 1) : unread'[i] = unread[i + 1]
          /\ unread[1] = one
      BY <2>1, <2>2, <1>t
    <3>2. Left \subseteq {one} \cup Left'
      <4> SUFFICES ASSUME NEW i \in 1 .. Len(unread) PROVE unread[i] \in {one} \cup Left'
        BY <3>1 DEF Left
      <4>1. CASE i = 1
        BY <3>1, <4>1
      <4>2. CASE i # 1
        <5>1. i - 1 \in 1 .. (Len(unread) - 1) /\ (i - 1) + 1 = i
          BY <3>1, <4>2
        <5>2. unread'[i - 1] = unread[i] /\ i - 1 \in DOMAIN unread'
          BY <3>1, <5>1
        <5> QED
          BY <5>2 DEF Left
      <4> QED
        BY <4>1, <4>2
    <3>3. {one} \cup Left' \subseteq Left
      <4>1. 1 \in DOMAIN unread
        BY <3>1
      <4>2. one \in Left
        BY <3>1, <4>1 DEF Left
      <4>3. ASSUME NEW i \in DOMAIN unread' PROVE unread'[i] \in Left
        <5>1. i + 1 \in DOMAIN unread /\ unread'[i] = unread[i + 1]
          BY <3>1
        <5> QED
          BY <5>1 DEF Left
      <4> QED
        BY <4>2, <4>3 DEF Left
    <3> QED
      BY <3>1, <3>2, <3>3
  <2>6. Stored' = Stored /\ Left' \subseteq Stored /\ one \in Stored
    BY <2>1, <2>5, <1>s DEF Stored
  <2>7. tallied = {}
    BY <2>1 DEF SumInv, TalliedOK
  <2>8. \A c \in canonical : c \in Stored /\ c \in SumRow /\ c.human
    BY <1>t DEF SumInv, CanonicalOK
  <2>9. \A c, d \in canonical : c.id = d.id => c = d
    BY DEF SumInv, CanonicalOK
  <2>10. \A q \in Stored : q.human => q \in Left \/ \E c \in canonical : c.id = q.id /\ ~Replaces(q, c)
    BY DEF SumInv, CanonicalOK
  <2>k. Keyed(input)'
    BY <2>1 DEF SumInv, Keyed
  <2>11. CASE one.human /\ \A o \in old : Replaces(one, o)
    <3>1. canonical' = (canonical \ old) \cup {one}
      BY <2>4, <2>11
    <3>2. canonical' \subseteq Stored /\ \A c \in canonical' : c.human
      BY <2>6, <2>8, <2>11, <3>1
    <3>3. \A c, d \in canonical' : c.id = d.id => c = d
      BY <2>3, <2>9, <3>1
    <3>4. ASSUME NEW q \in Stored, q.human, q \notin Left'
          PROVE  \E c \in canonical' : c.id = q.id /\ ~Replaces(q, c)
      <4>1. CASE q = one
        BY <3>1, <4>1, ReplacesOrder
      <4>2. CASE q # one
        <5>1. PICK c \in canonical : c.id = q.id /\ ~Replaces(q, c)
          BY <2>5, <2>10, <3>4, <4>2
        <5>2. CASE c \in old
          <6>1. Replaces(one, c) /\ one.id = q.id /\ one \in canonical'
            BY <2>3, <2>11, <3>1, <5>1, <5>2
          <6>2. q \in SumRow /\ c \in SumRow
            BY <1>s, <2>8
          <6>3. ~Replaces(q, one)
            BY <5>1, <6>1, <6>2, ReplacesOrder
          <6> QED
            BY <6>1, <6>3
        <5>3. CASE c \notin old
          BY <3>1, <5>1, <5>3
        <5> QED
          BY <5>2, <5>3
      <4> QED
        BY <4>1, <4>2
    <3> QED
      <4>1. CanonicalOK'
        BY <2>6, <3>2, <3>3, <3>4 DEF CanonicalOK
      <4>2. canonical' \subseteq SumRow
        BY <2>2, <2>8, <3>1
      <4>3. SumTypeOK'
        BY <2>1, <2>5, <2>7, <4>2 DEF SumInv, SumTypeOK
      <4>4. TalliedOK' /\ (sums \in SumRec)'
        BY <2>1, <2>7, <1>t DEF SumInv, TalliedOK, EarliestOK, Held, HeldOf, HeldFrom, Truncated, SumRec
      <4> QED
        BY <2>k, <4>1, <4>3, <4>4 DEF SumInv
  <2>12. CASE ~(one.human /\ \A o \in old : Replaces(one, o))
    <3>1. canonical' = canonical
      BY <2>4, <2>12
    <3>2. ASSUME NEW q \in Stored, q.human, q \notin Left'
          PROVE  \E c \in canonical' : c.id = q.id /\ ~Replaces(q, c)
      <4>1. CASE q = one
        <5>1. PICK o \in old : ~Replaces(one, o)
          BY <2>12, <3>2, <4>1
        <5> QED
          BY <2>3, <3>1, <4>1, <5>1
      <4>2. CASE q # one
        BY <2>5, <2>10, <3>1, <3>2, <4>2
      <4> QED
        BY <4>1, <4>2
    <3> QED
      <4>1. CanonicalOK'
        BY <2>6, <2>8, <2>9, <3>1, <3>2 DEF CanonicalOK
      <4>3. SumTypeOK'
        BY <2>1, <2>5, <3>1 DEF SumInv, SumTypeOK
      <4>4. TalliedOK' /\ (sums \in SumRec)'
        BY <2>1, <2>7, <1>t DEF SumInv, TalliedOK, EarliestOK, Held, HeldOf, HeldFrom, Truncated, SumRec
      <4> QED
        BY <2>k, <4>1, <4>3, <4>4 DEF SumInv
  <2> QED
    BY <2>11, <2>12
<1>2. ASSUME NEW one \in SumRow, CountRow(one) PROVE SumInv'
  <2>1. /\ unread = <<>> /\ one \in canonical /\ one \notin tallied /\ tallied' = tallied \cup {one}
        /\ UNCHANGED <<period, today, input, unread, canonical>>
    BY <1>2 DEF CountRow
  <2>2. PICK total \in Nat, previous \in Nat, earliest \in Int :
          total = sums.total /\ previous = sums.previous /\ earliest = sums.earliest
    BY <1>t DEF SumRec
  <2>3. PICK bucket \in [BucketStarts(period) -> Nat], repo \in [SumRepos -> Nat] :
          bucket = sums.bucket /\ repo = sums.repo
    BY <1>t DEF SumRec
  <2>4. PICK a \in Nat, d \in Nat, name \in SumRepos : a = one.at /\ d = today /\ name = one.repo
    BY <1>t, SumConstants, RowIs
  <2>5. PICK first \in Int : first = (IF earliest = -1 \/ a < earliest THEN a ELSE earliest)
    OBVIOUS
  <2>6. PICK tops \in SumRec : tops = [sums EXCEPT !.earliest = first]
    BY <1>t DEF SumRec
  <2>7. tops.total = total /\ tops.previous = previous /\ tops.earliest = first /\ tops.bucket = bucket /\ tops.repo = repo
    BY <1>t, <2>2, <2>3, <2>6 DEF SumRec
  <2>8. tops = [sums EXCEPT !.earliest = IF @ = -1 \/ one.at < @ THEN one.at ELSE @]
    BY <2>2, <2>4, <2>5, <2>6
  <2>9. sums' = IF one.at > today THEN sums
                ELSE CASE Within(one.at, Previous(period)) -> [tops EXCEPT !.previous = @ + 1]
                       [] Within(one.at, period) ->
                            [tops EXCEPT !.total = @ + 1, !.repo[one.repo] = @ + 1,
                                         !.bucket[BucketOf(period, one.at)] = @ + 1]
                       [] OTHER -> tops
    BY <1>2, <2>8 DEF CountRow
  <2>10. ~(Within(one.at, Previous(period)) /\ Within(one.at, period))
    <3>1. PICK from \in Nat, to \in Nat : from = period.from /\ to = period.to
      BY <1>t, PeriodDays
    <3> QED
      BY <2>4, <3>1 DEF Within, Previous
  <2>11. Within(one.at, period) => BucketOf(period, one.at) = Truncated(one.at) /\ Truncated(one.at) \in BucketStarts(period)
    <3>1. one.at \in Int
      BY <2>4
    <3>2. Within(one.at, period) => period.from <= one.at /\ one.at <= period.to
      BY DEF Within
    <3> QED
      BY <3>1, <3>2, <1>t, BucketIsTruncated, TruncatedBucket
  <2>12. /\ sums' \in SumRec
         /\ sums'.total = IF Within(one.at, period) /\ one.at <= today THEN total + 1 ELSE total
         /\ sums'.previous = IF Within(one.at, Previous(period)) /\ one.at <= today THEN previous + 1 ELSE previous
         /\ sums'.earliest = IF one.at <= today THEN first ELSE earliest
         /\ \A r \in SumRepos :
              sums'.repo[r] = IF Within(one.at, period) /\ one.at <= today /\ one.repo = r THEN repo[r] + 1 ELSE repo[r]
         /\ \A start \in BucketStarts(period) :
              sums'.bucket[start] = IF Within(one.at, period) /\ one.at <= today /\ Truncated(one.at) = start
                                    THEN bucket[start] + 1 ELSE bucket[start]
    <3>1. CASE one.at > today
      <4>1. sums' = sums /\ ~(one.at <= today)
        BY <2>4, <2>9, <3>1
      <4> QED
        BY <4>1, <1>t, <2>2, <2>3
    <3>2. CASE ~(one.at > today) /\ Within(one.at, Previous(period))
      <4>1. PICK more \in Nat : more = previous + 1
        OBVIOUS
      <4>2. PICK new \in SumRec : new = [tops EXCEPT !.previous = more]
        BY DEF SumRec
      <4>3. /\ new.total = total /\ new.previous = more /\ new.earliest = first /\ new.bucket = bucket
            /\ new.repo = repo
        BY <2>7, <4>2 DEF SumRec
      <4>4. sums' = new /\ one.at <= today /\ ~Within(one.at, period)
        BY <2>4, <2>7, <2>9, <2>10, <3>2, <4>1, <4>2
      <4> QED
        BY <3>2, <4>1, <4>3, <4>4
    <3>3. CASE ~(one.at > today) /\ Within(one.at, period)
      <4>1. PICK more \in Nat : more = total + 1
        OBVIOUS
      <4>2. PICK start \in BucketStarts(period) : start = BucketOf(period, one.at) /\ start = Truncated(one.at)
        BY <2>11, <3>3
      <4>3. PICK buckets \in [BucketStarts(period) -> Nat] : buckets = [bucket EXCEPT ![start] = @ + 1]
        <5>1. bucket[start] + 1 \in Nat
          OBVIOUS
        <5> QED
          BY <5>1
      <4>4. PICK repos \in [SumRepos -> Nat] : repos = [repo EXCEPT ![name] = @ + 1]
        <5>1. repo[name] + 1 \in Nat
          OBVIOUS
        <5> QED
          BY <5>1
      <4>5. PICK new \in SumRec : new = [tops EXCEPT !.total = more, !.repo = repos, !.bucket = buckets]
        BY DEF SumRec
      <4>6. /\ new.total = more /\ new.previous = previous /\ new.earliest = first /\ new.bucket = buckets
            /\ new.repo = repos
        BY <2>7, <4>5 DEF SumRec
      <4>7. one.at <= today /\ ~Within(one.at, Previous(period))
        BY <2>4, <2>10, <3>3
      <4>8. sums' = [tops EXCEPT !.total = @ + 1, !.repo[one.repo] = @ + 1,
                                 !.bucket[BucketOf(period, one.at)] = @ + 1]
        BY <2>9, <3>3, <4>7
      <4>9. sums' = new
        BY <2>4, <2>7, <4>1, <4>2, <4>3, <4>4, <4>5, <4>8
      <4>10. \A r \in SumRepos : repos[r] = IF one.repo = r THEN repo[r] + 1 ELSE repo[r]
        BY <2>4, <4>4
      <4>11. \A s \in BucketStarts(period) : buckets[s] = IF Truncated(one.at) = s THEN bucket[s] + 1 ELSE bucket[s]
        BY <4>2, <4>3
      <4> QED
        BY <3>3, <4>1, <4>6, <4>7, <4>9, <4>10, <4>11
    <3>4. CASE ~(one.at > today) /\ ~Within(one.at, Previous(period)) /\ ~Within(one.at, period)
      <4>1. sums' = tops /\ one.at <= today
        BY <2>4, <2>9, <3>4
      <4> QED
        BY <2>7, <3>4, <4>1
    <3> QED
      BY <3>1, <3>2, <3>3, <3>4
  <2>13. PICK S \in SUBSET SumRow : S = tallied /\ IsFiniteSet(S) /\ one \notin S
    BY <2>1, <1>t DEF SumInv, TalliedOK
  <2>g. PICK p \in Period : p = period
    BY <1>t
  <2>14. PICK q : p = period /\ q = Previous(period)
    BY <2>g
  <2>15. Held(tallied, period)' = Held(S \cup {one}, p) /\ Held(tallied, Previous(period))' = Held(S \cup {one}, q)
    BY <2>1, <2>13, <2>14 DEF Held
  <2>16. \A n : HeldOf(tallied, period, n)' = HeldOf(S \cup {one}, p, n)
    BY <2>15 DEF HeldOf
  <2>17. \A n : HeldFrom(tallied, period, n)' = HeldFrom(S \cup {one}, p, n)
    BY <2>1, <2>15 DEF HeldFrom, Truncated
  <2>18. /\ Cardinality(Held(S, p)) = total /\ Cardinality(Held(S, q)) = previous
         /\ \A n \in SumRepos : Cardinality(HeldOf(S, p, n)) = repo[n]
         /\ \A n \in BucketStarts(period) : Cardinality(HeldFrom(S, p, n)) = bucket[n]
    BY <2>2, <2>3, <2>13, <2>14 DEF SumInv, TalliedOK
  <2>h. CountsOnce(S, one)
    <3>1. IsFiniteSet(S)
      BY <2>13
    <3>2. one \notin S
      BY <2>13
    <3> QED
      BY <3>1, <3>2, HeldGrows
  <2>19. IsFiniteSet(S \cup {one}) /\ Cardinality(Held(S \cup {one}, p)) = sums'.total
    <3>1. /\ IsFiniteSet(S \cup {one})
          /\ Cardinality(Held(S \cup {one}, p)) =
              IF Within(one.at, p) /\ one.at <= today THEN Cardinality(Held(S, p)) + 1 ELSE Cardinality(Held(S, p))
      BY <2>h DEF CountsOnce
    <3> QED
      BY <2>12, <2>14, <2>18, <3>1
  <2>20. Cardinality(Held(S \cup {one}, q)) = sums'.previous
    <3>1. Cardinality(Held(S \cup {one}, q)) =
              IF Within(one.at, q) /\ one.at <= today THEN Cardinality(Held(S, q)) + 1 ELSE Cardinality(Held(S, q))
      BY <2>h DEF CountsOnce
    <3> QED
      BY <2>12, <2>14, <2>18, <3>1
  <2>21. \A n \in SumRepos : Cardinality(HeldOf(S \cup {one}, p, n)) = sums'.repo[n]
    <3>1. ASSUME NEW n \in SumRepos
          PROVE  Cardinality(HeldOf(S \cup {one}, p, n)) =
                   IF Within(one.at, p) /\ one.at <= today /\ one.repo = n THEN Cardinality(HeldOf(S, p, n)) + 1
                   ELSE Cardinality(HeldOf(S, p, n))
      BY <2>h DEF CountsOnce
    <3> QED
      BY <2>12, <2>14, <2>18, <3>1
  <2>22. \A n \in BucketStarts(period) : Cardinality(HeldFrom(S \cup {one}, p, n)) = sums'.bucket[n]
    <3>1. ASSUME NEW n \in BucketStarts(period)
          PROVE  Cardinality(HeldFrom(S \cup {one}, p, n)) =
                   IF Within(one.at, p) /\ one.at <= today /\ Truncated(one.at) = n
                   THEN Cardinality(HeldFrom(S, p, n)) + 1 ELSE Cardinality(HeldFrom(S, p, n))
      BY <2>h DEF CountsOnce
    <3> QED
      BY <2>12, <2>14, <2>18, <3>1
  <2>23. /\ earliest = -1 => \A x \in S : ~(x.at <= d)
         /\ earliest # -1 => \E x \in S : x.at = earliest /\ x.at <= d
         /\ \A x \in S : x.at <= d => earliest <= x.at
    BY <2>2, <2>4, <2>13 DEF SumInv, TalliedOK, EarliestOK
  <2>24. PICK now \in Int : now = sums'.earliest
    BY <2>12 DEF SumRec
  <2>25. /\ now = -1 => \A x \in S \cup {one} : ~(x.at <= d)
         /\ now # -1 => \E x \in S \cup {one} : x.at = now /\ x.at <= d
         /\ \A x \in S \cup {one} : x.at <= d => now <= x.at
    <3>1. \A x \in S : x.at \in Nat
      BY <2>13, RowIs
    <3>2. CASE ~(a <= d)
      <4>1. now = earliest
        BY <2>4, <2>12, <2>24, <3>2
      <4> QED
        BY <2>4, <2>23, <3>2, <4>1
    <3>3. CASE a <= d /\ (earliest = -1 \/ a < earliest)
      <4>1. now = a /\ now # -1
        BY <2>4, <2>5, <2>12, <2>24, <3>3
      <4>2. \A x \in S : x.at <= d => now <= x.at
        BY <2>23, <3>1, <3>3, <4>1
      <4> QED
        BY <2>4, <3>3, <4>1, <4>2
    <3>4. CASE a <= d /\ earliest # -1 /\ ~(a < earliest)
      <4>1. now = earliest /\ now <= a
        BY <2>4, <2>5, <2>12, <2>24, <3>4
      <4> QED
        BY <2>4, <2>23, <3>4, <4>1
    <3> QED
      BY <3>2, <3>3, <3>4
  <2>26. EarliestOK'
    BY <2>1, <2>4, <2>13, <2>24, <2>25 DEF EarliestOK
  <2>27. TalliedOK'
    <3>1. IsFiniteSet(tallied') /\ unread' = <<>>
      BY <2>1, <2>13, <2>19
    <3>2. BucketStarts(period)' = BucketStarts(period)
      BY <2>1
    <3> QED
      BY <2>15, <2>16, <2>17, <2>19, <2>20, <2>21, <2>22, <2>26, <3>1, <3>2 DEF TalliedOK
  <2>28. sums' \in SumRec /\ (sums \in SumRec)'
    BY <2>1, <2>12 DEF SumRec
  <2>29. DOMAIN sums'.bucket = BucketStarts(period') /\ DOMAIN sums'.repo = SumRepos
    BY <2>1, <2>28 DEF SumRec
  <2>30. SumTypeOK'
    BY <2>1, <2>29, <1>t DEF SumTypeOK
  <2>31. CanonicalOK'
    BY <2>1 DEF SumInv, CanonicalOK, Left, Stored
  <2> QED
    BY <2>1, <2>27, <2>28, <2>30, <2>31 DEF SumInv, Keyed
<1>3. CASE UNCHANGED sumVars
  <2>1. UNCHANGED <<period, today, input, unread, canonical, tallied, sums>>
    BY <1>3 DEF sumVars
  <2>2. SumTypeOK' /\ (sums \in SumRec)'
    BY <2>1 DEF SumInv, SumTypeOK, SumRec
  <2>3. CanonicalOK'
    BY <2>1 DEF SumInv, CanonicalOK, Left, Stored
  <2>4. TalliedOK'
    BY <2>1 DEF SumInv, TalliedOK, EarliestOK, Held, HeldOf, HeldFrom, Truncated
  <2> QED
    BY <2>1, <2>2, <2>3, <2>4 DEF SumInv, Keyed
<1>4. (\E one \in SumRow : CountRow(one)) => SumInv'
  BY <1>2
<1> QED
  BY <1>1, <1>3, <1>4 DEF SumNext

\* Counting keeps the invariant (shared/pulse.ts, pulse-store.ts).
LEMMA SumInvariance == SumSpec => []SumInv
<1>1. SumInit => SumInv
  BY SumStart
<1>2. SumInv /\ [SumNext]_sumVars => SumInv'
  BY SumStep
<1> QED
  BY <1>1, <1>2, PTL DEF SumSpec

\* The browser and the database count the same numbers though each picks one of an event's rows in
\* a way of its own; those of repositories where rows of one time do not differ in theirs
\* (shared/pulse.ts, pulse-store.ts).
THEOREM SumsAreSafe == SumSpec => [](SumTypeOK /\ SumsSafe)
<1>1. SumInv => SumTypeOK /\ SumsSafe
  BY SumInvSafe
<1> QED
  BY <1>1, SumInvariance, PTL

-----------------------------------------------------------------------------
(* The parts together (MCPages): one of them runs, and the others stay as they are. *)

\* A behaviour of the parts is one of each.
LEMMA EachPartRuns ==
  PagesSpec =>
    /\ SettingsSpec /\ InboundSpec /\ PublicSpec
    /\ RateSpec /\ RetentionSpec /\ ListingSpec
    /\ StartupSpec /\ LegacySpec /\ OutboundSpec
    /\ HookFormSpec /\ ConsoleSpec /\ HealthPageSpec
    /\ RecapSpec /\ DigestSpec /\ PulseSpec
    /\ SumSpec /\ DigestSendSpec
<1>1. PagesInit =>
        /\ SettingsInit /\ InboundInit /\ PublicInit
        /\ RateInit /\ RetentionInit /\ ListingInit
        /\ StartupInit /\ LegacyInit /\ OutboundInit
        /\ HookFormInit /\ ConsoleInit /\ HealthPageInit
        /\ RecapInit /\ DigestInit /\ PulseInit
        /\ SumInit /\ DigestSendInit
  BY DEF PagesInit
<1>2. [PagesNext]_pagesVars =>
        /\ [SettingsNext]_settingsVars /\ [InboundNext]_inboundVars /\ [PublicNext]_publicVars
        /\ [RateNext]_rateVars /\ [RetentionNext]_retentionVars /\ [ListingNext]_listingVars
        /\ [StartupNext]_startupVars /\ [LegacyNext]_legacyVars /\ [OutboundNext]_outboundVars
        /\ [HookFormNext]_formVars /\ [ConsoleNext]_consoleVars /\ [HealthPageNext]_healthPageVars
        /\ [RecapNext]_recapVars /\ [DigestNext]_digestVars /\ [PulseNext]_pulseVars
        /\ [SumNext]_sumVars /\ [DigestSendNext]_sendVars
  BY DEF PagesNext, pagesVars
<1> QED
  BY <1>1, <1>2, PTL DEF PagesSpec, SettingsSpec, InboundSpec, PublicSpec, RateSpec, RetentionSpec, ListingSpec,
     StartupSpec, LegacySpec, OutboundSpec, HookFormSpec, ConsoleSpec, HealthPageSpec,
     RecapSpec, DigestSpec, PulseSpec, SumSpec, DigestSendSpec

\* Every variable of the part that runs has its type.
THEOREM PagesTyped == PagesSpec => []PagesTypeOK
<1>1. SettingsTypeOK /\ InboundTypeOK /\ PublicTypeOK /\ RateTypeOK /\ RetentionTypeOK
        /\ ListingTypeOK /\ StartupTypeOK /\ LegacyTypeOK /\ OutboundTypeOK /\ HookFormTypeOK
        /\ ConsoleTypeOK /\ HealthPageTypeOK /\ RecapTypeOK /\ DigestTypeOK /\ PulseTypeOK
        /\ SumTypeOK /\ DigestSendTypeOK
        => PagesTypeOK
  BY DEF PagesTypeOK
<1> QED
  BY <1>1, EachPartRuns, SettingsAreSafe, InboundIsSafe, PublicFeedIsSafe, RatesAreSafe, RetentionIsSafe,
     ListingsAreSafe, StartsAreSafe, ImportsAreSafe, OutboundIsSafe, FormsAreSafe,
     ConsoleIsSafe, HealthPageIsSafe, RecapsAreSafe, DigestsAreSafe, PulseIsSafe,
     SumsAreSafe, DigestSendsAreSafe, PTL

\* Webhooks tell of their owner's repositories, an alert is announced once, the page reveals and
\* tests what is stored, a form gives back what it was given, and a request goes only to addresses
\* that were checked.
THEOREM WebhooksAreSafe == PagesSpec => []WebhooksSafe
<1>1. SettingsSafe /\ InboundSafe /\ ConsoleSafe /\ OutboundSafe /\ FormSafe
        => WebhooksSafe
  BY DEF WebhooksSafe
<1> QED
  BY <1>1, EachPartRuns, SettingsAreSafe, InboundIsSafe, ConsoleIsSafe, OutboundIsSafe, FormsAreSafe, PTL

\* The public feed, the limits, the upkeep of the tables, GitHub's listings, the Service Health
\* page, the start of processes and the import of old files keep their promises.
THEOREM ServerIsSafe == PagesSpec => []ServerSafe
<1>1. PublicFeedSafe /\ RateSafe /\ RetentionSafe /\ ListingsSafe /\ HealthPageSafe
        /\ StartupSafe /\ LegacySafe
        => ServerSafe
  BY DEF ServerSafe
<1> QED
  BY <1>1, EachPartRuns, PublicFeedIsSafe, RatesAreSafe, RetentionIsSafe, ListingsAreSafe, HealthPageIsSafe,
     StartsAreSafe, ImportsAreSafe, PTL

\* So do digests, their sending, recaps, the activity of a period and its numbers.
THEOREM PeriodsAreSafe == PagesSpec => []PeriodsSafe
<1>1. DigestsSafe /\ DigestSendsSafe /\ RecapsSafe /\ PulseSafe /\ SumsSafe
        => PeriodsSafe
  BY DEF PeriodsSafe
<1> QED
  BY <1>1, EachPartRuns, DigestsAreSafe, DigestSendsAreSafe, RecapsAreSafe, PulseIsSafe, SumsAreSafe, PTL
=============================================================================
