---------------------------- MODULE ServerProofs ----------------------------
(***************************************************************************)
(* Theorems about webhooks and the server, for any values of the           *)
(* constants: webhook settings, inbound endpoints, the single-organization *)
(* server, the limits of requests, retention, GitHub's listings,           *)
(* migrations and the import of old files, outbound requests, and the      *)
(* Webhooks page and its form.                                             *)
(***************************************************************************)
EXTENDS WebhookSettings, InboundHooks, PublicFeed, Upkeep, GitHubListings, Startup,
        WebhookConsole, Outbound, HookForm, TLAPS, FiniteSetTheorems

-----------------------------------------------------------------------------
(* What the parts need of finite sets and of numbers. *)

\* What has one element more than a finite set has one more at most.
LEMMA OneMoreAtMost ==
  ASSUME NEW S, NEW x, NEW R, IsFiniteSet(S), R \subseteq S \cup {x}
  PROVE  IsFiniteSet(R) /\ Cardinality(R) \in Nat /\ Cardinality(R) <= Cardinality(S) + 1
<1>1. IsFiniteSet(S \cup {x})
      /\ Cardinality(S \cup {x}) = IF x \in S THEN Cardinality(S) ELSE Cardinality(S) + 1
  BY FS_AddElement
<1>2. IsFiniteSet(R) /\ Cardinality(R) <= Cardinality(S \cup {x})
  BY <1>1, FS_Subset
<1>3. Cardinality(S) \in Nat /\ Cardinality(R) \in Nat
  BY <1>2, FS_CardinalityType
<1> QED
  BY <1>1, <1>2, <1>3

\* What lacks an element of a finite set has one less at least.
LEMMA OneLessAtMost ==
  ASSUME NEW S, NEW x \in S, NEW R, IsFiniteSet(S), R \subseteq S \ {x}
  PROVE  IsFiniteSet(R) /\ Cardinality(R) \in Nat /\ Cardinality(R) <= Cardinality(S) - 1
<1>1. IsFiniteSet(S \ {x}) /\ Cardinality(S \ {x}) = Cardinality(S) - 1
  BY FS_RemoveElement
<1>2. IsFiniteSet(R) /\ Cardinality(R) <= Cardinality(S \ {x})
  BY <1>1, FS_Subset
<1> QED
  BY <1>1, <1>2, FS_CardinalityType

\* A part of a finite set has no more elements than the set.
LEMMA SubsetAtMost ==
  ASSUME NEW S, NEW R, IsFiniteSet(S), R \subseteq S
  PROVE  IsFiniteSet(R) /\ Cardinality(R) \in Nat /\ Cardinality(R) <= Cardinality(S)
BY FS_Subset, FS_CardinalityType

\* A relation that has the order of some numbers.
Ordering(Below, N) == N \subseteq Nat /\ \A y, z \in N : y < z => <<y, z>> \in Below

\* A set of numbers has a least element, for a well-founded order that refines theirs.
LEMMA LeastBelow ==
  ASSUME NEW Below, NEW N, Ordering(Below, N), IsWellFoundedOn(Below, N),
         NEW R, R \subseteq N, R # {}
  PROVE  \E x \in R : \A y \in R : x <= y
<1>1. PICK x \in R : \A y \in R : ~(<<y, x>> \in Below)
  BY WFMin
<1>2. ASSUME NEW y \in R PROVE x <= y
  <2>1. x \in Nat /\ y \in Nat /\ x \in N /\ y \in N
    BY DEF Ordering
  <2>2. ~(<<y, x>> \in Below)
    BY <1>1
  <2>3. ~(y < x)
    BY <2>1, <2>2 DEF Ordering
  <2> QED
    BY <2>1, <2>3
<1> QED
  BY <1>2

\* A set of natural numbers has a least element.
LEMMA LeastOne ==
  ASSUME NEW R, R \subseteq Nat, R # {}
  PROVE  \E x \in R : \A y \in R : x <= y
<1>1. Ordering(OpToRel(<, Nat), Nat)
  BY Zenon DEF OpToRel, Ordering
<1> QED
  BY <1>1, NatLessThanWellFounded, LeastBelow, Zenon

\* A bounded set of natural numbers has a greatest element.
LEMMA GreatestOne ==
  ASSUME NEW n \in Nat, NEW R \in SUBSET (0 .. n), R # {}
  PROVE  \E x \in R : \A y \in R : y <= x
<1> DEFINE Mirror == {m \in 0 .. n : n - m \in R}
<1>1. PICK r \in R : TRUE
  OBVIOUS
<1>2. n - r \in Mirror /\ Mirror \in SUBSET Nat
  OBVIOUS
<1>3. PICK m \in Mirror : \A k \in Mirror : m <= k
  BY <1>2, LeastOne
<1>4. \A y \in R : n - y \in Mirror
  OBVIOUS
<1>5. \A y \in R : y <= n - m
  BY <1>3, <1>4
<1> QED
  BY <1>3, <1>5

-----------------------------------------------------------------------------
(* What webhooks may tell (WebhookSettings). *)

\* The savings that have counted and not yet written.
Counted == {c \in Saving : SavingAt(c, "counted")}

\* The inductive invariant.
SettingsInv ==
  /\ SettingsTypeOK
  /\ \A m \in Member : readable[m] \subseteq hadRead[m]
  /\ \A c \in Saving : saving[c] # NoRow => saving[c].repos \subseteq hadRead[saving[c].by]
  /\ PinsAreTheOwners
  /\ \A h \in Configured : hook[h].paused => ~hook[h].enabled
  /\ IsFiniteSet(Configured)
  /\ Cardinality(Configured) + Cardinality(Counted) <= MaxHooks - 1 + Cardinality(Saving)

\* The savings that count are no more than those there are.
LEMMA CountedFinite ==
  /\ IsFiniteSet(Counted) /\ Cardinality(Counted) \in Nat
  /\ Cardinality(Counted) <= Cardinality(Saving) /\ Cardinality(Saving) \in Nat
<1>1. Counted \subseteq Saving
  BY DEF Counted
<1> QED
  BY <1>1, SubsetAtMost, FS_CardinalityType, WebhookSettingsAssumption

\* A webhook is configured when its row is there.
LEMMA HookRowsKnown ==
  ASSUME SettingsTypeOK, NEW h \in Hook
  PROVE  h \in Configured <=> hook[h] \in Webhooks
BY DEF SettingsTypeOK, Configured, Webhooks, NoRow, Deleted

\* Nothing is configured at first.
LEMMA SettingsStart == SettingsInit => SettingsInv
<1> SUFFICES ASSUME SettingsInit PROVE SettingsInv
  OBVIOUS
<1>1. SettingsTypeOK
  BY DEF SettingsInit, SettingsTypeOK
<1>2. Configured = {} /\ Counted = {}
  BY DEF SettingsInit, Configured, Counted, SavingAt
<1>3. Cardinality(Configured) = 0 /\ Cardinality(Counted) = 0 /\ IsFiniteSet(Configured)
  BY <1>2, FS_EmptySet
<1>4. Cardinality(Configured) + Cardinality(Counted) <= MaxHooks - 1 + Cardinality(Saving)
  BY <1>3, CountedFinite, WebhookSettingsAssumption
<1>5. \A m \in Member : readable[m] \subseteq hadRead[m]
  BY DEF SettingsInit
<1>6. \A c \in Saving : saving[c] = NoRow
  BY DEF SettingsInit
<1> QED
  BY <1>1, <1>2, <1>3, <1>4, <1>5, <1>6 DEF SettingsInv, PinsAreTheOwners

\* Every step of a reader, of a saving and of a signal.
LEMMA SettingsStep == SettingsInv /\ [SettingsNext]_settingsVars => SettingsInv'
<1> SUFFICES ASSUME SettingsInv, [SettingsNext]_settingsVars PROVE SettingsInv'
  OBVIOUS
<1> USE DEF NoRow, Deleted, people
<1>t. SettingsTypeOK
  BY DEF SettingsInv
<1>f. IsFiniteSet(Configured) /\ Cardinality(Configured) \in Nat /\ IsFiniteSet(Counted)
      /\ Cardinality(Counted) \in Nat /\ Cardinality(Saving) \in Nat /\ MaxHooks \in Nat
  BY CountedFinite, FS_CardinalityType, WebhookSettingsAssumption DEF SettingsInv
<1>cap. Cardinality(Configured) + Cardinality(Counted) <= MaxHooks - 1 + Cardinality(Saving)
  BY DEF SettingsInv
<1>k. ASSUME Configured' \subseteq Configured, Counted' \subseteq Counted
      PROVE  /\ IsFiniteSet(Configured')
             /\ Cardinality(Configured') + Cardinality(Counted') <= MaxHooks - 1 + Cardinality(Saving)
  <2>1. IsFiniteSet(Configured') /\ Cardinality(Configured') \in Nat
        /\ Cardinality(Configured') <= Cardinality(Configured)
    BY <1>f, <1>k, SubsetAtMost
  <2>2. Cardinality(Counted') \in Nat /\ Cardinality(Counted') <= Cardinality(Counted)
    BY <1>f, <1>k, SubsetAtMost
  <2> QED
    BY <1>f, <1>cap, <2>1, <2>2
<1>1. ASSUME NEW m \in Member, ReadableTurns(m) PROVE SettingsInv'
  <2>1. SettingsTypeOK'
    BY <1>1, <1>t DEF ReadableTurns, SettingsTypeOK
  <2>2. Configured' = Configured /\ Counted' = Counted
    BY <1>1 DEF ReadableTurns, Configured, Counted, SavingAt
  <2>3. \A n \in Member : hadRead[n] \subseteq hadRead'[n] /\ readable'[n] \subseteq hadRead'[n]
    BY <1>1, <1>t DEF ReadableTurns, SettingsTypeOK, SettingsInv
  <2>4. \A h \in Configured : hook[h].owner \in Member
    BY <1>t, HookRowsKnown DEF Configured, Webhooks
  <2>5. \A c \in Saving : saving[c] # NoRow => saving[c].by \in Member
    BY <1>t DEF SettingsTypeOK, Savings
  <2>6. PinsAreTheOwners'
    BY <1>1, <2>2, <2>3, <2>4 DEF ReadableTurns, PinsAreTheOwners, SettingsInv
  <2>7. \A c \in Saving : saving'[c] # NoRow => saving'[c].repos \subseteq hadRead'[saving'[c].by]
    BY <1>1, <2>3, <2>5 DEF ReadableTurns, SettingsInv
  <2>8. \A h \in Configured' : hook'[h].paused => ~hook'[h].enabled
    BY <1>1, <2>2 DEF ReadableTurns, SettingsInv
  <2> QED
    BY <1>f, <1>cap, <2>1, <2>2, <2>3, <2>6, <2>7, <2>8 DEF SettingsInv
\* A step of one request that leaves the webhooks alone.
<1>h. ASSUME NEW c \in Saving, UNCHANGED people, UNCHANGED hook, SettingsTypeOK',
             \A d \in Saving \ {c} : saving'[d] = saving[d],
             saving'[c] # NoRow => saving'[c].repos \subseteq hadRead'[saving'[c].by],
             Cardinality(Configured) + Cardinality(Counted') <= MaxHooks - 1 + Cardinality(Saving)
      PROVE  SettingsInv'
  <2>1. Configured' = Configured
    BY <1>h DEF Configured
  <2>2. PinsAreTheOwners'
    BY <1>h, <2>1 DEF PinsAreTheOwners, SettingsInv
  <2>3. \A d \in Saving : saving'[d] # NoRow => saving'[d].repos \subseteq hadRead'[saving'[d].by]
    BY <1>h DEF SettingsInv
  <2> QED
    BY <1>h, <1>f, <2>1, <2>2, <2>3 DEF SettingsInv
<1>2. ASSUME NEW c \in Saving, NEW m \in Member, CheckMember(c, m) PROVE SettingsInv'
  <2>1. saving'[c] = [is |-> "checked", by |-> m, repos |-> readable[m]]
        /\ \A d \in Saving \ {c} : saving'[d] = saving[d]
    BY <1>2, <1>t DEF CheckMember, SettingsTypeOK
  <2>2. SettingsTypeOK'
    BY <1>2, <1>t DEF CheckMember, SettingsTypeOK, Savings
  <2>3. Counted' \subseteq Counted
    BY <2>1 DEF Counted, SavingAt
  <2>4. Configured' = Configured /\ UNCHANGED people /\ UNCHANGED hook
    BY <1>2 DEF CheckMember, Configured
  <2>5. saving'[c].repos \subseteq hadRead'[saving'[c].by]
    BY <2>1, <2>4 DEF SettingsInv
  <2>6. Cardinality(Configured) + Cardinality(Counted') <= MaxHooks - 1 + Cardinality(Saving)
    BY <2>3, <2>4, <1>k
  <2> QED
    BY <1>h, <2>1, <2>2, <2>4, <2>5, <2>6
<1>3. ASSUME NEW c \in Saving, CountHooks(c) PROVE SettingsInv'
  <2>1. UNCHANGED people /\ UNCHANGED hook /\ saving[c] # NoRow /\ saving[c].is = "checked"
        /\ Configured' = Configured
    BY <1>3 DEF CountHooks, SavingAt, Configured
  <2>r. saving[c] \in Savings /\ saving[c].repos \subseteq hadRead[saving[c].by]
    BY <1>t, <2>1 DEF SettingsTypeOK, SettingsInv
  <2>2. CASE Cardinality(Configured) >= MaxHooks
    <3>1. saving' = [saving EXCEPT ![c] = NoRow]
      BY <1>3, <2>2 DEF CountHooks, SavingOver
    <3>2. Counted' \subseteq Counted /\ SettingsTypeOK' /\ saving'[c] = NoRow
          /\ \A d \in Saving \ {c} : saving'[d] = saving[d]
      BY <3>1, <1>t, <2>1 DEF Counted, SavingAt, SettingsTypeOK
    <3>3. Cardinality(Configured) + Cardinality(Counted') <= MaxHooks - 1 + Cardinality(Saving)
      BY <3>2, <2>1, <1>k
    <3> QED
      BY <1>h, <2>1, <3>2, <3>3
  <2>3. CASE ~(Cardinality(Configured) >= MaxHooks)
    <3>1. saving' = [saving EXCEPT ![c].is = "counted"]
      BY <1>3, <2>3 DEF CountHooks
    <3>2. saving'[c] = [saving[c] EXCEPT !.is = "counted"]
          /\ \A d \in Saving \ {c} : saving'[d] = saving[d]
      BY <3>1, <1>t DEF SettingsTypeOK
    <3>3. saving'[c] \in Savings /\ saving'[c].repos = saving[c].repos /\ saving'[c].by = saving[c].by
      BY <3>2, <2>r DEF Savings
    <3>4. SettingsTypeOK'
      BY <3>1, <3>3, <1>t, <2>1 DEF SettingsTypeOK
    <3>5. Counted' \subseteq Saving
      BY DEF Counted
    <3>6. Cardinality(Counted') <= Cardinality(Saving) /\ Cardinality(Counted') \in Nat
      BY <3>5, SubsetAtMost, WebhookSettingsAssumption
    <3>7. Cardinality(Configured) + Cardinality(Counted') <= MaxHooks - 1 + Cardinality(Saving)
      BY <3>6, <2>3, <1>f
    <3>8. saving'[c].repos \subseteq hadRead'[saving'[c].by]
      BY <3>3, <2>r, <2>1
    <3> QED
      BY <1>h, <2>1, <3>2, <3>4, <3>7, <3>8
  <2> QED
    BY <2>2, <2>3
\* A step that changes one webhook, for a request that is over or by the worker.
<1>g. ASSUME NEW h \in Hook, UNCHANGED people, SettingsTypeOK',
             \A i \in Hook \ {h} : hook'[i] = hook[i],
             hook'[h] \in Webhooks =>
               hook'[h].pins \subseteq hadRead[hook'[h].owner] /\ (hook'[h].paused => ~hook'[h].enabled),
             \A d \in Saving : saving'[d] = NoRow \/ saving'[d] = saving[d],
             IsFiniteSet(Configured'),
             Cardinality(Configured') + Cardinality(Counted') <= MaxHooks - 1 + Cardinality(Saving)
      PROVE  SettingsInv'
  <2>1. \A i \in Configured' : i \in Hook /\ hook'[i] \in Webhooks
    BY <1>g DEF SettingsTypeOK, Configured
  <2>2. \A i \in Configured' : i # h => i \in Configured /\ hook'[i] = hook[i]
    BY <1>g DEF Configured
  <2>3. PinsAreTheOwners'
    BY <1>g, <2>1, <2>2 DEF PinsAreTheOwners, SettingsInv
  <2>4. \A i \in Configured' : hook'[i].paused => ~hook'[i].enabled
    BY <1>g, <2>1, <2>2 DEF SettingsInv
  <2>5. \A d \in Saving : saving'[d] # NoRow => saving'[d].repos \subseteq hadRead'[saving'[d].by]
    BY <1>g DEF SettingsInv
  <2> QED
    BY <1>g, <2>3, <2>4, <2>5 DEF SettingsInv
<1>o. ASSUME NEW c \in Saving, SavingOver(c)
      PROVE  /\ saving' \in [Saving -> Savings \cup {NoRow}] /\ saving'[c] = NoRow
             /\ \A d \in Saving : saving'[d] = NoRow \/ saving'[d] = saving[d]
             /\ Counted' = Counted \ {c}
  BY <1>o, <1>t DEF SavingOver, SettingsTypeOK, Counted, SavingAt
<1>4. ASSUME NEW c \in Saving, NEW h \in Hook, NEW item \in Forms, CreateHook(c, h, item)
      PROVE  SettingsInv'
  <2> DEFINE new == [owner |-> saving[c].by, pins |-> saving[c].repos,
                     enabled |-> item.enabled, paused |-> FALSE]
  <2>1. /\ saving[c] # NoRow /\ saving[c].is = "counted" /\ hook[h] = NoRow /\ UNCHANGED people
        /\ hook' = [hook EXCEPT ![h] = new] /\ SavingOver(c)
    BY <1>4 DEF CreateHook, SavingAt
  <2>2. saving[c] \in Savings /\ saving[c].repos \subseteq hadRead[saving[c].by]
    BY <1>t, <2>1 DEF SettingsTypeOK, SettingsInv
  <2>3. new \in Webhooks /\ new.pins \subseteq hadRead[new.owner] /\ (new.paused => ~new.enabled)
    BY <2>2 DEF Webhooks, Savings, Forms
  <2> HIDE DEF new
  <2>4. hook'[h] = new /\ \A i \in Hook \ {h} : hook'[i] = hook[i]
    BY <2>1, <1>t DEF SettingsTypeOK
  <2>5. SettingsTypeOK'
    BY <2>1, <2>3, <1>o, <1>t DEF SettingsTypeOK
  <2>6. Configured' \subseteq Configured \cup {h}
    BY <2>4 DEF Configured
  <2>7. IsFiniteSet(Configured') /\ Cardinality(Configured') \in Nat
        /\ Cardinality(Configured') <= Cardinality(Configured) + 1
    BY <2>6, <1>f, OneMoreAtMost
  <2>8. c \in Counted /\ Counted' = Counted \ {c}
    BY <2>1, <1>o DEF Counted, SavingAt
  <2>9. Cardinality(Counted') \in Nat /\ Cardinality(Counted') <= Cardinality(Counted) - 1
    BY <2>8, <1>f, OneLessAtMost
  <2>10. Cardinality(Configured') + Cardinality(Counted') <= MaxHooks - 1 + Cardinality(Saving)
    BY <2>7, <2>9, <1>f, <1>cap
  <2>11. \A d \in Saving : saving'[d] = NoRow \/ saving'[d] = saving[d]
    BY <2>1, <1>o
  <2>12. UNCHANGED people
    BY <2>1
  <2>13. hook'[h] \in Webhooks =>
           hook'[h].pins \subseteq hadRead[hook'[h].owner] /\ (hook'[h].paused => ~hook'[h].enabled)
    BY <2>3, <2>4
  <2>14. \A i \in Hook \ {h} : hook'[i] = hook[i]
    BY <2>4
  <2>15. IsFiniteSet(Configured')
    BY <2>7
  <2> QED
    BY <1>g, <2>5, <2>10, <2>11, <2>12, <2>13, <2>14, <2>15
<1>5. ASSUME NEW c \in Saving, NEW h \in Hook, NEW item \in Forms, SaveHook(c, h, item)
      PROVE  SettingsInv'
  <2>1. /\ saving[c] # NoRow /\ UNCHANGED people /\ SavingOver(c)
        /\ h \notin Configured => UNCHANGED hook
        /\ h \in Configured => hook' = [hook EXCEPT ![h] = Updated(hook[h], c, item)]
    BY <1>5 DEF SaveHook, SavingAt
  <2>2. saving[c] \in Savings /\ saving[c].repos \subseteq hadRead[saving[c].by]
    BY <1>t, <2>1 DEF SettingsTypeOK, SettingsInv
  <2> DEFINE new == Updated(hook[h], c, item)
  <2>3. h \in Configured =>
          new \in Webhooks /\ new.pins \subseteq hadRead[new.owner] /\ (new.paused => ~new.enabled)
    BY <2>2, <1>t, HookRowsKnown DEF Webhooks, Savings, Forms, Updated
  <2> HIDE DEF new
  <2>4. \A i \in Hook \ {h} : hook'[i] = hook[i]
    BY <2>1, <1>t DEF SettingsTypeOK
  <2>5. hook' \in [Hook -> Webhooks \cup {NoRow, Deleted}]
    BY <2>1, <2>3, <1>t DEF SettingsTypeOK, new
  <2>6. SettingsTypeOK'
    BY <2>1, <2>5, <1>o, <1>t DEF SettingsTypeOK
  <2>7. hook'[h] \in Webhooks =>
          hook'[h].pins \subseteq hadRead[hook'[h].owner] /\ (hook'[h].paused => ~hook'[h].enabled)
    <3>1. CASE h \in Configured
      <4>1. hook'[h] = new
        BY <2>1, <3>1, <1>t DEF SettingsTypeOK, new
      <4> QED
        BY <4>1, <2>3, <3>1
    <3>2. CASE h \notin Configured
      BY <3>2, <2>1, <1>t, HookRowsKnown
    <3> QED
      BY <3>1, <3>2
  <2>8. Configured' \subseteq Configured /\ Counted' \subseteq Counted
    <3>1. \A i \in Configured' : i \in Configured
      BY <2>1, <2>4 DEF Configured
    <3> QED
      BY <3>1, <2>1, <1>o
  <2>9. IsFiniteSet(Configured')
        /\ Cardinality(Configured') + Cardinality(Counted') <= MaxHooks - 1 + Cardinality(Saving)
    BY <2>8, <1>k
  <2>10. \A d \in Saving : saving'[d] = NoRow \/ saving'[d] = saving[d]
    BY <2>1, <1>o
  <2> QED
    BY <1>g, <2>1, <2>4, <2>6, <2>7, <2>9, <2>10
<1>6. ASSUME NEW c \in Saving, NEW h \in Hook, RemoveHook(c, h) PROVE SettingsInv'
  <2>1. /\ UNCHANGED people /\ SavingOver(c) /\ h \in Configured
        /\ hook' = [hook EXCEPT ![h] = Deleted]
    BY <1>6 DEF RemoveHook
  <2>2. hook'[h] = Deleted /\ \A i \in Hook \ {h} : hook'[i] = hook[i]
    BY <2>1, <1>t DEF SettingsTypeOK
  <2>3. hook'[h] \notin Webhooks
    BY <2>2 DEF Webhooks
  <2>4. SettingsTypeOK'
    BY <2>1, <1>o, <1>t DEF SettingsTypeOK
  <2>5. Configured' \subseteq Configured /\ Counted' \subseteq Counted
    BY <2>1, <2>2, <1>o DEF Configured
  <2>6. IsFiniteSet(Configured')
        /\ Cardinality(Configured') + Cardinality(Counted') <= MaxHooks - 1 + Cardinality(Saving)
    BY <2>5, <1>k
  <2>7. \A d \in Saving : saving'[d] = NoRow \/ saving'[d] = saving[d]
    BY <2>1, <1>o
  <2> QED
    BY <1>g, <2>1, <2>2, <2>3, <2>4, <2>6, <2>7
<1>7. ASSUME NEW h \in Hook, HookPauses(h) PROVE SettingsInv'
  <2> DEFINE new == [hook[h] EXCEPT !.enabled = FALSE, !.paused = TRUE]
  <2>1. /\ UNCHANGED people /\ UNCHANGED saving /\ h \in Configured
        /\ hook' = [hook EXCEPT ![h] = new]
    BY <1>7 DEF HookPauses
  <2>2. hook[h] \in Webhooks /\ hook[h].pins \subseteq hadRead[hook[h].owner]
    BY <2>1, <1>t, HookRowsKnown DEF SettingsInv, PinsAreTheOwners
  <2>3. new \in Webhooks /\ new.pins \subseteq hadRead[new.owner] /\ ~new.enabled
    BY <2>2 DEF Webhooks
  <2> HIDE DEF new
  <2>4. hook'[h] = new /\ \A i \in Hook \ {h} : hook'[i] = hook[i]
    BY <2>1, <1>t DEF SettingsTypeOK
  <2>5. SettingsTypeOK'
    BY <2>1, <2>3, <1>t DEF SettingsTypeOK
  <2>6. Configured' \subseteq Configured /\ Counted' \subseteq Counted
    BY <2>1, <2>4 DEF Configured, Counted, SavingAt
  <2>7. IsFiniteSet(Configured')
        /\ Cardinality(Configured') + Cardinality(Counted') <= MaxHooks - 1 + Cardinality(Saving)
    BY <2>6, <1>k
  <2> QED
    BY <1>g, <2>1, <2>3, <2>4, <2>5, <2>7
<1>8. ASSUME NEW c \in Saving, SavingBreaks(c) PROVE SettingsInv'
  <2>1. UNCHANGED people /\ UNCHANGED hook /\ SavingOver(c)
    BY <1>8 DEF SavingBreaks
  <2>2. saving'[c] = NoRow /\ \A d \in Saving \ {c} : saving'[d] = saving[d]
    BY <2>1, <1>t DEF SavingOver, SettingsTypeOK
  <2>3. SettingsTypeOK' /\ Counted' \subseteq Counted /\ Configured' = Configured
    BY <2>1, <1>o, <1>t DEF SettingsTypeOK, Configured
  <2>4. Cardinality(Configured) + Cardinality(Counted') <= MaxHooks - 1 + Cardinality(Saving)
    BY <2>3, <1>k
  <2> QED
    BY <1>h, <2>1, <2>2, <2>3, <2>4
<1>9. CASE UNCHANGED settingsVars
  BY <1>9 DEF settingsVars, SettingsInv, SettingsTypeOK, PinsAreTheOwners, Configured, Counted, SavingAt
<1> QED
  BY <1>1, <1>2, <1>3, <1>4, <1>5, <1>6, <1>7, <1>8, <1>9 DEF SettingsNext

\* The invariant has the types, and no webhook tells more than its owner reads.
LEMMA SettingsInvSafe == SettingsInv => SettingsTypeOK /\ SettingsSafe
<1> SUFFICES ASSUME SettingsInv PROVE SettingsTypeOK /\ SettingsSafe
  OBVIOUS
<1>1. Cardinality(Configured) <= MaxHooks + Cardinality(Saving) - 1
  BY CountedFinite, FS_CardinalityType, WebhookSettingsAssumption DEF SettingsInv
<1> QED
  BY <1>1 DEF SettingsInv, SettingsSafe, RoomHolds

\* The settings keep the invariant (webhook-store.ts, activity-store.ts).
LEMMA SettingsInvariance == SettingsSpec => []SettingsInv
<1> QED
  BY SettingsStart, SettingsStep, PTL DEF SettingsSpec

\* A webhook was given only repositories its owner could read, and the cap of an organization is
\* passed by no more than the requests that were counted at once (webhook-store.ts).
THEOREM SettingsAreSafe == SettingsSpec => [](SettingsTypeOK /\ SettingsSafe)
<1>1. SettingsInv => SettingsTypeOK /\ SettingsSafe
  BY SettingsInvSafe
<1> QED
  BY <1>1, SettingsInvariance, PTL

-----------------------------------------------------------------------------
(* Inbound endpoints (InboundHooks). *)

\* Statements of receipts under way for an endpoint.
Logging(i) ==
  {p \in Posting : posting[p] # NotMade /\ posting[p].is = "log" /\ posting[p].alert[1] = i}

\* Those that began no later than the n-th of them.
Begun(i, rank, n) == {p \in Logging(i) : rank[p] <= n}

\* The log of an endpoint is what the statement that began last, of those that are over, left
\* of it, with the receipts of others that were under way when it began: the n-th.  rank says
\* in which order the statements began.
LoggedBy(i, rank, n, last) ==
  /\ n <= last /\ \A p \in Posting : rank[p] <= last
  /\ Cardinality(receipts[i]) <=
       KeptReceipts - 1 + Cardinality(Posting) - Cardinality(Begun(i, rank, n))
  /\ \A p \in Logging(i) : rank[p] > n =>
       Cardinality(receipts[i] \ Beyond(posting[p].seen)) <=
         KeptReceipts - 1 + Cardinality(Posting) - Cardinality(Begun(i, rank, rank[p]))

\* The log has its limit, but for those that began before what they leave was written.
LogBounded(i) == \E rank \in [Posting -> Nat] : \E n, last \in Nat : LoggedBy(i, rank, n, last)

\* The alert of a post that is stored, or of which the log says so.
Storing(p) == posting[p] # NotMade /\ (posting[p].is = "stored" \/ posting[p].ok)

\* Endpoints differ in what senders use, and stay so.
EndpointsInv ==
  /\ \A i, j \in Made : i # j =>
       inbound[i].slug # inbound[j].slug /\ inbound[i].token # inbound[j].token
  /\ \A i \in Made : inbound[i].token \in used
  /\ IsFiniteSet(Made)
  /\ Cardinality(Made) + Cardinality(making) <= MaxInbound - 1 + Cardinality(Making)

\* What is told of alerts is so.
AlertsInv ==
  /\ AlertsOnce
  /\ \A p \in Posting : posting[p] # NotMade => posting[p].at \in 1 .. MaxPosts
  /\ \A p \in Posting : Storing(p) => alerts[posting[p].alert] > 0

\* Every log is bounded.
LogsInv == \A i \in Inbound : LogBounded(i)

\* The inductive invariant.
InboundInv == InboundTypeOK /\ EndpointsInv /\ AlertsInv /\ LogsInv

\* The bounds of the endpoints.
LEMMA InboundNumbers ==
  /\ MaxInbound \in Nat /\ MaxInbound >= 1 /\ KeptReceipts \in Nat /\ KeptReceipts >= 1
  /\ MaxPosts \in Nat
  /\ IsFiniteSet(Making) /\ Cardinality(Making) \in Nat
  /\ IsFiniteSet(Posting) /\ Cardinality(Posting) \in Nat
BY InboundAssumption, FS_CardinalityType

\* An endpoint is made when its row is there.
LEMMA EndpointRows ==
  ASSUME InboundTypeOK, NEW i \in Inbound
  PROVE  i \in Made <=> inbound[i] \in Endpoints
BY DEF InboundTypeOK, Made, Endpoints, NotMade, Dropped

\* A log of receipts is finite.
LEMMA LogFinite ==
  ASSUME InboundTypeOK, NEW i \in Inbound
  PROVE  IsFiniteSet(receipts[i]) /\ Cardinality(receipts[i]) \in Nat
<1>1. IsFiniteSet(1 .. MaxPosts)
  BY FS_Interval, InboundNumbers
<1>2. receipts[i] \subseteq 1 .. MaxPosts
  BY DEF InboundTypeOK
<1> QED
  BY <1>1, <1>2, SubsetAtMost

\* So are the postings that had begun before another one.
LEMMA BegunFinite ==
  ASSUME NEW i, NEW rank, NEW n
  PROVE  /\ IsFiniteSet(Begun(i, rank, n)) /\ Cardinality(Begun(i, rank, n)) \in Nat
         /\ Cardinality(Begun(i, rank, n)) <= Cardinality(Posting)
<1>1. Begun(i, rank, n) \subseteq Posting
  BY DEF Begun, Logging
<1> QED
  BY <1>1, SubsetAtMost, InboundNumbers

\* What a statement leaves of what it sees: the newest, and one less than are kept.
LEMMA FewAreLeft ==
  ASSUME NEW S \in SUBSET (1 .. MaxPosts)
  PROVE  IsFiniteSet(S \ Beyond(S)) /\ Cardinality(S \ Beyond(S)) \in Nat
         /\ Cardinality(S \ Beyond(S)) <= KeptReceipts - 1
<1> DEFINE L == S \ Beyond(S)
<1>1. IsFiniteSet(1 .. MaxPosts)
  BY FS_Interval, InboundNumbers
<1>2. IsFiniteSet(S)
  BY <1>1, SubsetAtMost
<1>3. L \subseteq S
  OBVIOUS
<1>f. IsFiniteSet(L) /\ Cardinality(L) \in Nat
  BY <1>2, <1>3, SubsetAtMost
<1>4. CASE L = {}
  <2>1. Cardinality(L) = 0
    BY <1>4, FS_EmptySet
  <2> QED
    BY <2>1, <1>f, InboundNumbers
<1>5. CASE L # {}
  <2>0. 1 .. MaxPosts \subseteq Nat
    BY InboundNumbers
  <2>1. L \subseteq Nat
    BY <1>3, <2>0
  <2>2. PICK r \in L : \A q \in L : r <= q
    BY <1>5, <2>1, LeastOne
  <2> DEFINE N == {q \in S : q > r}
  <2>3. ~(Cardinality(N) >= KeptReceipts - 1)
    BY <2>2 DEF Beyond
  <2>4. L \subseteq N \cup {r}
    BY <2>1, <2>2
  <2>5. N \subseteq S
    OBVIOUS
  <2> HIDE DEF L, N
  <2>6. IsFiniteSet(N) /\ Cardinality(N) \in Nat
    BY <2>5, <1>2, SubsetAtMost
  <2>7. Cardinality(L) <= Cardinality(N) + 1
    BY <2>4, <2>6, OneMoreAtMost
  <2>8. Cardinality(L) <= KeptReceipts - 1
    BY <2>3, <2>6, <2>7, <1>f, InboundNumbers
  <2> QED
    BY <2>8, <1>f DEF L
<1> QED
  BY <1>4, <1>5

\* There are no endpoints at first.
LEMMA InboundStart == InboundInit => InboundInv
<1> SUFFICES ASSUME InboundInit PROVE InboundInv
  OBVIOUS
<1>1. InboundTypeOK
  BY InboundNumbers DEF InboundInit, InboundTypeOK, Alert
<1>2. Made = {} /\ making = {}
  BY DEF InboundInit, Made
<1>3. EndpointsInv
  <2>1. IsFiniteSet(Made) /\ Cardinality(Made) = 0 /\ Cardinality(making) = 0
    BY <1>2, FS_EmptySet
  <2> QED
    BY <1>2, <2>1, InboundNumbers DEF EndpointsInv
<1>4. AlertsInv
  <2>1. \A i \in Inbound, m \in Message : <<i, m>> \in Alert
    BY DEF Alert
  <2> QED
    BY <2>1 DEF AlertsInv, AlertsOnce, InboundInit, Storing, Alert
<1>5. ASSUME NEW i \in Inbound PROVE LogBounded(i)
  <2> DEFINE rank == [p \in Posting |-> 0]
  <2>1. Logging(i) = {} /\ receipts[i] = {}
    BY DEF InboundInit, Logging
  <2>2. Begun(i, rank, 0) = {}
    BY <2>1 DEF Begun
  <2>3. Cardinality(receipts[i]) = 0 /\ Cardinality(Begun(i, rank, 0)) = 0
    BY <2>1, <2>2, FS_EmptySet
  <2>4. \A p \in Posting : rank[p] <= 0
    OBVIOUS
  <2>5. rank \in [Posting -> Nat]
    OBVIOUS
  <2> HIDE DEF rank
  <2>6. LoggedBy(i, rank, 0, 0)
    BY <2>1, <2>3, <2>4, InboundNumbers DEF LoggedBy
  <2> QED
    BY <2>5, <2>6 DEF LogBounded
<1> QED
  BY <1>1, <1>3, <1>4, <1>5 DEF InboundInv, LogsInv

\* A step by which nothing is logged and no statement begins keeps the bound of a log.
LEMMA LogKept ==
  ASSUME InboundTypeOK, InboundTypeOK', NEW i \in Inbound, LogBounded(i),
         receipts'[i] \subseteq receipts[i],
         \A p \in Logging(i)' : p \in Logging(i) /\ posting'[p].seen = posting[p].seen
  PROVE  LogBounded(i)'
<1>1. PICK rank \in [Posting -> Nat], n \in Nat, last \in Nat : LoggedBy(i, rank, n, last)
  BY DEF LogBounded
<1>2. \A m : Begun(i, rank, m)' \subseteq Begun(i, rank, m)
  BY DEF Begun
<1>3. \A m : /\ Cardinality(Begun(i, rank, m)') \in Nat /\ Cardinality(Begun(i, rank, m)) \in Nat
             /\ Cardinality(Begun(i, rank, m)') <= Cardinality(Begun(i, rank, m))
  BY <1>2, BegunFinite, SubsetAtMost
<1>4. \A R : /\ Cardinality(receipts'[i] \ R) \in Nat /\ Cardinality(receipts[i] \ R) \in Nat
             /\ Cardinality(receipts'[i] \ R) <= Cardinality(receipts[i] \ R)
  <2> TAKE R
  <2>1. IsFiniteSet(receipts[i])
    BY LogFinite
  <2>2. receipts[i] \ R \subseteq receipts[i] /\ receipts'[i] \ R \subseteq receipts[i] \ R
    OBVIOUS
  <2>3. IsFiniteSet(receipts[i] \ R) /\ Cardinality(receipts[i] \ R) \in Nat
    BY <2>1, <2>2, SubsetAtMost
  <2> QED
    BY <2>2, <2>3, SubsetAtMost
<1>5. /\ Cardinality(receipts'[i]) \in Nat /\ Cardinality(receipts[i]) \in Nat
      /\ Cardinality(receipts'[i]) <= Cardinality(receipts[i])
  BY LogFinite, SubsetAtMost
<1>6. Cardinality(receipts'[i]) <=
        KeptReceipts - 1 + Cardinality(Posting) - Cardinality(Begun(i, rank, n)')
  <2>1. Cardinality(receipts[i]) <=
          KeptReceipts - 1 + Cardinality(Posting) - Cardinality(Begun(i, rank, n))
    BY <1>1 DEF LoggedBy
  <2>2. /\ Cardinality(Begun(i, rank, n)') \in Nat /\ Cardinality(Begun(i, rank, n)) \in Nat
        /\ Cardinality(Begun(i, rank, n)') <= Cardinality(Begun(i, rank, n))
    BY <1>3
  <2> QED
    BY <2>1, <2>2, <1>5, InboundNumbers
<1>7. ASSUME NEW p \in Logging(i)', rank[p] > n
      PROVE  Cardinality(receipts'[i] \ Beyond(posting'[p].seen)) <=
               KeptReceipts - 1 + Cardinality(Posting) - Cardinality(Begun(i, rank, rank[p])')
  <2> DEFINE R == Beyond(posting[p].seen)
  <2>1. p \in Logging(i) /\ posting'[p].seen = posting[p].seen
    OBVIOUS
  <2>2. Cardinality(receipts[i] \ R) <=
          KeptReceipts - 1 + Cardinality(Posting) - Cardinality(Begun(i, rank, rank[p]))
    BY <1>1, <1>7, <2>1 DEF LoggedBy
  <2>3. Beyond(posting'[p].seen) = R
    BY <2>1
  <2> HIDE DEF R
  <2>4. /\ Cardinality(Begun(i, rank, rank[p])') \in Nat /\ Cardinality(Begun(i, rank, rank[p])) \in Nat
        /\ Cardinality(Begun(i, rank, rank[p])') <= Cardinality(Begun(i, rank, rank[p]))
    BY <1>3
  <2>5. /\ Cardinality(receipts'[i] \ R) \in Nat /\ Cardinality(receipts[i] \ R) \in Nat
        /\ Cardinality(receipts'[i] \ R) <= Cardinality(receipts[i] \ R)
    BY <1>4
  <2> QED
    BY <2>2, <2>3, <2>4, <2>5, InboundNumbers
<1>8. LoggedBy(i, rank, n, last)'
  BY <1>1, <1>6, <1>7 DEF LoggedBy
<1> QED
  BY <1>8 DEF LogBounded

\* Every step keeps the types.
LEMMA InboundTypes ==
  ASSUME InboundInv, [InboundNext]_inboundVars
  PROVE  InboundTypeOK'
<1> USE DEF NotMade, Dropped, settings, outbox, postingVars
<1>t. InboundTypeOK /\ \A p \in Posting : posting[p] # NotMade => posting[p].at \in 1 .. MaxPosts
  BY DEF InboundInv, AlertsInv
<1>p. ASSUME NEW p \in Posting, posting[p] # NotMade
      PROVE  posting[p] \in Postings
  BY <1>t, <1>p DEF InboundTypeOK
<1>1. ASSUME NEW c \in Making, CountInbound(c) PROVE InboundTypeOK'
  BY <1>1, <1>t DEF CountInbound, InboundTypeOK
<1>2. ASSUME NEW c \in Making, NEW i \in Inbound, NEW s \in Slug, NEW t \in Token,
             NEW secret \in BOOLEAN, CreateInbound(c, i, s, t, secret)
      PROVE  InboundTypeOK'
  BY <1>2, <1>t DEF CreateInbound, InboundTypeOK, Endpoints
<1>3. ASSUME NEW i \in Inbound, NEW secret \in BOOLEAN, UpdateInbound(i, secret)
      PROVE  InboundTypeOK'
  <2>1. inbound[i] \in Endpoints
    BY <1>3, <1>t, EndpointRows DEF UpdateInbound
  <2>2. [inbound[i] EXCEPT !.secret = secret] \in Endpoints
    BY <2>1 DEF Endpoints
  <2> QED
    BY <1>3, <1>t, <2>2 DEF UpdateInbound, InboundTypeOK
<1>4. ASSUME NEW i \in Inbound, NEW t \in Token, RotateInbound(i, t)
      PROVE  InboundTypeOK'
  <2>1. inbound[i] \in Endpoints
    BY <1>4, <1>t, EndpointRows DEF RotateInbound
  <2>2. [inbound[i] EXCEPT !.token = t] \in Endpoints
    BY <2>1 DEF Endpoints
  <2> QED
    BY <1>4, <1>t, <2>2 DEF RotateInbound, InboundTypeOK
<1>5. ASSUME NEW i \in Inbound, RemoveInbound(i) PROVE InboundTypeOK'
  BY <1>5, <1>t DEF RemoveInbound, InboundTypeOK
<1>6. ASSUME NEW p \in Posting, NEW i \in Inbound, NEW signed \in BOOLEAN,
             NEW m \in Message \cup {NoMessage}, ReceivePost(p, i, signed, m)
      PROVE  InboundTypeOK'
  <2>1. PICK step \in {"record", "reject"} :
          posting' = [posting EXCEPT ![p] =
            [is |-> step, alert |-> <<i, m>>, ok |-> FALSE, at |-> posts + 1, seen |-> {}]]
    BY <1>6 DEF ReceivePost
  <2>2. posts \in Nat /\ posts + 1 \in 1 .. MaxPosts /\ posts' = posts + 1
    BY <1>6, <1>t, InboundNumbers DEF ReceivePost, InboundTypeOK
  <2>3. [is |-> step, alert |-> <<i, m>>, ok |-> FALSE, at |-> posts + 1, seen |-> {}] \in Postings
    BY <2>2 DEF Postings, Alert
  <2>4. posting' \in [Posting -> Postings \cup {NotMade}] /\ posts' \in 0 .. MaxPosts
    BY <2>1, <2>2, <2>3, <1>t DEF InboundTypeOK
  <2> QED
    BY <1>6, <1>t, <2>4 DEF ReceivePost, InboundTypeOK
<1>7. ASSUME NEW p \in Posting, RecordAlert(p) PROVE InboundTypeOK'
  <2>1. posting[p] \in Postings
    BY <1>7, <1>p DEF RecordAlert, PostingAt
  <2>2. [posting[p] EXCEPT !.is = "stored"] \in Postings /\ posting[p].alert \in Alert
    BY <2>1 DEF Postings
  <2>3. posting' \in [Posting -> Postings \cup {NotMade}]
    BY <1>7, <1>t, <2>2 DEF RecordAlert, InboundTypeOK
  <2>4. alerts' \in [Alert -> Nat]
    BY <1>7, <1>t, <2>2 DEF RecordAlert, Recorded, InboundTypeOK
  <2> QED
    BY <1>7, <1>t, <2>3, <2>4 DEF RecordAlert, InboundTypeOK
<1>8. ASSUME NEW p \in Posting, BeginReceipt(p) PROVE InboundTypeOK'
  <2>1. posting[p] \in Postings
    BY <1>8, <1>p DEF BeginReceipt, PostingAt
  <2>2. receipts[posting[p].alert[1]] \in SUBSET (1 .. MaxPosts)
    BY <2>1, <1>t DEF Postings, Alert, InboundTypeOK
  <2>3. [posting[p] EXCEPT !.is = "log", !.ok = posting[p].is = "stored",
                           !.seen = receipts[posting[p].alert[1]]] \in Postings
    BY <2>1, <2>2 DEF Postings
  <2> QED
    BY <1>8, <1>t, <2>3 DEF BeginReceipt, InboundTypeOK
<1>9. ASSUME NEW p \in Posting, Receipt(p) PROVE InboundTypeOK'
  <2>1. posting[p] \in Postings /\ posting[p].at \in 1 .. MaxPosts
    BY <1>9, <1>p, <1>t DEF Receipt, PostingAt
  <2>2. posting[p].alert \in Alert
    BY <2>1 DEF Postings
  <2>3. posting' \in [Posting -> Postings \cup {NotMade}]
    BY <1>9, <1>t DEF Receipt, InboundTypeOK
  <2>4. receipts' \in [Inbound -> SUBSET (1 .. MaxPosts)] /\ postAnswers' \subseteq Alert
    BY <1>9, <1>t, <2>1, <2>2 DEF Receipt, InboundTypeOK
  <2> QED
    BY <1>9, <1>t, <2>3, <2>4 DEF Receipt, InboundTypeOK
<1>10. ASSUME NEW p \in Posting, PostBreaks(p) PROVE InboundTypeOK'
  BY <1>10, <1>t DEF PostBreaks, InboundTypeOK
<1>11. CASE UNCHANGED inboundVars
  BY <1>11, <1>t DEF inboundVars, InboundTypeOK
<1> QED
  BY <1>1, <1>2, <1>3, <1>4, <1>5, <1>6, <1>7, <1>8, <1>9, <1>10, <1>11 DEF InboundNext

\* A step of a post or of the log.
PostStep(p) ==
  \/ \E i \in Inbound, signed \in BOOLEAN, m \in Message \cup {NoMessage} : ReceivePost(p, i, signed, m)
  \/ RecordAlert(p) \/ BeginReceipt(p) \/ Receipt(p) \/ PostBreaks(p)

\* Every step keeps the endpoints in their limit.
LEMMA EndpointsStep ==
  ASSUME InboundInv, [InboundNext]_inboundVars, InboundTypeOK'
  PROVE  EndpointsInv'
<1> USE DEF NotMade, Dropped, settings, outbox, postingVars
<1>t. InboundTypeOK /\ EndpointsInv
  BY DEF InboundInv
<1>f. /\ IsFiniteSet(Made) /\ Cardinality(Made) \in Nat
      /\ IsFiniteSet(making) /\ Cardinality(making) \in Nat
      /\ Cardinality(Made) + Cardinality(making) <= MaxInbound - 1 + Cardinality(Making)
  <2>1. making \subseteq Making
    BY <1>t DEF InboundTypeOK
  <2> QED
    BY <1>t, <2>1, SubsetAtMost, FS_CardinalityType, InboundNumbers DEF EndpointsInv
<1>k. ASSUME Made' \subseteq Made, making' \subseteq making
      PROVE  /\ IsFiniteSet(Made')
             /\ Cardinality(Made') + Cardinality(making') <= MaxInbound - 1 + Cardinality(Making)
  <2>1. IsFiniteSet(Made') /\ Cardinality(Made') \in Nat /\ Cardinality(Made') <= Cardinality(Made)
    BY <1>f, <1>k, SubsetAtMost
  <2>2. Cardinality(making') \in Nat /\ Cardinality(making') <= Cardinality(making)
    BY <1>f, <1>k, SubsetAtMost
  <2> QED
    BY <1>f, <2>1, <2>2, InboundNumbers
<1>u. ASSUME UNCHANGED settings PROVE EndpointsInv'
  BY <1>u, <1>t DEF EndpointsInv, Made
<1>1. ASSUME NEW c \in Making, CountInbound(c) PROVE EndpointsInv'
  <2>1. c \notin making /\ Cardinality(Made) < MaxInbound /\ making' = making \cup {c}
        /\ inbound' = inbound /\ used' = used /\ Made' = Made
    BY <1>1 DEF CountInbound, Made
  <2>2. making' \subseteq Making
    BY DEF InboundTypeOK
  <2>3. Cardinality(making') \in Nat /\ Cardinality(making') <= Cardinality(Making)
    BY <2>2, SubsetAtMost, InboundNumbers
  <2>4. Cardinality(Made) + Cardinality(making') <= MaxInbound - 1 + Cardinality(Making)
    BY <2>1, <2>3, <1>f, InboundNumbers
  <2> QED
    BY <1>t, <2>1, <2>4 DEF EndpointsInv
<1>2. ASSUME NEW c \in Making, NEW i \in Inbound, NEW s \in Slug, NEW t \in Token,
             NEW secret \in BOOLEAN, CreateInbound(c, i, s, t, secret)
      PROVE  EndpointsInv'
  <2>1. c \in making /\ making' = making \ {c} /\ inbound[i] = NotMade /\ t \notin used
    BY <1>2 DEF CreateInbound
  <2>2. Cardinality(making') \in Nat /\ Cardinality(making') <= Cardinality(making) - 1
    BY <2>1, <1>f, OneLessAtMost
  <2>3. CASE SlugFree(s)
    <3> DEFINE new == [slug |-> s, token |-> t, secret |-> secret]
    <3>1. inbound' = [inbound EXCEPT ![i] = new] /\ used' = used \cup {t}
      BY <1>2, <2>3 DEF CreateInbound
    <3>2. inbound'[i] = new /\ \A j \in Inbound \ {i} : inbound'[j] = inbound[j]
      BY <3>1, <1>t DEF InboundTypeOK
    <3>3. Made' \subseteq Made \cup {i}
      BY <3>2 DEF Made
    <3>4. IsFiniteSet(Made') /\ Cardinality(Made') \in Nat /\ Cardinality(Made') <= Cardinality(Made) + 1
      BY <3>3, <1>f, OneMoreAtMost
    <3>5. Cardinality(Made') + Cardinality(making') <= MaxInbound - 1 + Cardinality(Making)
      BY <3>4, <2>2, <1>f, InboundNumbers
    <3>6. i \notin Made
      BY <2>1 DEF Made
    <3>7. \A j \in Made : j \in Inbound /\ inbound'[j] = inbound[j] /\ inbound[j].slug # s
                           /\ inbound[j].token \in used
      BY <2>3, <3>2, <3>6, <1>t DEF SlugFree, EndpointsInv, Made
    <3>8. \A j \in Made : inbound'[j].slug # s /\ inbound'[j].token # t
      BY <3>7, <2>1
    <3>9. inbound'[i].slug = s /\ inbound'[i].token = t
      BY <3>2
    <3>10. \A j, k \in Made' : j # k =>
             inbound'[j].slug # inbound'[k].slug /\ inbound'[j].token # inbound'[k].token
      <4> TAKE j, k \in Made'
      <4>1. CASE j \in Made /\ k \in Made
        BY <4>1, <3>7, <1>t DEF EndpointsInv
      <4>2. CASE j = i
        BY <4>2, <3>3, <3>8, <3>9
      <4>3. CASE k = i
        BY <4>3, <3>3, <3>8, <3>9
      <4> QED
        BY <4>1, <4>2, <4>3, <3>3
    <3>11. \A j \in Made' : inbound'[j].token \in used'
      BY <3>1, <3>3, <3>7, <3>9
    <3> QED
      BY <3>4, <3>5, <3>10, <3>11 DEF EndpointsInv
  <2>4. CASE ~SlugFree(s)
    <3>1. inbound' = inbound /\ used' = used /\ Made' = Made /\ making' \subseteq making
      BY <1>2, <2>1, <2>4 DEF CreateInbound, Made
    <3> QED
      BY <3>1, <1>k, <1>t DEF EndpointsInv
  <2> QED
    BY <2>3, <2>4
\* A change of one endpoint that keeps its slug; its token may be a new one.
<1>c. ASSUME NEW i \in Made, inbound'[i] \in Endpoints, inbound'[i].slug = inbound[i].slug,
             \/ inbound'[i].token = inbound[i].token /\ used' = used
             \/ inbound'[i].token \notin used /\ used' = used \cup {inbound'[i].token},
             making' = making, \A j \in Inbound \ {i} : inbound'[j] = inbound[j]
      PROVE  EndpointsInv'
  <2>1. Made' = Made /\ i \in Inbound
    BY <1>c DEF Made, Endpoints
  <2>2. \A j \in Made : j # i => inbound'[j] = inbound[j] /\ inbound'[j].token # inbound'[i].token
                                  /\ inbound'[j].slug # inbound'[i].slug
    BY <1>c, <1>t DEF EndpointsInv, Made
  <2>3. \A j, k \in Made' : j # k =>
           inbound'[j].slug # inbound'[k].slug /\ inbound'[j].token # inbound'[k].token
    BY <2>1, <2>2, <1>t DEF EndpointsInv
  <2>4. \A j \in Made' : inbound'[j].token \in used'
    BY <1>c, <2>1, <2>2, <1>t DEF EndpointsInv
  <2> QED
    BY <1>c, <1>k, <2>1, <2>3, <2>4 DEF EndpointsInv
<1>3. ASSUME NEW i \in Inbound, NEW secret \in BOOLEAN, UpdateInbound(i, secret)
      PROVE  EndpointsInv'
  <2>1. i \in Made /\ inbound[i] \in Endpoints /\ used' = used /\ making' = making
    BY <1>3, <1>t, EndpointRows DEF UpdateInbound
  <2>2. inbound'[i] = [inbound[i] EXCEPT !.secret = secret]
        /\ \A j \in Inbound \ {i} : inbound'[j] = inbound[j]
    BY <1>3, <1>t DEF UpdateInbound, InboundTypeOK
  <2>3. inbound'[i] \in Endpoints /\ inbound'[i].slug = inbound[i].slug
        /\ inbound'[i].token = inbound[i].token
    BY <2>1, <2>2 DEF Endpoints
  <2> QED
    BY <2>1, <2>2, <2>3, <1>c
<1>4. ASSUME NEW i \in Inbound, NEW t \in Token, RotateInbound(i, t)
      PROVE  EndpointsInv'
  <2>1. i \in Made /\ inbound[i] \in Endpoints /\ t \notin used /\ used' = used \cup {t}
        /\ making' = making
    BY <1>4, <1>t, EndpointRows DEF RotateInbound
  <2>2. inbound'[i] = [inbound[i] EXCEPT !.token = t]
        /\ \A j \in Inbound \ {i} : inbound'[j] = inbound[j]
    BY <1>4, <1>t DEF RotateInbound, InboundTypeOK
  <2>3. inbound'[i] \in Endpoints /\ inbound'[i].slug = inbound[i].slug /\ inbound'[i].token = t
    BY <2>1, <2>2 DEF Endpoints
  <2> QED
    BY <2>1, <2>2, <2>3, <1>c
<1>5. ASSUME NEW i \in Inbound, RemoveInbound(i) PROVE EndpointsInv'
  <2>1. inbound'[i] = Dropped /\ (\A j \in Inbound \ {i} : inbound'[j] = inbound[j])
        /\ used' = used /\ making' = making
    BY <1>5, <1>t DEF RemoveInbound, InboundTypeOK
  <2>2. Made' \subseteq Made /\ \A j \in Made' : inbound'[j] = inbound[j]
    BY <2>1 DEF Made
  <2> QED
    BY <2>1, <2>2, <1>k, <1>t DEF EndpointsInv
<1>6. ASSUME NEW p \in Posting, PostStep(p) PROVE EndpointsInv'
  <2>1. UNCHANGED settings
    BY <1>6 DEF PostStep, ReceivePost, RecordAlert, BeginReceipt, Receipt, PostBreaks
  <2> QED
    BY <2>1, <1>u
<1>7. CASE UNCHANGED inboundVars
  BY <1>7, <1>u DEF inboundVars
<1> QED
  BY <1>1, <1>2, <1>3, <1>4, <1>5, <1>6, <1>7 DEF InboundNext, PostStep

\* Every step announces an alert once.
LEMMA AlertsStep ==
  ASSUME InboundInv, [InboundNext]_inboundVars, InboundTypeOK'
  PROVE  AlertsInv'
<1> USE DEF NotMade, Dropped, settings, outbox, postingVars
<1>t. InboundTypeOK /\ AlertsInv
  BY DEF InboundInv
<1>p. ASSUME NEW p \in Posting, posting[p] # NotMade
      PROVE  posting[p] \in Postings /\ posting[p].alert \in Alert
  BY <1>t, <1>p DEF InboundTypeOK, Postings
<1>a. \A i \in Inbound, m \in Message : <<i, m>> \in Alert
  BY DEF Alert
<1>u. ASSUME UNCHANGED postingVars PROVE AlertsInv'
  BY <1>u, <1>t DEF AlertsInv, AlertsOnce, Storing
\* A step of one post that stores nothing.
<1>s. ASSUME NEW p \in Posting, alerts' = alerts,
             \A q \in Posting \ {p} : posting'[q] = posting[q],
             posting'[p] # NotMade => posting'[p].at \in 1 .. MaxPosts,
             Storing(p)' => alerts[posting'[p].alert] > 0,
             \A x \in postAnswers' : x \in postAnswers \/ alerts[x] > 0
      PROVE  AlertsInv'
  <2>1. AlertsOnce'
    BY <1>s, <1>t DEF AlertsInv, AlertsOnce
  <2>2. \A q \in Posting : posting'[q] # NotMade => posting'[q].at \in 1 .. MaxPosts
    BY <1>s, <1>t DEF AlertsInv
  <2>3. \A q \in Posting : Storing(q)' => alerts'[posting'[q].alert] > 0
    <3> TAKE q \in Posting
    <3>1. CASE q = p
      BY <1>s, <3>1
    <3>2. CASE q # p
      BY <1>s, <1>t, <3>2 DEF AlertsInv, Storing
    <3> QED
      BY <3>1, <3>2
  <2> QED
    BY <2>1, <2>2, <2>3 DEF AlertsInv
<1>1. ASSUME NEW p \in Posting, NEW i \in Inbound, NEW signed \in BOOLEAN,
             NEW m \in Message \cup {NoMessage}, ReceivePost(p, i, signed, m)
      PROVE  AlertsInv'
  <2>1. PICK step \in {"record", "reject"} :
          posting' = [posting EXCEPT ![p] =
            [is |-> step, alert |-> <<i, m>>, ok |-> FALSE, at |-> posts + 1, seen |-> {}]]
    BY <1>1 DEF ReceivePost
  <2>2. posts + 1 \in 1 .. MaxPosts /\ alerts' = alerts /\ postAnswers' = postAnswers
    BY <1>1, <1>t, InboundNumbers DEF ReceivePost, InboundTypeOK
  <2>3. /\ posting'[p].is = step /\ posting'[p].ok = FALSE /\ posting'[p].at = posts + 1
        /\ \A q \in Posting \ {p} : posting'[q] = posting[q]
    BY <2>1, <1>t DEF InboundTypeOK
  <2>4. ~Storing(p)'
    BY <2>3 DEF Storing
  <2> QED
    BY <2>2, <2>3, <2>4, <1>s
<1>2. ASSUME NEW p \in Posting, RecordAlert(p) PROVE AlertsInv'
  <2> DEFINE a == posting[p].alert
  <2>1. posting[p] # NotMade /\ posting[p].is = "record" /\ alerts' = Recorded(a)
        /\ postAnswers' = postAnswers
    BY <1>2 DEF RecordAlert, PostingAt
  <2>2. posting[p] \in Postings /\ a \in Alert
    BY <2>1, <1>p
  <2>3. posting'[p] = [posting[p] EXCEPT !.is = "stored"]
        /\ \A q \in Posting \ {p} : posting'[q] = posting[q]
    BY <1>2, <1>t DEF RecordAlert, InboundTypeOK
  <2>4. posting'[p].alert = a /\ posting'[p].at = posting[p].at
    BY <2>2, <2>3 DEF Postings
  <2> HIDE DEF a
  <2>5. alerts \in [Alert -> Nat]
    BY <1>t DEF InboundTypeOK
  <2>6. \A x \in Alert : alerts'[x] >= alerts[x] /\ alerts'[x] \in Nat
    BY <2>1, <2>2, <2>5 DEF Recorded
  <2>7. alerts'[a] > 0
    BY <2>1, <2>2, <2>5 DEF Recorded
  <2>8. \A i \in Inbound, m \in Message : alerts'[<<i, m>>] <= 1
    <3> TAKE i \in Inbound, m \in Message
    <3>1. alerts[<<i, m>>] <= 1 /\ <<i, m>> \in Alert /\ m # NoMessage
      BY <1>t, <1>a, InboundAssumption DEF AlertsInv, AlertsOnce
    <3>2. CASE <<i, m>> # a
      BY <2>1, <2>2, <2>5, <3>1, <3>2 DEF Recorded
    <3>3. CASE <<i, m>> = a
      <4>1. a[2] # NoMessage
        BY <3>1, <3>3
      <4>2. alerts[a] = 0 \/ alerts[a] = 1
        BY <3>1, <3>3, <2>5
      <4> QED
        BY <2>1, <2>2, <2>5, <3>3, <4>1, <4>2 DEF Recorded
    <3> QED
      BY <3>2, <3>3
  <2>9. \A x \in postAnswers' : alerts'[x] > 0
    <3> TAKE x \in postAnswers'
    <3>1. x \in Alert /\ alerts[x] > 0
      BY <2>1, <1>t DEF AlertsInv, AlertsOnce, InboundTypeOK
    <3> QED
      BY <3>1, <2>5, <2>6
  <2>10. \A q \in Posting : Storing(q)' => alerts'[posting'[q].alert] > 0
    <3> TAKE q \in Posting
    <3>1. CASE q = p
      BY <3>1, <2>4, <2>7
    <3>2. CASE q # p
      <4> SUFFICES ASSUME Storing(q)' PROVE alerts'[posting'[q].alert] > 0
        OBVIOUS
      <4>1. Storing(q) /\ posting[q] # NotMade /\ posting'[q] = posting[q]
        BY <3>2, <2>3 DEF Storing
      <4>2. posting[q].alert \in Alert /\ alerts[posting[q].alert] > 0
        BY <4>1, <1>p, <1>t DEF AlertsInv
      <4> QED
        BY <4>1, <4>2, <2>5, <2>6
    <3> QED
      BY <3>1, <3>2
  <2>11. \A q \in Posting : posting'[q] # NotMade => posting'[q].at \in 1 .. MaxPosts
    BY <2>1, <2>3, <2>4, <1>t DEF AlertsInv
  <2> QED
    BY <2>8, <2>9, <2>10, <2>11 DEF AlertsInv, AlertsOnce
<1>3. ASSUME NEW p \in Posting, BeginReceipt(p) PROVE AlertsInv'
  <2>1. posting[p] # NotMade /\ alerts' = alerts /\ postAnswers' = postAnswers
    BY <1>3 DEF BeginReceipt, PostingAt
  <2>2. posting[p] \in Postings
    BY <2>1, <1>p
  <2>3. posting'[p] = [posting[p] EXCEPT !.is = "log", !.ok = posting[p].is = "stored",
                                         !.seen = receipts[posting[p].alert[1]]]
        /\ \A q \in Posting \ {p} : posting'[q] = posting[q]
    BY <1>3, <1>t DEF BeginReceipt, InboundTypeOK
  <2>4. /\ posting'[p].alert = posting[p].alert /\ posting'[p].at = posting[p].at
        /\ posting'[p].is = "log" /\ posting'[p].ok = (posting[p].is = "stored")
    BY <2>2, <2>3 DEF Postings
  <2>5. Storing(p)' => Storing(p)
    BY <2>1, <2>4 DEF Storing
  <2>6. Storing(p)' => alerts[posting'[p].alert] > 0
    BY <2>4, <2>5, <1>t DEF AlertsInv
  <2>7. posting'[p].at \in 1 .. MaxPosts
    BY <2>1, <2>4, <1>t DEF AlertsInv
  <2> QED
    BY <2>1, <2>3, <2>6, <2>7, <1>s
<1>4. ASSUME NEW p \in Posting, Receipt(p) PROVE AlertsInv'
  <2>1. posting[p] # NotMade /\ alerts' = alerts
        /\ postAnswers' \subseteq (IF posting[p].ok THEN postAnswers \cup {posting[p].alert}
                                     ELSE postAnswers)
    BY <1>4 DEF Receipt, PostingAt
  <2>2. posting'[p] = NotMade /\ \A q \in Posting \ {p} : posting'[q] = posting[q]
    BY <1>4, <1>t DEF Receipt, InboundTypeOK
  <2>3. \A x \in postAnswers' : x \in postAnswers \/ alerts[x] > 0
    BY <2>1, <1>t DEF AlertsInv, Storing
  <2>4. ~Storing(p)'
    BY <2>2 DEF Storing
  <2> QED
    BY <2>1, <2>2, <2>3, <2>4, <1>s
<1>5. ASSUME NEW p \in Posting, PostBreaks(p) PROVE AlertsInv'
  <2>1. alerts' = alerts /\ postAnswers' = postAnswers
    BY <1>5 DEF PostBreaks
  <2>2. posting'[p] = NotMade /\ \A q \in Posting \ {p} : posting'[q] = posting[q]
    BY <1>5, <1>t DEF PostBreaks, InboundTypeOK
  <2>4. ~Storing(p)'
    BY <2>2 DEF Storing
  <2> QED
    BY <2>1, <2>2, <2>4, <1>s
<1>6. ASSUME ~ \E p \in Posting : PostStep(p) PROVE AlertsInv'
  <2>1. UNCHANGED postingVars
    BY <1>6 DEF PostStep, InboundNext, inboundVars, CountInbound, CreateInbound, UpdateInbound,
                RotateInbound, RemoveInbound
  <2> QED
    BY <2>1, <1>u
<1> QED
  BY <1>1, <1>2, <1>3, <1>4, <1>5, <1>6 DEF PostStep

\* Every step keeps each log in its limit, but for what is being posted.
LEMMA LogsStep ==
  ASSUME InboundInv, [InboundNext]_inboundVars, InboundTypeOK', NEW i \in Inbound
  PROVE  LogBounded(i)'
<1> USE DEF NotMade, Dropped, settings, outbox, postingVars
<1>t. InboundTypeOK /\ LogBounded(i)
  BY DEF InboundInv, LogsInv
<1>p. ASSUME NEW p \in Posting, posting[p] # NotMade
      PROVE  posting[p] \in Postings /\ posting[p].alert[1] \in Inbound
  BY <1>t, <1>p DEF InboundTypeOK, Postings, Alert
\* A step of one post that is not in the log afterwards, or not of this endpoint.
<1>o. ASSUME NEW p \in Posting, receipts'[i] \subseteq receipts[i], p \notin Logging(i)',
             \A q \in Posting \ {p} : posting'[q] = posting[q]
      PROVE  LogBounded(i)'
  <2>1. \A q \in Logging(i)' : q \in Logging(i) /\ posting'[q].seen = posting[q].seen
    BY <1>o DEF Logging
  <2> QED
    BY <1>o, <1>t, <2>1, LogKept
<1>1. ASSUME NEW p \in Posting, NEW j \in Inbound, NEW signed \in BOOLEAN,
             NEW m \in Message \cup {NoMessage}, ReceivePost(p, j, signed, m)
      PROVE  LogBounded(i)'
  <2>1. PICK step \in {"record", "reject"} :
          posting' = [posting EXCEPT ![p] =
            [is |-> step, alert |-> <<j, m>>, ok |-> FALSE, at |-> posts + 1, seen |-> {}]]
    BY <1>1 DEF ReceivePost
  <2>2. posting'[p].is = step /\ \A q \in Posting \ {p} : posting'[q] = posting[q]
    BY <2>1, <1>t DEF InboundTypeOK
  <2>3. p \notin Logging(i)' /\ receipts' = receipts
    BY <1>1, <2>2 DEF ReceivePost, Logging
  <2> QED
    BY <2>2, <2>3, <1>o
<1>2. ASSUME NEW p \in Posting, RecordAlert(p) PROVE LogBounded(i)'
  <2>1. posting[p] \in Postings
    BY <1>2, <1>p DEF RecordAlert, PostingAt
  <2>2. posting'[p].is = "stored" /\ \A q \in Posting \ {p} : posting'[q] = posting[q]
    BY <1>2, <2>1, <1>t DEF RecordAlert, InboundTypeOK, Postings
  <2>3. p \notin Logging(i)' /\ receipts' = receipts
    BY <1>2, <2>2 DEF RecordAlert, Logging
  <2> QED
    BY <2>2, <2>3, <1>o
<1>3. ASSUME NEW p \in Posting, BeginReceipt(p) PROVE LogBounded(i)'
  <2>1. posting[p] \in Postings /\ posting[p] # NotMade /\ posting[p].is # "log"
        /\ receipts' = receipts
    BY <1>3, <1>p DEF BeginReceipt, PostingAt
  <2>2. posting'[p] = [posting[p] EXCEPT !.is = "log", !.ok = posting[p].is = "stored",
                                         !.seen = receipts[posting[p].alert[1]]]
        /\ \A q \in Posting \ {p} : posting'[q] = posting[q]
    BY <1>3, <1>t DEF BeginReceipt, InboundTypeOK
  <2>3. posting'[p] # NotMade /\ posting'[p].is = "log" /\ posting'[p].alert = posting[p].alert
        /\ posting'[p].seen = receipts[posting[p].alert[1]]
    BY <2>1, <2>2 DEF Postings
  <2>4. CASE posting[p].alert[1] # i
    <3>1. p \notin Logging(i)'
      BY <2>3, <2>4 DEF Logging
    <3> QED
      BY <2>1, <2>2, <3>1, <1>o
  <2>5. CASE posting[p].alert[1] = i
    <3>1. PICK rank \in [Posting -> Nat], n \in Nat, last \in Nat : LoggedBy(i, rank, n, last)
      BY <1>t DEF LogBounded
    <3> DEFINE later == [rank EXCEPT ![p] = last + 1]
    <3>2. /\ p \notin Logging(i) /\ p \in Logging(i)' /\ Logging(i)' = Logging(i) \cup {p}
          /\ \A q \in Logging(i) : posting'[q] = posting[q]
          /\ posting'[p].seen = receipts[i]
      BY <2>1, <2>2, <2>3, <2>5 DEF Logging
    <3>3. /\ later \in [Posting -> Nat] /\ later[p] = last + 1
          /\ \A q \in Posting \ {p} : later[q] = rank[q]
      OBVIOUS
    <3>b. /\ n <= last /\ \A q \in Posting : rank[q] \in Nat /\ rank[q] <= last
      BY <3>1 DEF LoggedBy
    <3> HIDE DEF later
    <3>4. \A q \in Posting : later[q] <= last + 1
      BY <3>3, <3>b
    <3>5. ASSUME NEW k \in Nat, k <= last PROVE Begun(i, later, k)' = Begun(i, rank, k)
      <4>1. ~(last + 1 <= k)
        BY <3>5
      <4>2. \A q \in Logging(i) : q \in Posting \ {p}
        BY <3>2 DEF Logging
      <4> QED
        BY <3>2, <3>3, <4>1, <4>2 DEF Begun
    <3>6. Cardinality(receipts'[i]) <=
            KeptReceipts - 1 + Cardinality(Posting) - Cardinality(Begun(i, later, n)')
      BY <3>1, <3>5, <3>b, <2>1 DEF LoggedBy
    <3>7. ASSUME NEW q \in Logging(i)', later[q] > n
          PROVE  Cardinality(receipts'[i] \ Beyond(posting'[q].seen)) <=
                   KeptReceipts - 1 + Cardinality(Posting) - Cardinality(Begun(i, later, later[q])')
      <4>1. CASE q = p
        <5>1. Cardinality(Begun(i, later, later[q])') \in Nat
              /\ Cardinality(Begun(i, later, later[q])') <= Cardinality(Posting)
          <6>1. Begun(i, later, later[q])' \subseteq Posting
            BY DEF Begun, Logging
          <6> QED
            BY <6>1, SubsetAtMost, InboundNumbers
        <5>2. receipts'[i] = receipts[i] /\ posting'[q].seen = receipts[i]
              /\ receipts[i] \in SUBSET (1 .. MaxPosts)
          BY <4>1, <2>1, <3>2, <1>t DEF InboundTypeOK
        <5>3. Cardinality(receipts[i] \ Beyond(receipts[i])) \in Nat
              /\ Cardinality(receipts[i] \ Beyond(receipts[i])) <= KeptReceipts - 1
          BY <5>2, FewAreLeft
        <5> QED
          BY <5>1, <5>2, <5>3, InboundNumbers
      <4>2. CASE q # p
        <5>1. q \in Logging(i) /\ q \in Posting /\ later[q] = rank[q] /\ posting'[q] = posting[q]
          BY <4>2, <3>2, <3>3 DEF Logging
        <5>2. rank[q] \in Nat /\ rank[q] <= last /\ rank[q] > n
          BY <5>1, <3>7, <3>b
        <5>3. Begun(i, later, later[q])' = Begun(i, rank, rank[q])
          BY <5>1, <5>2, <3>5
        <5>4. Cardinality(receipts[i] \ Beyond(posting[q].seen)) <=
                KeptReceipts - 1 + Cardinality(Posting) - Cardinality(Begun(i, rank, rank[q]))
          BY <3>1, <5>1, <5>2 DEF LoggedBy
        <5> QED
          BY <5>1, <5>3, <5>4, <2>1
      <4> QED
        BY <4>1, <4>2
    <3>8. LoggedBy(i, later, n, last + 1)'
      BY <3>3, <3>4, <3>6, <3>7, <3>b DEF LoggedBy
    <3> QED
      BY <3>3, <3>8 DEF LogBounded
  <2> QED
    BY <2>4, <2>5
<1>4. ASSUME NEW p \in Posting, Receipt(p) PROVE LogBounded(i)'
  <2> DEFINE j == posting[p].alert[1]
             R == Beyond(posting[p].seen)
             x == posting[p].at
  <2>1. posting[p] \in Postings /\ j \in Inbound /\ posting[p] # NotMade /\ posting[p].is = "log"
    BY <1>4, <1>p DEF Receipt, PostingAt
  <2>2. posting'[p] = NotMade /\ \A q \in Posting \ {p} : posting'[q] = posting[q]
    BY <1>4, <1>t DEF Receipt, InboundTypeOK
  <2>3. p \notin Logging(i)' /\ Logging(i)' = Logging(i) \ {p}
    BY <2>2 DEF Logging
  <2>4. CASE j # i \/ j \notin Made
    <3>1. receipts'[i] = receipts[i]
      BY <1>4, <1>t, <2>1, <2>4 DEF Receipt, InboundTypeOK
    <3> QED
      BY <2>2, <2>3, <3>1, <1>o
  <2>5. CASE j = i /\ j \in Made
    <3>1. receipts'[i] = (receipts[i] \ R) \cup {x} /\ p \in Logging(i)
      BY <1>4, <1>t, <2>1, <2>5 DEF Receipt, InboundTypeOK, Logging
    <3>2. PICK rank \in [Posting -> Nat], n \in Nat, last \in Nat : LoggedBy(i, rank, n, last)
      BY <1>t DEF LogBounded
    <3>b. n <= last /\ \A q \in Posting : rank[q] \in Nat /\ rank[q] <= last
      BY <3>2 DEF LoggedBy
    <3>f. IsFiniteSet(receipts[i]) /\ Cardinality(receipts[i]) \in Nat
      BY <1>t, LogFinite
    <3>3. \A Q : /\ Cardinality(receipts[i] \ Q) \in Nat /\ Cardinality(receipts'[i] \ Q) \in Nat
                 /\ Cardinality(receipts'[i] \ Q) <= Cardinality(receipts[i] \ Q) + 1
      <4> TAKE Q
      <4>1. receipts[i] \ Q \subseteq receipts[i] /\ receipts'[i] \ Q \subseteq (receipts[i] \ Q) \cup {x}
        BY <3>1
      <4>2. IsFiniteSet(receipts[i] \ Q) /\ Cardinality(receipts[i] \ Q) \in Nat
        BY <4>1, <3>f, SubsetAtMost
      <4> QED
        BY <4>1, <4>2, OneMoreAtMost
    <3>4. /\ Cardinality(receipts'[i]) \in Nat /\ Cardinality(receipts'[i]) <= Cardinality(receipts[i]) + 1
          /\ Cardinality(receipts[i] \ R) \in Nat
          /\ Cardinality(receipts'[i]) <= Cardinality(receipts[i] \ R) + 1
      <4>1. receipts'[i] \subseteq receipts[i] \cup {x} /\ receipts[i] \ R \subseteq receipts[i]
            /\ receipts'[i] \subseteq (receipts[i] \ R) \cup {x}
        BY <3>1
      <4>2. IsFiniteSet(receipts[i] \ R) /\ Cardinality(receipts[i] \ R) \in Nat
        BY <4>1, <3>f, SubsetAtMost
      <4> QED
        BY <4>1, <4>2, <3>f, OneMoreAtMost
    \* The statement that is over counts no more among those that began before it ended.
    <3>5. ASSUME NEW k \in Nat, rank[p] <= k
          PROVE  /\ Cardinality(Begun(i, rank, k)') \in Nat /\ Cardinality(Begun(i, rank, k)) \in Nat
                 /\ Cardinality(Begun(i, rank, k)') <= Cardinality(Begun(i, rank, k)) - 1
      <4>1. Begun(i, rank, k)' \subseteq Begun(i, rank, k) \ {p} /\ p \in Begun(i, rank, k)
        BY <2>3, <3>1, <3>5 DEF Begun
      <4>2. IsFiniteSet(Begun(i, rank, k)) /\ Cardinality(Begun(i, rank, k)) \in Nat
        BY BegunFinite
      <4> QED
        BY <4>1, <4>2, OneLessAtMost
    <3>6. rank[p] \in Nat /\ rank[p] <= last
      BY <3>b
    <3> DEFINE m == IF rank[p] > n THEN rank[p] ELSE n
    <3>7. m \in Nat /\ m <= last /\ rank[p] <= m /\ n <= m
      BY <3>6, <3>b
    <3>8. Cardinality(receipts'[i]) <=
            KeptReceipts - 1 + Cardinality(Posting) - Cardinality(Begun(i, rank, m)')
      <4>1. CASE rank[p] > n
        <5>1. Cardinality(receipts[i] \ R) <=
                KeptReceipts - 1 + Cardinality(Posting) - Cardinality(Begun(i, rank, rank[p]))
          BY <3>1, <3>2, <4>1 DEF LoggedBy
        <5>2. m = rank[p]
          BY <4>1
        <5> HIDE DEF R, m, x, j
        <5>3. /\ Cardinality(Begun(i, rank, m)') \in Nat /\ Cardinality(Begun(i, rank, m)) \in Nat
              /\ Cardinality(Begun(i, rank, m)') <= Cardinality(Begun(i, rank, m)) - 1
          BY <3>5, <3>7
        <5> QED
          BY <3>4, <5>1, <5>2, <5>3, InboundNumbers
      <4>2. CASE ~(rank[p] > n)
        <5>1. Cardinality(receipts[i]) <=
                KeptReceipts - 1 + Cardinality(Posting) - Cardinality(Begun(i, rank, n))
          BY <3>2 DEF LoggedBy
        <5>2. m = n
          BY <4>2
        <5> HIDE DEF R, m, x, j
        <5>3. /\ Cardinality(Begun(i, rank, m)') \in Nat /\ Cardinality(Begun(i, rank, m)) \in Nat
              /\ Cardinality(Begun(i, rank, m)') <= Cardinality(Begun(i, rank, m)) - 1
          BY <3>5, <3>7
        <5> QED
          BY <3>4, <3>f, <5>1, <5>2, <5>3, InboundNumbers
      <4> QED
        BY <4>1, <4>2
    <3>9. ASSUME NEW q \in Logging(i)', rank[q] > m
          PROVE  Cardinality(receipts'[i] \ Beyond(posting'[q].seen)) <=
                   KeptReceipts - 1 + Cardinality(Posting) - Cardinality(Begun(i, rank, rank[q])')
      <4> DEFINE Q == Beyond(posting[q].seen)
      <4>1. q \in Logging(i) /\ posting'[q] = posting[q] /\ q \in Posting
        BY <2>2, <2>3 DEF Logging
      <4>2. rank[q] \in Nat /\ rank[q] > n /\ rank[p] <= rank[q]
        BY <4>1, <3>9, <3>7, <3>b, <3>6
      <4>3. Cardinality(receipts[i] \ Q) <=
              KeptReceipts - 1 + Cardinality(Posting) - Cardinality(Begun(i, rank, rank[q]))
        BY <4>1, <4>2, <3>2 DEF LoggedBy
      <4>4. Beyond(posting'[q].seen) = Q
        BY <4>1
      <4> HIDE DEF Q, R, m, x, j
      <4>5. /\ Cardinality(receipts[i] \ Q) \in Nat /\ Cardinality(receipts'[i] \ Q) \in Nat
            /\ Cardinality(receipts'[i] \ Q) <= Cardinality(receipts[i] \ Q) + 1
        BY <3>3
      <4>6. /\ Cardinality(Begun(i, rank, rank[q])') \in Nat /\ Cardinality(Begun(i, rank, rank[q])) \in Nat
            /\ Cardinality(Begun(i, rank, rank[q])') <= Cardinality(Begun(i, rank, rank[q])) - 1
        BY <3>5, <4>2
      <4> QED
        BY <4>3, <4>4, <4>5, <4>6, InboundNumbers
    <3> HIDE DEF m
    <3>10. LoggedBy(i, rank, m, last)'
      BY <3>7, <3>8, <3>9, <3>b DEF LoggedBy
    <3> QED
      BY <3>7, <3>10 DEF LogBounded
  <2> QED
    BY <2>4, <2>5
<1>5. ASSUME NEW p \in Posting, PostBreaks(p) PROVE LogBounded(i)'
  <2>1. posting'[p] = NotMade /\ \A q \in Posting \ {p} : posting'[q] = posting[q]
    BY <1>5, <1>t DEF PostBreaks, InboundTypeOK
  <2>2. p \notin Logging(i)' /\ receipts' = receipts
    BY <1>5, <2>1 DEF PostBreaks, Logging
  <2> QED
    BY <2>1, <2>2, <1>o
<1>6. ASSUME ~ \E p \in Posting : PostStep(p) PROVE LogBounded(i)'
  <2>1. posting' = posting /\ receipts'[i] \subseteq receipts[i]
    <3>1. CASE \E j \in Inbound : RemoveInbound(j)
      BY <3>1, <1>t DEF RemoveInbound, InboundTypeOK
    <3>2. CASE ~ \E j \in Inbound : RemoveInbound(j)
      BY <1>6, <3>2 DEF PostStep, InboundNext, inboundVars, CountInbound, CreateInbound, UpdateInbound,
                RotateInbound
    <3> QED
      BY <3>1, <3>2
  <2>2. \A q \in Logging(i)' : q \in Logging(i) /\ posting'[q].seen = posting[q].seen
    BY <2>1 DEF Logging
  <2> QED
    BY <2>1, <2>2, <1>t, LogKept
<1> QED
  BY <1>1, <1>2, <1>3, <1>4, <1>5, <1>6 DEF PostStep

\* Every step of an owner, of a sender and of a posting.
LEMMA InboundStep == InboundInv /\ [InboundNext]_inboundVars => InboundInv'
<1> SUFFICES ASSUME InboundInv, [InboundNext]_inboundVars PROVE InboundInv'
  OBVIOUS
<1>1. InboundTypeOK'
  BY InboundTypes
<1>2. EndpointsInv' /\ AlertsInv' /\ \A i \in Inbound : LogBounded(i)'
  BY <1>1, EndpointsStep, AlertsStep, LogsStep
<1> QED
  BY <1>1, <1>2 DEF InboundInv, LogsInv

\* The invariant has the types and the promises of the endpoints.
LEMMA InboundInvSafe == InboundInv => InboundTypeOK /\ InboundSafe
<1> SUFFICES ASSUME InboundInv PROVE InboundTypeOK /\ InboundSafe
  OBVIOUS
<1>t. InboundTypeOK /\ EndpointsInv /\ AlertsInv /\ LogsInv
  BY DEF InboundInv
<1>1. Cardinality(Made) <= MaxInbound + Cardinality(Making) - 1
  <2>1. Cardinality(Made) \in Nat /\ Cardinality(making) \in Nat
    <3>1. making \subseteq Making
      BY <1>t DEF InboundTypeOK
    <3> QED
      BY <1>t, <3>1, SubsetAtMost, FS_CardinalityType, InboundNumbers DEF EndpointsInv
  <2> QED
    BY <1>t, <2>1, InboundNumbers DEF EndpointsInv
<1>2. ASSUME NEW i \in Inbound
      PROVE  Cardinality(receipts[i]) <= KeptReceipts + Cardinality(Posting) - 1
  <2>1. PICK rank \in [Posting -> Nat], n \in Nat, last \in Nat : LoggedBy(i, rank, n, last)
    BY <1>t DEF LogsInv, LogBounded
  <2>2. Cardinality(receipts[i]) <=
          KeptReceipts - 1 + Cardinality(Posting) - Cardinality(Begun(i, rank, n))
    BY <2>1 DEF LoggedBy
  <2>3. Cardinality(Begun(i, rank, n)) \in Nat /\ Cardinality(receipts[i]) \in Nat
    BY <1>t, BegunFinite, LogFinite
  <2> QED
    BY <2>2, <2>3, InboundNumbers
<1> QED
  BY <1>t, <1>1, <1>2 DEF InboundSafe, EndpointsApart, EndpointsInv, AlertsInv

\* The endpoints keep the invariant (webhook-store.ts, webhook-app.ts).
LEMMA InboundInvariance == InboundSpec => []InboundInv
<1> QED
  BY InboundStart, InboundStep, PTL DEF InboundSpec

\* Senders reach one endpoint each, logs stay in their limit, and an alert is told once
\* (webhook-store.ts, webhook-app.ts).
THEOREM InboundIsSafe == InboundSpec => [](InboundTypeOK /\ InboundSafe)
<1>1. InboundInv => InboundTypeOK /\ InboundSafe
  BY InboundInvSafe
<1> QED
  BY <1>1, InboundInvariance, PTL

-----------------------------------------------------------------------------
(* The public feed of a single-organization server (PublicFeed). *)

FeedReads ==
  [at : {"authorize", "saved", "get", "waiting", "merge", "list", "answer"},
   key : BOOLEAN, seen : StoredEvents, feed : SUBSET PubEvent]

FeedStreams ==
  [at : {"authorize", "open", "before", "get", "after"}, key : BOOLEAN,
   queue : Seq(PubEvent), event : {"none", "public", "restricted"}]

\* What may hold a restricted event: the store, a read, a stream.
RestrictedKnown ==
  \/ \E e \in PubEvent : kept[e] = "restricted"
  \/ \E r \in PubReader : reader[r] # Unread /\ \E e \in PubEvent : reader[r].seen[e] = "restricted"
  \/ \E s \in PubStream : stream[s] # Unread /\ stream[s].event = "restricted"

\* The feed, with what is under way.
PublicInv ==
  /\ PublicTypeOK
  /\ setup.secret \/ RestrictedKnown => protection
  /\ \A s \in PubStream : stream[s] # Unread /\ stream[s].at \in {"get", "after"} => stream[s].queue # <<>>
  /\ "restricted" \notin disclosed
  /\ IsFiniteSet(Connections)
  /\ Cardinality(Connections) <= MaxConnections

\* The feed is empty at first.
LEMMA PublicStart == PublicInit => PublicInv
<1> SUFFICES ASSUME PublicInit PROVE PublicInv
  OBVIOUS
<1>n. MaxConnections \in Nat /\ PubEnd \in Nat /\ PubEnd >= 1
  BY PublicFeedAssumption
<1>1. Connections = {}
  BY DEF PublicInit, Connections
<1>2. IsFiniteSet(Connections) /\ Cardinality(Connections) <= MaxConnections
  BY <1>1, <1>n, FS_EmptySet
<1>3. ~RestrictedKnown
  BY DEF PublicInit, RestrictedKnown, NoEvents
<1>4. protection \in BOOLEAN /\ (setup.secret => protection)
  BY DEF PublicInit
<1>5. kept \in StoredEvents
  BY DEF PublicInit, StoredEvents, NoEvents
<1>6. upstream \in Upstream
  BY DEF PublicInit, Upstream
<1>7. clockP \in 1 .. PubEnd
  BY <1>n DEF PublicInit
<1>8. PublicTypeOK
  BY <1>4, <1>5, <1>6, <1>7 DEF PublicInit, PublicTypeOK
<1>9. \A s \in PubStream : stream[s] = Unread
  BY DEF PublicInit
<1>10. "restricted" \notin disclosed
  BY DEF PublicInit
<1> QED
  BY <1>2, <1>3, <1>4, <1>8, <1>9, <1>10 DEF PublicInv

\* The kinds of actions: those that leave the streams alone, and those of one stream.
LEMMA PublicStep == PublicInv /\ [PublicNext]_publicVars => PublicInv'
<1> SUFFICES ASSUME PublicInv, [PublicNext]_publicVars PROVE PublicInv'
  OBVIOUS
<1> USE DEF Unread, storeP
<1>t. PublicTypeOK
  BY DEF PublicInv
<1>r. ASSUME NEW r \in PubReader, reader[r] # Unread PROVE reader[r] \in FeedReads
  BY <1>t, <1>r DEF PublicTypeOK, FeedReads
<1>s. ASSUME NEW s \in PubStream, stream[s] # Unread PROVE stream[s] \in FeedStreams
  BY <1>t, <1>s DEF PublicTypeOK, FeedStreams
<1>n. MaxConnections \in Nat /\ PubEnd \in Nat
  BY PublicFeedAssumption
<1>k. IsFiniteSet(Connections) /\ Cardinality(Connections) \in Nat
      /\ Cardinality(Connections) <= MaxConnections
  BY FS_CardinalityType DEF PublicInv
\* Streams that only close.
<1>c. ASSUME Connections' \subseteq Connections
      PROVE  IsFiniteSet(Connections') /\ Cardinality(Connections') <= MaxConnections
  BY <1>c, <1>k, <1>n, SubsetAtMost
\* A step that leaves the streams and what is disclosed.
<1>f. ASSUME UNCHANGED <<stream, disclosed>>, PublicTypeOK', setup'.secret \/ RestrictedKnown' => protection'
      PROVE  PublicInv'
  <2>1. Connections' = Connections
    BY <1>f DEF Connections
  <2>2. \A s \in PubStream : stream'[s] # Unread /\ stream'[s].at \in {"get", "after"} => stream'[s].queue # <<>>
    BY <1>f DEF PublicInv
  <2>3. "restricted" \notin disclosed'
    BY <1>f DEF PublicInv
  <2> QED
    BY <1>f, <1>k, <2>1, <2>2, <2>3 DEF PublicInv
\* Of these, one that changes one reader, or the waiting ones, without a look at the store.
<1>d. ASSUME UNCHANGED <<storeP, stream, disclosed>>, PublicTypeOK',
             \A r \in PubReader : reader'[r] # Unread =>
               reader'[r].seen = NoEvents \/ (reader[r] # Unread /\ reader'[r].seen = reader[r].seen)
      PROVE  PublicInv'
  <2>1. \A e \in PubEvent : NoEvents[e] # "restricted"
    BY DEF NoEvents
  <2>2. RestrictedKnown' => RestrictedKnown
    BY <1>d, <2>1 DEF RestrictedKnown
  <2>3. setup'.secret \/ RestrictedKnown' => protection'
    BY <1>d, <2>2 DEF PublicInv
  <2> QED
    BY <1>d, <1>f, <2>3
\* A change of one read.
<1>e. ASSUME NEW r \in PubReader, UNCHANGED <<storeP, clockP, stream, disclosed>>,
             upstream' \in Upstream, NEW rec, reader' = [reader EXCEPT ![r] = rec],
             rec = Unread \/ (rec \in FeedReads /\
               (rec.seen = NoEvents \/ (reader[r] # Unread /\ rec.seen = reader[r].seen)))
      PROVE  PublicInv'
  <2>1. PublicTypeOK'
    BY <1>e, <1>t DEF PublicTypeOK, FeedReads
  <2>2. reader'[r] = rec /\ \A q \in PubReader \ {r} : reader'[q] = reader[q]
    BY <1>e, <1>t DEF PublicTypeOK
  <2>3. \A q \in PubReader : reader'[q] # Unread =>
          reader'[q].seen = NoEvents \/ (reader[q] # Unread /\ reader'[q].seen = reader[q].seen)
    BY <1>e, <2>2
  <2>4. UNCHANGED <<storeP, stream, disclosed>>
    BY <1>e
  <2> QED
    BY <1>d, <2>1, <2>3, <2>4
<1>1. CASE ClockP
  <2>1. clockP' \in 1 .. PubEnd /\ UNCHANGED <<storeP, upstream, reader, stream, disclosed>>
    BY <1>1, <1>t, <1>n DEF ClockP, PublicTypeOK
  <2>2. PublicTypeOK'
    BY <2>1, <1>t DEF PublicTypeOK
  <2>3. \A r \in PubReader : reader'[r] # Unread => reader[r] # Unread /\ reader'[r].seen = reader[r].seen
    BY <2>1
  <2>4. UNCHANGED <<storeP, stream, disclosed>>
    BY <2>1
  <2> QED
    BY <1>d, <2>2, <2>3, <2>4
<1>2. CASE ProtectOrganization
  <2>1. protection' = TRUE /\ UNCHANGED <<setup, kept, hooked, clockP, upstream, reader, stream, disclosed>>
    BY <1>2 DEF ProtectOrganization
  <2>2. PublicTypeOK'
    BY <2>1, <1>t DEF PublicTypeOK
  <2> QED
    BY <1>f, <2>1, <2>2
<1>3. ASSUME NEW d \in PubHook, NEW e \in PubEvent, WebhookArrives(d, e) PROVE PublicInv'
  <2>1. /\ hooked' = hooked \cup {d} /\ protection' = TRUE /\ kept' = [kept EXCEPT ![e] = "restricted"]
        /\ stream' = Notified(e) /\ UNCHANGED <<setup, clockP, upstream, reader, disclosed>>
    BY <1>3 DEF WebhookArrives, StoreRestricted
  <2>2. \A s \in PubStream :
          \/ stream'[s] = stream[s] \/ stream'[s] = Unread
          \/ /\ stream[s] # Unread /\ stream[s].at # "authorize"
             /\ stream'[s] = [stream[s] EXCEPT !.queue = Append(@, e)]
    BY <2>1 DEF Notified
  <2>3. \A s \in PubStream : stream'[s] = stream[s] \/ stream'[s] = Unread
          \/ /\ stream'[s] \in FeedStreams /\ stream[s] # Unread /\ stream'[s].at = stream[s].at
             /\ stream[s].at # "authorize" /\ stream'[s].queue # <<>>
    <3> TAKE s \in PubStream
    <3>1. ASSUME stream[s] # Unread, stream'[s] = [stream[s] EXCEPT !.queue = Append(@, e)]
          PROVE  stream'[s] \in FeedStreams /\ stream'[s].at = stream[s].at /\ stream'[s].queue # <<>>
      <4>1. stream[s] \in FeedStreams
        BY <3>1, <1>s
      <4>2. stream[s].queue \in Seq(PubEvent)
        BY <4>1 DEF FeedStreams
      <4>3. Append(stream[s].queue, e) \in Seq(PubEvent) /\ Append(stream[s].queue, e) # <<>>
        BY <4>2
      <4> HIDE DEF Unread
      <4>4. stream'[s] = [stream[s] EXCEPT !.queue = Append(stream[s].queue, e)]
        BY <3>1
      <4> QED
        BY <4>1, <4>3, <4>4 DEF FeedStreams
    <3> QED
      BY <2>2, <3>1
  <2>4. stream' \in [PubStream -> {Unread} \cup FeedStreams]
    <3>1. DOMAIN stream' = PubStream /\ stream' = [s \in PubStream |-> stream'[s]]
      BY <2>1 DEF Notified
    <3>2. \A s \in PubStream : stream'[s] \in {Unread} \cup FeedStreams
      BY <2>3, <1>s
    <3> QED
      BY <3>1, <3>2
  <2>5. kept' \in StoredEvents /\ hooked' \subseteq PubHook
    BY <2>1, <1>t DEF PublicTypeOK, StoredEvents
  <2>6. PublicTypeOK'
    BY <2>1, <2>4, <2>5, <1>t DEF PublicTypeOK, FeedStreams
  <2>7. Connections' \subseteq Connections
    BY <2>3 DEF Connections
  <2>8. \A s \in PubStream : stream'[s] # Unread /\ stream'[s].at \in {"get", "after"} => stream'[s].queue # <<>>
    BY <2>3 DEF PublicInv
  <2>9. "restricted" \notin disclosed'
    BY <2>1 DEF PublicInv
  <2> QED
    BY <1>c, <2>1, <2>6, <2>7, <2>8, <2>9 DEF PublicInv
<1>4. ASSUME NEW events \in SUBSET PubEvent, GitHubAnswers(events) PROVE PublicInv'
  <2>1. /\ UNCHANGED <<storeP, clockP, stream, disclosed>>
        /\ upstream' = [cached |-> TRUE, events |-> events, poll |-> clockP + 1, failing |->
                    IF upstream.cached /\ events = upstream.events THEN upstream.failing ELSE 0,
                  gone |-> upstream.gone, pending |-> FALSE]
        /\ reader' = [r \in PubReader |->
             IF reader[r] # Unread /\ reader[r].at = "waiting"
             THEN [reader[r] EXCEPT !.at = "merge", !.feed = events] ELSE reader[r]]
    BY <1>4 DEF GitHubAnswers, TellReaders
  <2>2. upstream \in Upstream /\ clockP \in Nat
    BY <1>t, <1>n DEF PublicTypeOK
  <2>3. upstream' \in Upstream
    <3>1. upstream.failing \in Nat /\ upstream.gone \in BOOLEAN /\ clockP + 1 \in Nat
      BY <2>2 DEF Upstream
    <3>2. (IF upstream.cached /\ events = upstream.events THEN upstream.failing ELSE 0) \in Nat
      BY <3>1
    <3> QED
      BY <2>1, <3>1, <3>2 DEF Upstream
  <2>4. \A r \in PubReader : reader'[r] = reader[r]
          \/ (reader[r] # Unread /\ reader'[r] \in FeedReads /\ reader'[r].seen = reader[r].seen)
    <3> TAKE r \in PubReader
    <3>1. CASE reader[r] # Unread /\ reader[r].at = "waiting"
      <4>1. reader[r] \in FeedReads /\ reader'[r] = [reader[r] EXCEPT !.at = "merge", !.feed = events]
        BY <2>1, <3>1, <1>r
      <4> QED
        BY <4>1, <3>1 DEF FeedReads
    <3>2. CASE ~(reader[r] # Unread /\ reader[r].at = "waiting")
      <4> HIDE DEF Unread
      <4> QED
        BY <2>1, <3>2
    <3> QED
      BY <3>1, <3>2
  <2>5. reader' \in [PubReader -> {Unread} \cup FeedReads]
    <3>1. reader' = [r \in PubReader |-> reader'[r]]
      BY <2>1
    <3>2. \A r \in PubReader : reader'[r] \in {Unread} \cup FeedReads
      BY <2>4, <1>r
    <3> QED
      BY <3>1, <3>2
  <2>6. PublicTypeOK'
    BY <2>1, <2>3, <2>5, <1>t DEF PublicTypeOK, FeedReads
  <2>7. UNCHANGED <<storeP, stream, disclosed>>
    BY <2>1
  <2> QED
    BY <1>d, <2>4, <2>6, <2>7
<1>5. ASSUME NEW gone \in BOOLEAN, NEW wait \in 1 .. 2, GitHubFails(gone, wait) PROVE PublicInv'
  <2>1. /\ UNCHANGED <<storeP, clockP, stream, disclosed>>
        /\ upstream' = [upstream EXCEPT !.pending = FALSE, !.failing = clockP + wait, !.gone = gone]
        /\ reader' = [r \in PubReader |->
             IF reader[r] # Unread /\ reader[r].at = "waiting" THEN Fallback(r, gone) ELSE reader[r]]
    BY <1>5 DEF GitHubFails, TellReaders
  <2>2. upstream \in Upstream /\ clockP + wait \in Nat
    BY <1>t, <1>n DEF PublicTypeOK
  <2>3. upstream' \in Upstream
    BY <2>1, <2>2 DEF Upstream
  <2>4. \A r \in PubReader : reader'[r] = reader[r] \/ reader'[r] = Unread
          \/ (reader[r] # Unread /\ reader'[r] \in FeedReads /\ reader'[r].seen = reader[r].seen)
    <3> TAKE r \in PubReader
    <3>1. CASE reader[r] # Unread /\ reader[r].at = "waiting"
      <4>1. reader[r] \in FeedReads
        BY <3>1, <1>r
      <4>2. reader'[r] = Fallback(r, gone)
        <5> HIDE DEF Unread
        <5> QED
          BY <2>1, <3>1
      <4>3. CASE Fallback(r, gone) = Unread
        BY <4>2, <4>3
      <4>4. CASE Fallback(r, gone) = [reader[r] EXCEPT !.at = "answer"]
        <5>1. [reader[r] EXCEPT !.at = "answer"] \in FeedReads
              /\ [reader[r] EXCEPT !.at = "answer"].seen = reader[r].seen
          BY <4>1 DEF FeedReads
        <5> QED
          BY <4>2, <4>4, <5>1, <3>1
      <4> QED
        BY <4>3, <4>4 DEF Fallback
    <3>2. CASE ~(reader[r] # Unread /\ reader[r].at = "waiting")
      <4> HIDE DEF Unread
      <4> QED
        BY <2>1, <3>2
    <3> QED
      BY <3>1, <3>2
  <2>5. reader' \in [PubReader -> {Unread} \cup FeedReads]
    <3>1. reader' = [r \in PubReader |-> reader'[r]]
      BY <2>1
    <3>2. \A r \in PubReader : reader'[r] \in {Unread} \cup FeedReads
      BY <2>4, <1>r
    <3> QED
      BY <3>1, <3>2
  <2>6. PublicTypeOK'
    BY <2>1, <2>3, <2>5, <1>t DEF PublicTypeOK, FeedReads
  <2>7. UNCHANGED <<storeP, stream, disclosed>>
    BY <2>1
  <2> QED
    BY <1>d, <2>4, <2>6, <2>7
<1>6. ASSUME NEW r \in PubReader, NEW key \in BOOLEAN, ReadFeed(r, key) PROVE PublicInv'
  <2> DEFINE rec == [at |-> "authorize", key |-> key, seen |-> NoEvents, feed |-> {}]
  <2>1. reader' = [reader EXCEPT ![r] = rec] /\ UNCHANGED <<storeP, clockP, upstream, stream, disclosed>>
    BY <1>6 DEF ReadFeed
  <2>2. rec \in FeedReads /\ rec.seen = NoEvents
    BY DEF FeedReads, StoredEvents, NoEvents
  <2>3. upstream' \in Upstream
    BY <2>1, <1>t DEF PublicTypeOK
  <2>4. UNCHANGED <<storeP, clockP, stream, disclosed>>
    BY <2>1
  <2>5. rec = Unread \/ (rec \in FeedReads /\
               (rec.seen = NoEvents \/ (reader[r] # Unread /\ rec.seen = reader[r].seen)))
    BY <2>2
  <2>6. reader' = [reader EXCEPT ![r] = rec]
    BY <2>1
  <2> HIDE DEF rec, Unread
  <2> QED
    BY <1>e, <2>3, <2>4, <2>5, <2>6
<1>7. ASSUME NEW r \in PubReader, reader[r] # Unread, AuthorizeRead(r) \/ GetFeed(r) PROVE PublicInv'
  <2>1. reader[r] \in FeedReads /\ upstream \in Upstream
    BY <1>7, <1>r, <1>t DEF PublicTypeOK
  <2>2. UNCHANGED <<storeP, clockP, stream, disclosed>>
    BY <1>7 DEF AuthorizeRead, GetFeed
  <2>3. upstream' \in Upstream
    BY <1>7, <2>1 DEF AuthorizeRead, GetFeed, Upstream
  <2>4. \E rec : reader' = [reader EXCEPT ![r] = rec] /\
          (rec = Unread \/ (rec \in FeedReads /\ rec.seen = reader[r].seen))
    <3> DEFINE To(step) == [reader[r] EXCEPT !.at = step]
               merge == [reader[r] EXCEPT !.at = "merge", !.feed = upstream.events]
    <3>1. \A step \in {"saved", "answer", "waiting"} : To(step) \in FeedReads /\ To(step).seen = reader[r].seen
      BY <2>1 DEF FeedReads
    <3>2. merge \in FeedReads /\ merge.seen = reader[r].seen
      BY <2>1 DEF FeedReads, Upstream
    <3>3. \/ reader' = [reader EXCEPT ![r] = Unread]
          \/ reader' = [reader EXCEPT ![r] = To("saved")]
          \/ reader' = [reader EXCEPT ![r] = To("answer")]
          \/ reader' = [reader EXCEPT ![r] = To("waiting")]
          \/ reader' = [reader EXCEPT ![r] = merge]
      <4> HIDE DEF Unread
      <4>1. CASE AuthorizeRead(r)
        BY <4>1 DEF AuthorizeRead, ReaderAt
      <4>2. CASE GetFeed(r)
        BY <4>2 DEF GetFeed, ReaderAt, Fallback
      <4> QED
        BY <1>7, <4>1, <4>2
    <3> HIDE DEF To, merge, Unread
    <3> QED
      BY <3>1, <3>2, <3>3
  <2>5. PICK rec : reader' = [reader EXCEPT ![r] = rec] /\
          (rec = Unread \/ (rec \in FeedReads /\ rec.seen = reader[r].seen))
    BY <2>4
  <2>6. rec = Unread \/ (rec \in FeedReads /\
               (rec.seen = NoEvents \/ (reader[r] # Unread /\ rec.seen = reader[r].seen)))
    BY <1>7, <2>5
  <2>7. reader' = [reader EXCEPT ![r] = rec]
    BY <2>5
  <2> HIDE DEF Unread
  <2> QED
    BY <1>e, <2>2, <2>3, <2>6, <2>7
<1>8. ASSUME NEW r \in PubReader, reader[r] # Unread,
             ListSaved(r) \/ ListMerged(r)
      PROVE PublicInv'
  <2>1. reader[r] \in FeedReads /\ UNCHANGED <<storeP, clockP, upstream, stream, disclosed>>
    BY <1>8, <1>r DEF ListSaved, ListMerged
  <2>2. PICK step \in {"get", "answer"} : reader' = [reader EXCEPT ![r] = [reader[r] EXCEPT !.at = step, !.seen = kept]]
    BY <1>8 DEF ListSaved, ListMerged, ReaderAt
  <2> DEFINE rec == [reader[r] EXCEPT !.at = step, !.seen = kept]
  <2>3. rec \in FeedReads /\ rec.seen = kept
    BY <2>1, <1>t DEF FeedReads, PublicTypeOK
  <2> HIDE DEF rec
  <2>4. reader'[r] = rec /\ \A q \in PubReader \ {r} : reader'[q] = reader[q]
    BY <2>2, <1>t DEF PublicTypeOK, rec
  <2>5. reader' \in [PubReader -> {Unread} \cup FeedReads]
    BY <2>2, <2>3, <1>t DEF PublicTypeOK, FeedReads, rec
  <2>6. PublicTypeOK'
    BY <2>1, <2>5, <1>t DEF PublicTypeOK, FeedReads
  <2>7. RestrictedKnown' => RestrictedKnown
    BY <2>1, <2>3, <2>4 DEF RestrictedKnown
  <2>8. setup'.secret \/ RestrictedKnown' => protection'
    BY <2>1, <2>7 DEF PublicInv
  <2> QED
    BY <1>f, <2>1, <2>6, <2>8
<1>9. ASSUME NEW r \in PubReader, reader[r] # Unread, MergeFeed(r) PROVE PublicInv'
  <2>1. /\ reader' = [reader EXCEPT ![r] = [reader[r] EXCEPT !.at = "list"]]
        /\ kept' = [e \in PubEvent |->
             IF kept[e] = "none" /\ e \in reader[r].feed THEN "public" ELSE kept[e]]
        /\ UNCHANGED <<setup, protection, hooked, clockP, upstream, stream, disclosed>>
    BY <1>9 DEF MergeFeed, ReaderAt
  <2>2. reader[r] \in FeedReads
    BY <1>9, <1>r
  <2>3. [reader[r] EXCEPT !.at = "list"] \in FeedReads /\ [reader[r] EXCEPT !.at = "list"].seen = reader[r].seen
    BY <2>2 DEF FeedReads
  <2>4. /\ reader'[r] # Unread => reader'[r].seen = reader[r].seen
        /\ \A q \in PubReader \ {r} : reader'[q] = reader[q]
        /\ reader' \in [PubReader -> {Unread} \cup FeedReads]
    BY <2>1, <2>3, <1>t DEF PublicTypeOK, FeedReads
  <2>5. kept' \in StoredEvents /\ \A e \in PubEvent : kept'[e] = "restricted" => kept[e] = "restricted"
    BY <2>1, <1>t DEF StoredEvents, PublicTypeOK
  <2>6. PublicTypeOK'
    BY <2>1, <2>4, <2>5, <1>t DEF PublicTypeOK, FeedReads
  <2>7. RestrictedKnown' => RestrictedKnown
    BY <1>9, <2>1, <2>4, <2>5 DEF RestrictedKnown
  <2>8. setup'.secret \/ RestrictedKnown' => protection'
    BY <2>1, <2>7 DEF PublicInv
  <2> QED
    BY <1>f, <2>1, <2>6, <2>8
\* Without the key, what is disclosed is not protected.
<1>a. ASSUME NEW kinds \in SUBSET {"none", "public", "restricted"}, NEW key \in BOOLEAN, Allowed(key),
             Disclose(key, kinds), "restricted" \in kinds => RestrictedKnown
      PROVE  "restricted" \notin disclosed' /\ disclosed' \subseteq {"public", "restricted"}
  <2>1. disclosed \subseteq {"public", "restricted"} /\ "restricted" \notin disclosed
    BY <1>t DEF PublicTypeOK, PublicInv
  <2>2. CASE key
    BY <1>a, <2>1, <2>2 DEF Disclose
  <2>3. CASE ~key
    <3>1. ~RestrictedKnown
      BY <1>a, <2>3 DEF Allowed, KeyShown, ProtectedFeed, PublicInv
    <3> QED
      BY <1>a, <2>1, <2>3, <3>1 DEF Disclose
  <2> QED
    BY <2>2, <2>3
<1>10. ASSUME NEW r \in PubReader, reader[r] # Unread, AnswerFeed(r) PROVE PublicInv'
  <2>1. reader[r] \in FeedReads /\ UNCHANGED <<storeP, clockP, upstream, stream>>
        /\ reader' = [reader EXCEPT ![r] = Unread]
    BY <1>10, <1>r DEF AnswerFeed, ReaderAt
  <2>2. "restricted" \notin disclosed' /\ disclosed' \subseteq {"public", "restricted"}
    <3> DEFINE kinds == {reader[r].seen[e] : e \in PubEvent}
    <3>1. CASE Allowed(reader[r].key)
      <4>1. Disclose(reader[r].key, kinds)
        BY <1>10, <3>1 DEF AnswerFeed
      <4>2. reader[r].seen \in StoredEvents /\ reader[r].key \in BOOLEAN
        BY <2>1 DEF FeedReads
      <4>3. kinds \in SUBSET {"none", "public", "restricted"}
        BY <4>2 DEF StoredEvents
      <4>4. "restricted" \in kinds => RestrictedKnown
        BY <1>10 DEF RestrictedKnown
      <4> HIDE DEF kinds
      <4> QED
        BY <1>a, <3>1, <4>1, <4>2, <4>3, <4>4
    <3>2. CASE ~Allowed(reader[r].key)
      BY <1>10, <3>2, <1>t DEF AnswerFeed, PublicTypeOK, PublicInv
    <3> QED
      BY <3>1, <3>2
  <2>3. PublicTypeOK'
    BY <2>1, <2>2, <1>t DEF PublicTypeOK
  <2>4. \A q \in PubReader : reader'[q] # Unread => reader'[q] = reader[q]
    BY <2>1, <1>t DEF PublicTypeOK
  <2>5. RestrictedKnown' => RestrictedKnown
    BY <2>1, <2>4 DEF RestrictedKnown
  <2>6. Connections' = Connections
    BY <2>1 DEF Connections
  <2>7. setup'.secret \/ RestrictedKnown' => protection'
    BY <2>1, <2>5 DEF PublicInv
  <2>8. \A s \in PubStream : stream'[s] # Unread /\ stream'[s].at \in {"get", "after"} => stream'[s].queue # <<>>
    BY <2>1 DEF PublicInv
  <2> QED
    BY <2>2, <2>3, <2>6, <2>7, <2>8, <1>k DEF PublicInv
\* A change of one stream.
<1>g. ASSUME NEW s \in PubStream, UNCHANGED <<storeP, clockP, upstream, reader>>,
             NEW rec, stream' = [stream EXCEPT ![s] = rec],
             \/ rec = Unread
             \/ /\ rec \in FeedStreams /\ (rec.at \in {"get", "after"} => rec.queue # <<>>)
                /\ rec.event = "restricted" => RestrictedKnown,
             "restricted" \notin disclosed', disclosed' \subseteq {"public", "restricted"},
             IsFiniteSet(Connections'), Cardinality(Connections') <= MaxConnections
      PROVE  PublicInv'
  <2>1. stream'[s] = rec /\ \A q \in PubStream \ {s} : stream'[q] = stream[q]
    BY <1>g, <1>t DEF PublicTypeOK
  <2>2. PublicTypeOK'
    BY <1>g, <1>t DEF PublicTypeOK, FeedStreams
  <2>3. RestrictedKnown' => RestrictedKnown
    BY <1>g, <2>1 DEF RestrictedKnown
  <2>4. setup'.secret \/ RestrictedKnown' => protection'
    BY <1>g, <2>3 DEF PublicInv
  <2>5. \A q \in PubStream : stream'[q] # Unread /\ stream'[q].at \in {"get", "after"} => stream'[q].queue # <<>>
    BY <1>g, <2>1 DEF PublicInv
  <2> QED
    BY <1>g, <2>2, <2>4, <2>5 DEF PublicInv
<1>y. disclosed \subseteq {"public", "restricted"} /\ "restricted" \notin disclosed
  BY <1>t DEF PublicTypeOK, PublicInv
<1>z. ASSUME NEW s \in PubStream, NEW rec, stream' = [stream EXCEPT ![s] = rec],
             \/ rec = Unread \/ rec.at = "authorize"
             \/ stream[s] # Unread /\ stream[s].at # "authorize"
      PROVE  IsFiniteSet(Connections') /\ Cardinality(Connections') <= MaxConnections
  <2>1. Connections' \subseteq Connections
    BY <1>z, <1>t DEF Connections, PublicTypeOK
  <2> QED
    BY <2>1, <1>c
<1>11. ASSUME NEW s \in PubStream, NEW key \in BOOLEAN, FollowFeed(s, key) PROVE PublicInv'
  <2> DEFINE rec == [at |-> "authorize", key |-> key, queue |-> <<>>, event |-> "none"]
  <2>1. stream' = [stream EXCEPT ![s] = rec] /\ UNCHANGED <<storeP, clockP, upstream, reader, disclosed>>
    BY <1>11 DEF FollowFeed
  <2>2. rec \in FeedStreams /\ rec.at = "authorize" /\ rec.event = "none"
    BY DEF FeedStreams
  <2> HIDE DEF rec
  <2>3. IsFiniteSet(Connections') /\ Cardinality(Connections') <= MaxConnections
    BY <2>1, <2>2, <1>z
  <2>4. UNCHANGED <<storeP, clockP, upstream, reader>> /\ disclosed' = disclosed
    BY <2>1
  <2> QED
    BY <2>1, <2>2, <2>3, <2>4, <1>y, <1>g
<1>12. ASSUME NEW s \in PubStream, BeforeEvent(s) \/ CloseStream(s) PROVE PublicInv'
  <2>1. stream[s] # Unread /\ UNCHANGED <<storeP, clockP, upstream, reader, disclosed>>
    BY <1>12 DEF BeforeEvent, CloseStream
  <2>2. stream[s] \in FeedStreams
    BY <2>1, <1>s
  <2>3. PICK rec : /\ stream' = [stream EXCEPT ![s] = rec]
                   /\ \/ rec = Unread
                      \/ /\ rec = [stream[s] EXCEPT !.at = "get"] /\ stream[s].queue # <<>>
                         /\ stream[s].at = "open"
    BY <1>12 DEF BeforeEvent, CloseStream
  <2>4. rec = Unread \/ (rec \in FeedStreams /\ rec.queue # <<>> /\ rec.event = stream[s].event
                         /\ stream[s].at = "open")
    BY <2>2, <2>3 DEF FeedStreams
  <2>5. IsFiniteSet(Connections') /\ Cardinality(Connections') <= MaxConnections
    BY <2>1, <2>3, <2>4, <1>z
  <2>6. rec # Unread /\ rec.event = "restricted" => RestrictedKnown
    BY <2>1, <2>4 DEF RestrictedKnown
  <2>7. UNCHANGED <<storeP, clockP, upstream, reader>> /\ disclosed' = disclosed
    BY <2>1
  <2> QED
    BY <2>3, <2>4, <2>5, <2>6, <2>7, <1>y, <1>g
<1>13. ASSUME NEW s \in PubStream, stream[s] # Unread, OpenPublicStream(s) PROVE PublicInv'
  <2>1. stream[s] \in FeedStreams /\ UNCHANGED <<storeP, clockP, upstream, reader, disclosed>>
        /\ stream[s].at = "authorize"
    BY <1>13, <1>s DEF OpenPublicStream, StreamAt
  <2>7. UNCHANGED <<storeP, clockP, upstream, reader>> /\ disclosed' = disclosed
    BY <2>1
  <2>2. CASE KeyShown(stream[s].key) /\ StreamRoom
    <3> DEFINE rec == [stream[s] EXCEPT !.at = "open"]
    <3>1. stream' = [stream EXCEPT ![s] = rec]
      BY <1>13, <2>2 DEF OpenPublicStream, StreamAt
    <3>2. rec \in FeedStreams /\ rec.event = stream[s].event /\ rec.at = "open"
      BY <2>1 DEF FeedStreams
    <3> HIDE DEF rec
    <3>3. Connections' \subseteq Connections \cup {s}
      BY <3>1, <1>t DEF Connections, PublicTypeOK
    <3>4. IsFiniteSet(Connections') /\ Cardinality(Connections') \in Nat
          /\ Cardinality(Connections') <= Cardinality(Connections) + 1
      BY <3>3, <1>k, OneMoreAtMost
    <3>5. Cardinality(Connections') <= MaxConnections
      BY <2>2, <3>4, <1>k, <1>n DEF StreamRoom
    <3>6. rec.event = "restricted" => RestrictedKnown
      BY <1>13, <3>2 DEF RestrictedKnown
    <3> QED
      BY <3>1, <3>2, <3>4, <3>5, <3>6, <2>7, <1>y, <1>g
  <2>3. CASE ~(KeyShown(stream[s].key) /\ StreamRoom)
    <3>1. stream' = [stream EXCEPT ![s] = Unread]
      BY <1>13, <2>3 DEF OpenPublicStream, StreamAt
    <3>2. IsFiniteSet(Connections') /\ Cardinality(Connections') <= MaxConnections
      BY <3>1, <1>z
    <3> HIDE DEF Unread
    <3> QED
      BY <3>1, <3>2, <2>7, <1>y, <1>g
  <2> QED
    BY <2>2, <2>3
<1>14. ASSUME NEW s \in PubStream, stream[s] # Unread, GetEvent(s) PROVE PublicInv'
  <2> DEFINE h == Head(stream[s].queue)
             rec == [stream[s] EXCEPT !.at = "after", !.event = kept[h]]
  <2>1. stream[s] \in FeedStreams /\ UNCHANGED <<storeP, clockP, upstream, reader, disclosed>>
        /\ stream[s].at = "get" /\ stream' = [stream EXCEPT ![s] = rec]
    BY <1>14, <1>s DEF GetEvent, StreamAt
  <2>2. stream[s].queue \in Seq(PubEvent) /\ stream[s].queue # <<>>
    BY <1>14, <2>1 DEF FeedStreams, PublicInv
  <2>3. h \in PubEvent
    BY <2>2
  <2> HIDE DEF h
  <2>4. kept[h] \in {"none", "public", "restricted"}
    BY <2>3, <1>t DEF PublicTypeOK, StoredEvents
  <2>5. rec \in FeedStreams /\ rec.queue = stream[s].queue /\ rec.event = kept[h] /\ rec.at = "after"
    BY <2>1, <2>4 DEF FeedStreams
  <2>6. rec.event = "restricted" => RestrictedKnown
    BY <2>3, <2>5 DEF RestrictedKnown
  <2> HIDE DEF rec
  <2>7. IsFiniteSet(Connections') /\ Cardinality(Connections') <= MaxConnections
    BY <1>14, <2>1, <1>z
  <2>8. UNCHANGED <<storeP, clockP, upstream, reader>> /\ disclosed' = disclosed
    BY <2>1
  <2> QED
    BY <2>1, <2>2, <2>5, <2>6, <2>7, <2>8, <1>y, <1>g
<1>15. ASSUME NEW s \in PubStream, stream[s] # Unread, AfterEvent(s) PROVE PublicInv'
  <2>1. stream[s] \in FeedStreams /\ UNCHANGED <<storeP, clockP, upstream, reader>>
        /\ stream[s].at = "after"
    BY <1>15, <1>s DEF AfterEvent, StreamAt
  <2>2. stream[s].queue \in Seq(PubEvent) /\ stream[s].queue # <<>>
    BY <1>15, <2>1 DEF FeedStreams, PublicInv
  <2>3. CASE Allowed(stream[s].key)
    <3> DEFINE rec == [stream[s] EXCEPT !.at = "open", !.queue = Tail(@), !.event = "none"]
    <3>1. stream' = [stream EXCEPT ![s] = rec] /\ Disclose(stream[s].key, {stream[s].event})
      BY <1>15, <2>3 DEF AfterEvent, StreamAt
    <3>2. Tail(stream[s].queue) \in Seq(PubEvent)
      BY <2>2
    <3>3. rec = [stream[s] EXCEPT !.at = "open", !.queue = Tail(stream[s].queue), !.event = "none"]
      OBVIOUS
    <3> HIDE DEF rec
    <3>4. rec \in FeedStreams /\ rec.at = "open" /\ rec.event = "none"
      BY <2>1, <3>2, <3>3 DEF FeedStreams
    <3>5. IsFiniteSet(Connections') /\ Cardinality(Connections') <= MaxConnections
      BY <1>15, <2>1, <3>1, <1>z
    <3>6. {stream[s].event} \in SUBSET {"none", "public", "restricted"} /\ stream[s].key \in BOOLEAN
      BY <2>1 DEF FeedStreams
    <3>7. "restricted" \in {stream[s].event} => RestrictedKnown
      BY <1>15 DEF RestrictedKnown
    <3>8. "restricted" \notin disclosed' /\ disclosed' \subseteq {"public", "restricted"}
      BY <1>a, <2>3, <3>1, <3>6, <3>7
    <3> QED
      BY <2>1, <3>1, <3>4, <3>5, <3>8, <1>g
  <2>4. CASE ~Allowed(stream[s].key)
    <3>1. stream' = [stream EXCEPT ![s] = Unread] /\ disclosed' = disclosed
      BY <1>15, <2>4 DEF AfterEvent, StreamAt
    <3>2. IsFiniteSet(Connections') /\ Cardinality(Connections') <= MaxConnections
      BY <3>1, <1>z
    <3> HIDE DEF Unread
    <3> QED
      BY <2>1, <3>1, <3>2, <1>y, <1>g
  <2> QED
    BY <2>3, <2>4
<1>16. CASE UNCHANGED publicVars
  <2>1. PublicTypeOK' /\ (RestrictedKnown' => RestrictedKnown)
    BY <1>16, <1>t DEF publicVars, PublicTypeOK, RestrictedKnown
  <2>2. setup'.secret \/ RestrictedKnown' => protection'
    BY <1>16, <2>1 DEF publicVars, PublicInv
  <2> QED
    BY <1>16, <1>f, <2>1, <2>2 DEF publicVars
<1> QED
  BY <1>1, <1>2, <1>3, <1>4, <1>5, <1>6, <1>7, <1>8, <1>9, <1>10, <1>11, <1>12, <1>13, <1>14, <1>15, <1>16
     DEF PublicNext

\* The invariant has the types and the promises of the feed.
LEMMA PublicInvSafe == PublicInv => PublicTypeOK /\ PublicFeedSafe
BY DEF PublicInv, PublicFeedSafe

\* The feed keeps the invariant (app.ts).
LEMMA PublicInvariance == PublicSpec => []PublicInv
<1> QED
  BY PublicStart, PublicStep, PTL DEF PublicSpec

\* Nobody without the dashboard key sees a restricted event, and streams keep their limit (app.ts).
THEOREM PublicFeedIsSafe == PublicSpec => [](PublicTypeOK /\ PublicFeedSafe)
<1>1. PublicInv => PublicTypeOK /\ PublicFeedSafe
  BY PublicInvSafe
<1> QED
  BY <1>1, PublicInvariance, PTL

-----------------------------------------------------------------------------
(* The limits of requests (Upkeep). *)

\* A quotient is the number of times its divisor goes into a number.
LEMMA DivBounds ==
  ASSUME NEW n \in Nat, NEW k \in Nat \ {0}
  PROVE  n \div k \in Nat /\ k * (n \div k) <= n /\ n < k * (n \div k) + k
OBVIOUS

\* A greater number has no smaller quotient.
LEMMA DivMonotone ==
  ASSUME NEW m \in Nat, NEW n \in Nat, NEW k \in Nat \ {0}, m <= n
  PROVE  m \div k <= n \div k
<1> DEFINE a == m \div k
           b == n \div k
<1>1. a \in Nat /\ b \in Nat /\ k * a <= m /\ n < k * b + k
  BY DivBounds
<1> HIDE DEF a, b
<1>2. CASE a >= b + 1
  <2>1. k * a >= k * (b + 1)
    BY <1>1, <1>2
  <2>2. k * (b + 1) = k * b + k
    BY <1>1
  <2> QED
    BY <1>1, <2>1, <2>2
<1>3. a <= b
  BY <1>1, <1>2
<1> QED
  BY <1>3 DEF a, b

\* How many more requests a count lets through in a window.
Room(count, w) == IF count.hits > 0 /\ count.window = w /\ count.hits < Limit THEN Limit - count.hits ELSE 0

\* The same of the counts of every process, one ticket each.
Tickets(c, w) ==
  {t \in Replica \X (1 .. Limit) :
     counted[t[1]][c].hits > 0 /\ counted[t[1]][c].window = w /\ counted[t[1]][c].hits < t[2]}

\* The keys that a process counts.
LimitedKeys(p) == {c \in Client : counted[p][c].hits > 0}

Counts == [window : Windows, hits : Nat, age : 0 .. 3]

\* The counts, with the tickets that processes hold.
RateInv ==
  /\ RateTypeOK
  /\ counted \in [Replica -> [Client -> Counts]]
  /\ \A p \in Replica : IsFiniteSet(LimitedKeys(p)) /\ Cardinality(LimitedKeys(p)) <= MaxKeys
  /\ \A p \in Replica, c \in Client : counted[p][c].hits > 0 => counted[p][c].window <= WindowAt(tick)
  /\ \A c \in Client : limitRow[c].hits <= decided[c][limitRow[c].window]
  /\ \A p \in Replica, c \in Client : counted[p][c].hits <= decided[c][counted[p][c].window]
  /\ \A c \in Client, w \in Windows : decided[c][w] <= Limit => passed[c][w] = decided[c][w]
  /\ \A c \in Client, w \in Windows :
       Room(limitRow[c], w) + Cardinality(Tickets(c, w)) + passed[c][w] <= Limit * restarts[c][w]

\* The bounds of the limits.
LEMMA RateConstants ==
  /\ Limit \in Nat /\ Limit > 0 /\ MaxKeys \in Nat /\ MaxKeys > 0 /\ Length \in Nat \ {0}
  /\ EndOfTicks \in Nat /\ MaxHits \in Nat /\ IsFiniteSet(Replica)
BY RateAssumption

\* Every instant is in a window.
LEMMA WindowIn ==
  ASSUME NEW t \in 0 .. EndOfTicks
  PROVE  WindowAt(t) \in Windows /\ WindowAt(t) \in Nat
<1>1. t \in Nat /\ EndOfTicks \in Nat /\ Length \in Nat \ {0} /\ t <= EndOfTicks
  BY RateConstants
<1>2. t \div Length \in Nat /\ EndOfTicks \div Length \in Nat
  BY <1>1, DivBounds
<1>3. t \div Length <= EndOfTicks \div Length
  BY <1>1, DivMonotone
<1> QED
  BY <1>2, <1>3 DEF WindowAt, Windows

\* Windows are numbers.
LEMMA WindowsAreNat == Windows \subseteq Nat
<1>1. EndOfTicks \in 0 .. EndOfTicks
  BY RateConstants
<1>2. WindowAt(EndOfTicks) \in Nat
  BY <1>1, WindowIn
<1> QED
  BY <1>2 DEF Windows

\* The counts of one window in the processes are finite.
LEMMA TicketsFinite ==
  ASSUME NEW c, NEW w
  PROVE  IsFiniteSet(Tickets(c, w)) /\ Cardinality(Tickets(c, w)) \in Nat
<1>1. IsFiniteSet(Replica) /\ IsFiniteSet(1 .. Limit)
  BY RateConstants, FS_Interval
<1>2. IsFiniteSet(Replica \X (1 .. Limit))
  BY <1>1, FS_Product
<1>3. Tickets(c, w) \subseteq Replica \X (1 .. Limit)
  BY DEF Tickets
<1> QED
  BY <1>2, <1>3, FS_Subset, FS_CardinalityType

\* Nothing has been counted at first.
LEMMA RateStart == RateInit => RateInv
<1> SUFFICES ASSUME RateInit PROVE RateInv
  OBVIOUS
<1>n. Limit \in Nat /\ MaxKeys \in Nat /\ EndOfTicks \in Nat /\ MaxHits \in Nat
  BY RateConstants
<1>1. tick = 0 /\ made = 0 /\ tick \in 0 .. EndOfTicks /\ made \in 0 .. MaxHits
  BY <1>n DEF RateInit
<1>2. 0 \in Windows
  <2>1. EndOfTicks \in 0 .. EndOfTicks
    BY <1>n
  <2>2. WindowAt(EndOfTicks) \in Nat
    BY <2>1, WindowIn
  <2> QED
    BY <2>2 DEF Windows
<1>3. counted \in [Replica -> [Client -> Counts]]
      /\ \A p \in Replica, c \in Client : counted[p][c].hits = 0 /\ counted[p][c].window = 0
  BY <1>2 DEF RateInit, Counts
<1>4. \A f \in {decided, passed, restarts} : f \in [Client -> [Windows -> Nat]]
        /\ \A c \in Client, w \in Windows : f[c][w] = 0
  BY DEF RateInit, NoCounts
<1>5. \A p \in Replica : LimitedKeys(p) = {}
  BY <1>3 DEF LimitedKeys
<1>6. \A p \in Replica : IsFiniteSet(LimitedKeys(p)) /\ Cardinality(LimitedKeys(p)) <= MaxKeys
  BY <1>5, <1>n, FS_EmptySet
<1>7. \A c \in Client : limitRow[c] = [window |-> 0, hits |-> 0]
  BY DEF RateInit
<1>8. limitRow \in [Client -> [window : Windows, hits : Nat]]
  BY <1>2 DEF RateInit
<1>9. \A c \in Client, w \in Windows : Cardinality(Tickets(c, w)) = 0
  <2> TAKE c \in Client, w \in Windows
  <2>1. Tickets(c, w) = {}
    BY <1>3 DEF Tickets
  <2> QED
    BY <2>1, FS_EmptySet
<1>10. counted \in [Replica -> [Client -> [window : Windows, hits : Nat, age : Nat]]]
  BY <1>3 DEF Counts
<1>11. RateTypeOK
  BY <1>1, <1>4, <1>6, <1>8, <1>10 DEF RateTypeOK, RateInit, LimitedKeys
<1>12. \A c \in Client, w \in Windows :
         Room(limitRow[c], w) + Cardinality(Tickets(c, w)) + passed[c][w] <= Limit * restarts[c][w]
  <2> TAKE c \in Client, w \in Windows
  <2>1. Room(limitRow[c], w) = 0
    BY <1>7 DEF Room
  <2>2. passed[c][w] = 0 /\ restarts[c][w] = 0
    BY <1>4
  <2> QED
    BY <1>9, <1>n, <2>1, <2>2
<1>13. \A c \in Client : limitRow[c].hits <= decided[c][limitRow[c].window]
  BY <1>2, <1>4, <1>7
<1>14. \A p \in Replica, c \in Client : counted[p][c].hits <= decided[c][counted[p][c].window]
  BY <1>2, <1>3, <1>4
<1>15. \A c \in Client, w \in Windows : decided[c][w] <= Limit => passed[c][w] = decided[c][w]
  BY <1>4
<1>16. \A p \in Replica, c \in Client : counted[p][c].hits > 0 => counted[p][c].window <= WindowAt(tick)
  BY <1>3
<1> QED
  BY <1>3, <1>6, <1>11, <1>12, <1>13, <1>14, <1>15, <1>16 DEF RateInv

\* What a decision of a count that stands at hits means for the numbers.
LEMMA DecideCounts ==
  ASSUME RateInv, NEW c \in Client, NEW w \in Windows, NEW hits \in Nat, hits > 0, Decide(c, w, hits)
  PROVE  /\ {decided', passed', restarts'} \subseteq [Client -> [Windows -> Nat]]
         /\ \A d \in Client, v \in Windows : d # c \/ v # w =>
              decided'[d][v] = decided[d][v] /\ passed'[d][v] = passed[d][v]
              /\ restarts'[d][v] = restarts[d][v]
         /\ decided'[c][w] = decided[c][w] + 1
         /\ passed'[c][w] = passed[c][w] + (IF hits <= Limit THEN 1 ELSE 0)
         /\ restarts'[c][w] = restarts[c][w] + (IF hits = 1 THEN 1 ELSE 0)
<1>1. \A f \in {decided, passed, restarts} : f \in [Client -> [Windows -> Nat]]
  BY DEF RateInv, RateTypeOK
<1> DEFINE more == IF hits <= Limit THEN 1 ELSE 0
           again == IF hits = 1 THEN 1 ELSE 0
<1>2. more \in Nat /\ again \in Nat
  OBVIOUS
<1>3. /\ decided' = [decided EXCEPT ![c][w] = decided[c][w] + 1]
      /\ passed' = [passed EXCEPT ![c][w] = passed[c][w] + more]
      /\ restarts' = [restarts EXCEPT ![c][w] = restarts[c][w] + again]
  BY DEF Decide
<1> HIDE DEF more, again
<1>4. ASSUME NEW f, NEW g, NEW n \in Nat, f \in [Client -> [Windows -> Nat]],
             g = [f EXCEPT ![c][w] = f[c][w] + n]
      PROVE  /\ g \in [Client -> [Windows -> Nat]] /\ g[c][w] = f[c][w] + n
             /\ \A d \in Client, v \in Windows : d # c \/ v # w => g[d][v] = f[d][v]
  <2>1. f[c][w] + n \in Nat
    BY <1>4
  <2> QED
    BY <1>4, <2>1
<1>5. decided' \in [Client -> [Windows -> Nat]] /\ decided'[c][w] = decided[c][w] + 1
      /\ \A d \in Client, v \in Windows : d # c \/ v # w => decided'[d][v] = decided[d][v]
  BY <1>1, <1>3, <1>4
<1>6. passed' \in [Client -> [Windows -> Nat]] /\ passed'[c][w] = passed[c][w] + more
      /\ \A d \in Client, v \in Windows : d # c \/ v # w => passed'[d][v] = passed[d][v]
  BY <1>1, <1>2, <1>3, <1>4
<1>7. restarts' \in [Client -> [Windows -> Nat]] /\ restarts'[c][w] = restarts[c][w] + again
      /\ \A d \in Client, v \in Windows : d # c \/ v # w => restarts'[d][v] = restarts[d][v]
  BY <1>1, <1>2, <1>3, <1>4
<1> QED
  BY <1>5, <1>6, <1>7 DEF more, again

\* The arithmetic of one decision: the room and the tickets it used or began.
LEMMA DecideRoom ==
  ASSUME NEW room \in Nat, NEW tickets \in Nat, NEW room2 \in Nat, NEW tickets2 \in Nat,
         NEW pass \in Nat, NEW again \in Nat, NEW hits \in Nat, hits > 0, Limit \in Nat, Limit > 0,
         room + tickets + pass <= Limit * again,
         room2 + tickets2 + (IF hits <= Limit THEN 1 ELSE 0)
           <= room + tickets + (IF hits = 1 THEN Limit ELSE 0)
  PROVE  room2 + tickets2 + (pass + (IF hits <= Limit THEN 1 ELSE 0))
           <= Limit * (again + (IF hits = 1 THEN 1 ELSE 0))
<1>1. Limit * (again + 1) = Limit * again + Limit /\ Limit * (again + 0) = Limit * again
  OBVIOUS
<1>2. Limit * again \in Nat
  OBVIOUS
<1> DEFINE bound == Limit * again
<1>3. bound \in Nat /\ Limit * (again + 1) = bound + Limit /\ Limit * (again + 0) = bound
      /\ room + tickets + pass <= bound
  BY <1>1, <1>2
<1> HIDE DEF bound
<1> QED
  BY <1>3

\* What is left of the invariant once a decision has been made.
LEMMA RateDecided ==
  ASSUME RateInv, NEW c \in Client, NEW w \in Windows, NEW hits \in Nat, hits > 0, Decide(c, w, hits),
         hits <= decided[c][w] + 1
  PROVE  /\ \A d \in Client, v \in Windows : decided'[d][v] >= decided[d][v]
         /\ \A d \in Client, v \in Windows : decided'[d][v] <= Limit => passed'[d][v] = decided'[d][v]
<1>1. \A f \in {decided, passed} : \A d \in Client, v \in Windows : f[d][v] \in Nat
  BY DEF RateInv, RateTypeOK
<1>2. \A d \in Client, v \in Windows : decided[d][v] <= Limit => passed[d][v] = decided[d][v]
  BY DEF RateInv
<1>3. Limit \in Nat
  BY RateConstants
<1>4. \A d \in Client, v \in Windows : d # c \/ v # w =>
              decided'[d][v] = decided[d][v] /\ passed'[d][v] = passed[d][v]
  BY DecideCounts
<1>5. decided'[c][w] = decided[c][w] + 1
      /\ passed'[c][w] = passed[c][w] + (IF hits <= Limit THEN 1 ELSE 0)
  BY DecideCounts
<1>6. decided'[c][w] <= Limit => passed'[c][w] = decided'[c][w]
  BY <1>1, <1>2, <1>3, <1>5
<1> QED
  BY <1>1, <1>2, <1>4, <1>5, <1>6

\* A process that has too many keys forgets others than the one just counted.
LEMMA ForgettingKeeps ==
  ASSUME NEW m \in [Client -> Counts], NEW c \in Client, m[c].hits = 1, m[c].age = 0,
         \A d \in Client \ {c} : m[d].hits > 0 => m[d].age >= 1,
         IsFiniteSet({d \in Client : m[d].hits > 0}),
         Cardinality({d \in Client : m[d].hits > 0}) <= MaxKeys + 1
  PROVE  /\ Forgetting(m) \in [Client -> Counts] /\ Forgetting(m)[c] = m[c]
         /\ \A d \in Client : Forgetting(m)[d].window = m[d].window
                              /\ Forgetting(m)[d].hits \in {m[d].hits, 0}
         /\ IsFiniteSet({d \in Client : Forgetting(m)[d].hits > 0})
         /\ Cardinality({d \in Client : Forgetting(m)[d].hits > 0}) <= MaxKeys
<1> DEFINE keys == {d \in Client : m[d].hits > 0}
           old == {d \in keys : \A e \in keys : m[e].age <= m[d].age}
<1>n. MaxKeys \in Nat /\ MaxKeys > 0
  BY RateConstants
<1>1. CASE Cardinality(keys) <= MaxKeys
  <2>1. Forgetting(m) = m
    BY <1>1 DEF Forgetting
  <2> QED
    BY <1>1, <2>1
<1>2. CASE ~(Cardinality(keys) <= MaxKeys)
  <2>1. Forgetting(m) = [d \in Client |-> IF d \in old THEN [m[d] EXCEPT !.hits = 0] ELSE m[d]]
    BY <1>2 DEF Forgetting
  <2>2. c \in keys /\ IsFiniteSet(keys) /\ Cardinality(keys) \in Nat /\ Cardinality(keys) <= MaxKeys + 1
    BY FS_CardinalityType
  <2>3. PICK d \in keys : d # c
    <3>1. CASE keys = {c}
      <4>1. Cardinality({c}) = 1
        BY FS_Singleton
      <4> QED
        BY <1>2, <1>n, <3>1, <4>1
    <3> QED
      BY <2>2, <3>1
  <2>4. c \notin old
    <3>1. m[d].age >= 1 /\ m[d].age \in 0 .. 3
      BY <2>3 DEF Counts
    <3> QED
      BY <2>3, <3>1
  <2>5. \E x \in old : TRUE
    <3> DEFINE R == {a \in 0 .. 3 : \E e \in keys : m[e].age = a}
    <3>1. \A e \in keys : m[e].age \in R
      BY DEF Counts
    <3>2. R \in SUBSET (0 .. 3) /\ R # {}
      BY <2>2, <3>1
    <3>3. 3 \in Nat
      OBVIOUS
    <3> HIDE DEF R
    <3>4. PICK a \in R : \A b \in R : b <= a
      BY <3>2, <3>3, GreatestOne
    <3>5. PICK x \in keys : m[x].age = a
      BY <3>4 DEF R
    <3> QED
      BY <3>1, <3>4, <3>5
  <2>6. PICK x \in old : TRUE
    BY <2>5
  <2> HIDE DEF old
  <2>7. \A e \in Client : Forgetting(m)[e] \in Counts /\ Forgetting(m)[e].window = m[e].window
                          /\ Forgetting(m)[e].hits \in {m[e].hits, 0}
    BY <2>1 DEF Counts
  <2>8. Forgetting(m) \in [Client -> Counts] /\ Forgetting(m)[c] = m[c]
    BY <2>1, <2>4, <2>7
  <2>9. Forgetting(m)[x].hits = 0 /\ x \in keys
    BY <2>1, <2>6 DEF old, Counts
  <2> DEFINE left == {e \in Client : Forgetting(m)[e].hits > 0}
  <2>10. left \subseteq keys \ {x}
    <3>1. ASSUME NEW e \in left PROVE e \in keys /\ e # x
      <4>1. e \in Client /\ Forgetting(m)[e].hits > 0 /\ m[e].hits \in Nat /\ Forgetting(m)[e].hits \in {m[e].hits, 0}
        BY <2>7 DEF Counts
      <4>2. m[e].hits > 0
        BY <4>1
      <4> QED
        BY <2>9, <4>1, <4>2
    <3> QED
      BY <3>1
  <2> HIDE DEF left, keys
  <2>11. IsFiniteSet(left) /\ Cardinality(left) \in Nat /\ Cardinality(left) <= Cardinality(keys) - 1
    BY <2>2, <2>9, <2>10, OneLessAtMost
  <2>12. Cardinality(left) <= MaxKeys
    BY <1>n, <2>2, <2>11
  <2> QED
    BY <2>7, <2>8, <2>11, <2>12 DEF left
<1> QED
  BY <1>1, <1>2

\* What a process's own count of a request leaves.
LEMMA MemoryHitCounts ==
  ASSUME RateInv, NEW p \in Replica, NEW c \in Client
  PROVE  /\ MemoryHit(p, c) \in [Client -> Counts]
         /\ MemoryHit(p, c)[c].window = WindowAt(tick)
         /\ \/ /\ MemoryHit(p, c)[c].hits = counted[p][c].hits + 1
               /\ counted[p][c].hits > 0 /\ counted[p][c].window = WindowAt(tick)
            \/ MemoryHit(p, c)[c].hits = 1
         /\ \A d \in Client \ {c} : MemoryHit(p, c)[d].window = counted[p][d].window
                                    /\ MemoryHit(p, c)[d].hits \in {counted[p][d].hits, 0}
         /\ IsFiniteSet({d \in Client : MemoryHit(p, c)[d].hits > 0})
         /\ Cardinality({d \in Client : MemoryHit(p, c)[d].hits > 0}) <= MaxKeys
<1> DEFINE w == WindowAt(tick)
<1>n. MaxKeys \in Nat /\ MaxKeys > 0
  BY RateConstants
<1>w. w \in Windows /\ w \in Nat /\ Windows \subseteq Nat
  BY WindowIn, WindowsAreNat DEF RateInv, RateTypeOK
<1>t. counted[p] \in [Client -> Counts]
  BY DEF RateInv
<1>k. IsFiniteSet(LimitedKeys(p)) /\ Cardinality(LimitedKeys(p)) <= MaxKeys /\ Cardinality(LimitedKeys(p)) \in Nat
  BY FS_CardinalityType DEF RateInv
<1> HIDE DEF w
<1>1. CASE counted[p][c].hits = 0 \/ counted[p][c].window < w
  <2> DEFINE m == [d \in Client |->
            IF d = c THEN [window |-> w, hits |-> 1, age |-> 0]
            ELSE [counted[p][d] EXCEPT !.age = IF Aged(p)[d] > 3 THEN 3 ELSE Aged(p)[d]]]
  <2>1. MemoryHit(p, c) = Forgetting(m)
    BY <1>1 DEF MemoryHit, w
  <2>2. \A d \in Client : Aged(p)[d] = IF counted[p][d].hits > 0 THEN counted[p][d].age + 1 ELSE 0
    BY DEF Aged
  <2>3. \A d \in Client \ {c} : m[d] \in Counts /\ m[d].window = counted[p][d].window
                                /\ m[d].hits = counted[p][d].hits /\ (m[d].hits > 0 => m[d].age >= 1)
    <3> TAKE d \in Client \ {c}
    <3> DEFINE a == IF Aged(p)[d] > 3 THEN 3 ELSE Aged(p)[d]
    <3>1. counted[p][d] \in Counts
      BY <1>t
    <3>2. a \in 0 .. 3 /\ (counted[p][d].hits > 0 => a >= 1)
      BY <2>2, <3>1 DEF Counts
    <3>3. m[d] = [counted[p][d] EXCEPT !.age = a]
      OBVIOUS
    <3> HIDE DEF a, m
    <3> QED
      BY <3>1, <3>2, <3>3 DEF Counts
  <2>4. m[c] = [window |-> w, hits |-> 1, age |-> 0]
    OBVIOUS
  <2>5. m = [d \in Client |-> m[d]]
    OBVIOUS
  <2> HIDE DEF m
  <2>6. m[c] \in Counts /\ m[c].hits = 1 /\ m[c].age = 0 /\ m[c].window = w
    BY <1>w, <2>4 DEF Counts
  <2>7. m \in [Client -> Counts]
    BY <2>3, <2>5, <2>6
  <2> DEFINE keys == {d \in Client : m[d].hits > 0}
  <2>8. keys \subseteq LimitedKeys(p) \cup {c}
    BY <2>3 DEF LimitedKeys
  <2> HIDE DEF keys
  <2>9. IsFiniteSet(keys) /\ Cardinality(keys) \in Nat /\ Cardinality(keys) <= Cardinality(LimitedKeys(p)) + 1
    BY <1>k, <2>8, OneMoreAtMost
  <2>10. Cardinality(keys) <= MaxKeys + 1
    BY <1>k, <1>n, <2>9
  <2>11. IsFiniteSet({d \in Client : m[d].hits > 0}) /\ Cardinality({d \in Client : m[d].hits > 0}) <= MaxKeys + 1
    BY <2>9, <2>10 DEF keys
  <2>12. \A d \in Client \ {c} : m[d].hits > 0 => m[d].age >= 1
    BY <2>3
  <2>13. /\ Forgetting(m) \in [Client -> Counts] /\ Forgetting(m)[c] = m[c]
         /\ \A d \in Client : Forgetting(m)[d].window = m[d].window
                              /\ Forgetting(m)[d].hits \in {m[d].hits, 0}
         /\ IsFiniteSet({d \in Client : Forgetting(m)[d].hits > 0})
         /\ Cardinality({d \in Client : Forgetting(m)[d].hits > 0}) <= MaxKeys
    BY <2>6, <2>7, <2>11, <2>12, ForgettingKeeps
  <2>14. /\ Forgetting(m)[c].window = WindowAt(tick) /\ Forgetting(m)[c].hits = 1
         /\ \A d \in Client \ {c} : Forgetting(m)[d].window = counted[p][d].window
                                    /\ Forgetting(m)[d].hits \in {counted[p][d].hits, 0}
    BY <2>3, <2>6, <2>13 DEF w
  <2> QED
    BY <2>1, <2>13, <2>14
<1>2. CASE ~(counted[p][c].hits = 0 \/ counted[p][c].window < w)
  <2>1. MemoryHit(p, c) = [counted[p] EXCEPT ![c].hits = counted[p][c].hits + 1]
    BY <1>2 DEF MemoryHit, w
  <2>2. counted[p][c] \in Counts /\ counted[p][c].hits > 0
    BY <1>2, <1>t DEF Counts
  <2>3. counted[p][c].hits > 0 => counted[p][c].window <= WindowAt(tick)
    BY DEF RateInv
  <2>4. counted[p][c].window = w
    <3>1. counted[p][c].window \in Nat /\ counted[p][c].window <= w
      BY <1>w, <2>2, <2>3 DEF Counts, w
    <3> QED
      BY <1>2, <1>w, <3>1
  <2>5. [counted[p][c] EXCEPT !.hits = counted[p][c].hits + 1] \in Counts
    BY <2>2 DEF Counts
  <2>6. /\ MemoryHit(p, c) \in [Client -> Counts]
        /\ MemoryHit(p, c)[c].window = w /\ MemoryHit(p, c)[c].hits = counted[p][c].hits + 1
        /\ \A d \in Client \ {c} : MemoryHit(p, c)[d] = counted[p][d]
    BY <1>t, <2>1, <2>2, <2>4, <2>5 DEF Counts
  <2>7. counted[p][c].hits + 1 > 0
    BY <2>2 DEF Counts
  <2>8. {d \in Client : MemoryHit(p, c)[d].hits > 0} = LimitedKeys(p)
    BY <2>2, <2>6, <2>7 DEF LimitedKeys
  <2> QED
    BY <1>k, <2>2, <2>4, <2>6, <2>8 DEF w
<1> QED
  BY <1>1, <1>2

\* A process's count of a request of a client in a window leaves m for its counts.
CountsAs(p, c, w, m) ==
  /\ counted' = [counted EXCEPT ![p] = m] /\ m[c].window = w /\ m[c].hits > 0
  /\ \/ m[c].hits = counted[p][c].hits + 1 /\ counted[p][c].hits > 0 /\ counted[p][c].window = w
     \/ m[c].hits = 1
  /\ \A d \in Client \ {c} : m[d].window = counted[p][d].window /\ m[d].hits \in {counted[p][d].hits, 0}

\* What becomes of the tickets then.
TicketsLeft(c, w, m) ==
  /\ \A d \in Client, v \in Windows : d # c \/ v # w => Tickets(d, v)' \subseteq Tickets(d, v)
  /\ Cardinality(Tickets(c, w)') + (IF m[c].hits <= Limit THEN 1 ELSE 0)
       <= Cardinality(Tickets(c, w)) + (IF m[c].hits = 1 THEN Limit ELSE 0)

\* How the tickets of the processes change when one of them counts.
LEMMA TicketsOfHit ==
  ASSUME RateInv, NEW p \in Replica, NEW c \in Client, NEW w \in Windows, NEW m \in [Client -> Counts],
         CountsAs(p, c, w, m)
  PROVE  TicketsLeft(c, w, m)
<1> USE DEF CountsAs
<1>n. Limit \in Nat /\ Limit > 0
  BY RateConstants
<1>t. counted \in [Replica -> [Client -> Counts]]
  BY DEF RateInv
<1>1. counted'[p] = m /\ \A o \in Replica \ {p} : counted'[o] = counted[o]
  BY <1>t
<1>2. ASSUME NEW d \in Client, NEW v \in Windows, d # c \/ v # w PROVE Tickets(d, v)' \subseteq Tickets(d, v)
  <2> SUFFICES ASSUME NEW t \in Tickets(d, v)' PROVE t \in Tickets(d, v)
    OBVIOUS
  <2>1. t \in Replica \X (1 .. Limit) /\ counted'[t[1]][d].hits > 0 /\ counted'[t[1]][d].window = v
        /\ counted'[t[1]][d].hits < t[2] /\ t[1] \in Replica
    BY DEF Tickets
  <2>2. CASE t[1] # p
    BY <1>1, <2>1, <2>2 DEF Tickets
  <2>3. CASE t[1] = p
    <3>1. m[d].hits > 0 /\ m[d].window = v /\ m[d].hits < t[2]
      BY <1>1, <2>1, <2>3
    <3>2. d # c
      BY <1>2, <3>1
    <3>3. m[d].hits = counted[p][d].hits /\ counted[p][d].window = v
      BY <3>1, <3>2
    <3> QED
      BY <2>1, <2>3, <3>1, <3>3 DEF Tickets
  <2> QED
    BY <2>2, <2>3
<1> DEFINE T1 == Tickets(c, w)
           T2 == Tickets(c, w)'
           h == m[c].hits
<1>f. IsFiniteSet(T1) /\ Cardinality(T1) \in Nat
  BY TicketsFinite
<1>h. h \in Nat /\ h > 0 /\ counted[p][c].hits \in Nat
  BY <1>t DEF Counts
<1>3. ASSUME h = counted[p][c].hits + 1 /\ counted[p][c].hits > 0 /\ counted[p][c].window = w
      PROVE  Cardinality(T2) + (IF h <= Limit THEN 1 ELSE 0) <= Cardinality(T1) + (IF h = 1 THEN Limit ELSE 0)
  <2>1. T2 \subseteq T1
    <3> SUFFICES ASSUME NEW t \in T2 PROVE t \in T1
      OBVIOUS
    <3>1. t \in Replica \X (1 .. Limit) /\ counted'[t[1]][c].hits > 0 /\ counted'[t[1]][c].window = w
          /\ counted'[t[1]][c].hits < t[2] /\ t[1] \in Replica /\ t[2] \in 1 .. Limit
      BY DEF Tickets
    <3>2. CASE t[1] # p
      BY <1>1, <3>1, <3>2 DEF Tickets
    <3>3. CASE t[1] = p
      <4>1. h < t[2] /\ counted[p][c].hits < t[2]
        BY <1>1, <1>h, <1>3, <3>1, <3>3
      <4> QED
        BY <1>3, <3>1, <3>3, <4>1 DEF Tickets
    <3> QED
      BY <3>2, <3>3
  <2>2. CASE h <= Limit
    <3>1. <<p, h>> \in T1
      BY <1>3, <1>h, <1>n, <2>2 DEF Tickets
    <3>2. <<p, h>> \notin T2
      BY <1>1, <1>h DEF Tickets
    <3>3. T2 \subseteq T1 \ {<<p, h>>}
      BY <2>1, <3>2
    <3> DEFINE x == <<p, h>>
    <3> HIDE DEF T1, T2, h, x
    <3>4. T2 \subseteq T1 \ {x} /\ x \in T1
      BY <3>1, <3>3 DEF x
    <3>5. Cardinality(T2) \in Nat /\ Cardinality(T2) <= Cardinality(T1) - 1
      BY <1>f, <3>4, OneLessAtMost
    <3>6. Cardinality(T2) + (IF h <= Limit THEN 1 ELSE 0) <= Cardinality(T1) + (IF h = 1 THEN Limit ELSE 0)
      BY <1>f, <1>n, <1>h, <3>5
    <3> QED
      BY <3>6 DEF T1, T2, h
  <2>3. CASE ~(h <= Limit)
    <3> HIDE DEF T1, T2, h
    <3>1. Cardinality(T2) \in Nat /\ Cardinality(T2) <= Cardinality(T1)
      BY <1>f, <2>1, SubsetAtMost
    <3>2. Cardinality(T2) + (IF h <= Limit THEN 1 ELSE 0) <= Cardinality(T1) + (IF h = 1 THEN Limit ELSE 0)
      BY <1>f, <1>n, <1>h, <2>3, <3>1
    <3> QED
      BY <3>2 DEF T1, T2, h
  <2> QED
    BY <2>2, <2>3
<1>4. ASSUME h = 1
      PROVE  Cardinality(T2) + (IF h <= Limit THEN 1 ELSE 0) <= Cardinality(T1) + (IF h = 1 THEN Limit ELSE 0)
  <2> DEFINE new == {p} \X (2 .. Limit)
  <2>1. T2 \subseteq T1 \cup new
    <3> SUFFICES ASSUME NEW t \in T2 PROVE t \in T1 \cup new
      OBVIOUS
    <3>1. t \in Replica \X (1 .. Limit) /\ counted'[t[1]][c].hits > 0 /\ counted'[t[1]][c].window = w
          /\ counted'[t[1]][c].hits < t[2] /\ t[1] \in Replica /\ t[2] \in 1 .. Limit /\ t = <<t[1], t[2]>>
      BY DEF Tickets
    <3>2. CASE t[1] # p
      BY <1>1, <3>1, <3>2 DEF Tickets
    <3>3. CASE t[1] = p
      <4>1. 1 < t[2]
        BY <1>1, <1>4, <3>1, <3>3
      <4>2. t[2] \in 2 .. Limit
        BY <1>n, <3>1, <4>1
      <4> QED
        BY <3>1, <3>3, <4>2
    <3> QED
      BY <3>2, <3>3
  <2>2. IsFiniteSet({p}) /\ Cardinality({p}) = 1
    BY FS_Singleton
  <2>3. IsFiniteSet(2 .. Limit) /\ Cardinality(2 .. Limit) = IF 2 > Limit THEN 0 ELSE Limit - 2 + 1
    BY <1>n, FS_Interval
  <2>4. IsFiniteSet(new) /\ Cardinality(new) = Cardinality({p}) * Cardinality(2 .. Limit)
    BY <2>2, <2>3, FS_Product
  <2>5. Cardinality(new) = Limit - 1
    BY <1>n, <2>2, <2>3, <2>4
  <2> HIDE DEF T1, T2, new, h
  <2>6. IsFiniteSet(T1 \cup new)
        /\ Cardinality(T1 \cup new) = Cardinality(T1) + Cardinality(new) - Cardinality(T1 \cap new)
    BY <1>f, <2>4, FS_Union
  <2>7. IsFiniteSet(T1 \cap new) /\ Cardinality(T1 \cap new) \in Nat
    BY <1>f, FS_Intersection, FS_CardinalityType
  <2>8. Cardinality(T2) \in Nat /\ Cardinality(T2) <= Cardinality(T1 \cup new)
    BY <2>1, <2>6, SubsetAtMost
  <2>9. Cardinality(T2) <= Cardinality(T1) + (Limit - 1)
    BY <1>f, <1>n, <2>5, <2>6, <2>7, <2>8
  <2>10. Cardinality(T2) + (IF h <= Limit THEN 1 ELSE 0) <= Cardinality(T1) + (IF h = 1 THEN Limit ELSE 0)
    BY <1>f, <1>n, <1>4, <2>8, <2>9
  <2> QED
    BY <2>10 DEF T1, T2, h
<1>5. Cardinality(T2) + (IF h <= Limit THEN 1 ELSE 0) <= Cardinality(T1) + (IF h = 1 THEN Limit ELSE 0)
  BY <1>3, <1>4
<1> QED
  BY <1>2, <1>5 DEF TicketsLeft

\* Every step of the clock, of Redis and of a request.
LEMMA RateStep == RateInv /\ [RateNext]_rateVars => RateInv'
<1> SUFFICES ASSUME RateInv, [RateNext]_rateVars PROVE RateInv'
  OBVIOUS
<1>t. RateTypeOK /\ counted \in [Replica -> [Client -> Counts]]
  BY DEF RateInv
<1>n. Limit \in Nat /\ Limit > 0 /\ MaxKeys \in Nat /\ MaxKeys > 0 /\ EndOfTicks \in Nat /\ MaxHits \in Nat
  BY RateConstants
<1>w. Windows \subseteq Nat /\ WindowAt(tick) \in Windows /\ WindowAt(tick) \in Nat
  BY <1>t, WindowIn, WindowsAreNat DEF RateTypeOK
<1>d. \A c \in Client, v \in Windows : decided[c][v] \in Nat /\ passed[c][v] \in Nat /\ restarts[c][v] \in Nat
  BY <1>t DEF RateTypeOK
\* A step that changes neither a count nor what was decided.
<1>a. ASSUME UNCHANGED <<limitRow, counted, decided, passed, restarts>>, tick' \in 0 .. EndOfTicks,
             tick' >= tick, made' \in 0 .. MaxHits,
             hit' \in [Hit -> [is : {"waiting"}, client : Client, window : Windows] \cup {NoHit}]
      PROVE  RateInv'
  <2>1. RateTypeOK'
    BY <1>a, <1>t DEF RateTypeOK
  <2>2. tick \in Nat /\ tick' \in Nat /\ Length \in Nat \ {0}
    BY <1>a, <1>t, RateConstants DEF RateTypeOK
  <2>3. WindowAt(tick) <= WindowAt(tick') /\ WindowAt(tick') \in Nat
    BY <1>a, <2>2, DivMonotone, DivBounds DEF WindowAt
  <2>4. \A p \in Replica, c \in Client : counted'[p][c].hits > 0 => counted'[p][c].window <= WindowAt(tick')
    <3> TAKE p \in Replica, c \in Client
    <3>1. counted[p][c].window \in Nat
      BY <1>t, <1>w DEF Counts
    <3>2. counted[p][c].hits > 0 => counted[p][c].window <= WindowAt(tick)
      BY DEF RateInv
    <3> QED
      BY <1>a, <1>w, <2>3, <3>1, <3>2
  <2>5. \A p \in Replica : LimitedKeys(p)' = LimitedKeys(p)
    BY <1>a DEF LimitedKeys
  <2>6. \A c \in Client, w \in Windows : Tickets(c, w)' = Tickets(c, w)
    BY <1>a DEF Tickets
  <2>7. (\A p \in Replica : IsFiniteSet(LimitedKeys(p)) /\ Cardinality(LimitedKeys(p)) <= MaxKeys)'
    BY <2>5 DEF RateInv
  <2>8. (\A c \in Client, w \in Windows :
       Room(limitRow[c], w) + Cardinality(Tickets(c, w)) + passed[c][w] <= Limit * restarts[c][w])'
    BY <1>a, <2>6 DEF RateInv, Room
  <2>9. /\ (\A c \in Client : limitRow[c].hits <= decided[c][limitRow[c].window])'
        /\ (\A p \in Replica, c \in Client : counted[p][c].hits <= decided[c][counted[p][c].window])'
        /\ (\A c \in Client, w \in Windows : decided[c][w] <= Limit => passed[c][w] = decided[c][w])'
        /\ (counted \in [Replica -> [Client -> Counts]])'
    BY <1>a DEF RateInv
  <2>10. (\A p \in Replica, c \in Client : counted[p][c].hits > 0 => counted[p][c].window <= WindowAt(tick))'
    BY <2>4 DEF WindowAt
  <2> QED
    BY <2>1, <2>7, <2>8, <2>9, <2>10 DEF RateInv
<1>1. CASE RateTick
  <2>1. tick' \in 0 .. EndOfTicks /\ tick' >= tick
    BY <1>1, <1>t, <1>n DEF RateTick, RateTypeOK
  <2> QED
    BY <1>1, <1>a, <1>t, <2>1 DEF RateTick, RateTypeOK
<1>2. ASSUME NEW q \in Hit, NEW c \in Client, ComputeWindow(q, c) PROVE RateInv'
  <2>1. made' \in 0 .. MaxHits /\ tick' = tick /\ tick \in 0 .. EndOfTicks /\ tick' >= tick
    BY <1>2, <1>t, <1>n DEF ComputeWindow, RateTypeOK
  <2>2. hit' \in [Hit -> [is : {"waiting"}, client : Client, window : Windows] \cup {NoHit}]
    <3>1. [is |-> "waiting", client |-> c, window |-> WindowAt(tick)]
            \in [is : {"waiting"}, client : Client, window : Windows]
      BY <1>w
    <3> QED
      BY <1>2, <1>t, <3>1 DEF ComputeWindow, RateTypeOK
  <2>3. UNCHANGED <<limitRow, counted, decided, passed, restarts>>
    BY <1>2 DEF ComputeWindow
  <2> QED
    BY <1>a, <2>1, <2>2, <2>3
\* A request that is decided, by the database or by a process of its own.
<1>h. ASSUME NEW q \in Hit, hit[q] # NoHit
      PROVE  hit[q].client \in Client /\ hit[q].window \in Windows
  BY <1>h, <1>t DEF RateTypeOK
<1>3. ASSUME NEW q \in Hit, WriteHit(q) PROVE RateInv'
  <2> DEFINE c == hit[q].client
             w == hit[q].window
             own == Upsert(limitRow[c], w)
  <2>1. hit[q] # NoHit /\ limitRow' = [limitRow EXCEPT ![c] = own] /\ Decide(c, w, own.hits)
        /\ hit' = [hit EXCEPT ![q] = NoHit] /\ UNCHANGED <<tick, made, counted>>
    BY <1>3 DEF WriteHit
  <2>2. c \in Client /\ w \in Windows /\ w \in Nat
    BY <1>h, <1>w, <2>1
  <2> HIDE DEF c, w
  <2>3. limitRow[c] \in [window : Windows, hits : Nat] /\ limitRow[c].window \in Windows /\ limitRow[c].hits \in Nat
    BY <1>t, <2>2 DEF RateTypeOK
  <2>4. own.window = w /\ own.hits \in Nat /\ own.hits > 0 /\ own \in [window : Windows, hits : Nat]
        /\ (\/ own.hits = limitRow[c].hits + 1 /\ limitRow[c].hits > 0 /\ limitRow[c].window = w
            \/ own.hits = 1)
    BY <2>2, <2>3 DEF Upsert, SameWindow
  <2> HIDE DEF own
  <2>5. own.hits <= decided[c][w] + 1
    <3>1. limitRow[c].hits <= decided[c][limitRow[c].window]
      BY <2>2 DEF RateInv
    <3> QED
      BY <1>d, <2>2, <2>3, <2>4, <3>1
  <2>6. /\ \A d \in Client, v \in Windows : decided'[d][v] >= decided[d][v]
        /\ \A d \in Client, v \in Windows : decided'[d][v] <= Limit => passed'[d][v] = decided'[d][v]
    BY <2>1, <2>2, <2>4, <2>5, RateDecided
  <2>7. /\ {decided', passed', restarts'} \subseteq [Client -> [Windows -> Nat]]
        /\ \A d \in Client, v \in Windows : d # c \/ v # w =>
              decided'[d][v] = decided[d][v] /\ passed'[d][v] = passed[d][v]
              /\ restarts'[d][v] = restarts[d][v]
        /\ decided'[c][w] = decided[c][w] + 1
        /\ passed'[c][w] = passed[c][w] + (IF own.hits <= Limit THEN 1 ELSE 0)
        /\ restarts'[c][w] = restarts[c][w] + (IF own.hits = 1 THEN 1 ELSE 0)
    BY <2>1, <2>2, <2>4, DecideCounts
  <2>8. limitRow' \in [Client -> [window : Windows, hits : Nat]] /\ limitRow'[c] = own
        /\ \A d \in Client \ {c} : limitRow'[d] = limitRow[d]
    BY <1>t, <2>1, <2>2, <2>4 DEF RateTypeOK
  <2>9. hit' \in [Hit -> [is : {"waiting"}, client : Client, window : Windows] \cup {NoHit}]
    BY <1>t, <2>1 DEF RateTypeOK
  <2>10. RateTypeOK'
    BY <1>t, <2>1, <2>7, <2>8, <2>9 DEF RateTypeOK
  <2>11. /\ (\A p \in Replica : IsFiniteSet(LimitedKeys(p)) /\ Cardinality(LimitedKeys(p)) <= MaxKeys)'
         /\ (\A p \in Replica, d \in Client : counted[p][d].hits > 0 => counted[p][d].window <= WindowAt(tick))'
         /\ (counted \in [Replica -> [Client -> Counts]])'
    BY <2>1 DEF RateInv, LimitedKeys, WindowAt
  <2>12. \A p \in Replica, d \in Client : counted'[p][d].hits <= decided'[d][counted'[p][d].window]
    <3> TAKE p \in Replica, d \in Client
    <3>1. counted[p][d].hits <= decided[d][counted[p][d].window] /\ counted[p][d].hits \in Nat
          /\ counted[p][d].window \in Windows
      BY <1>t DEF RateInv, Counts
    <3>2. decided'[d][counted[p][d].window] >= decided[d][counted[p][d].window]
          /\ decided'[d][counted[p][d].window] \in Nat /\ decided[d][counted[p][d].window] \in Nat
      BY <1>d, <2>6, <2>7, <3>1
    <3> QED
      BY <2>1, <3>1, <3>2
  <2>13. \A d \in Client : limitRow'[d].hits <= decided'[d][limitRow'[d].window]
    <3> TAKE d \in Client
    <3>1. CASE d = c
      BY <2>2, <2>4, <2>5, <2>7, <2>8, <3>1
    <3>2. CASE d # c
      <4>1. limitRow[d].hits <= decided[d][limitRow[d].window] /\ limitRow[d].window \in Windows
        BY <1>t DEF RateInv, RateTypeOK
      <4>2. decided'[d][limitRow[d].window] = decided[d][limitRow[d].window] /\ limitRow'[d] = limitRow[d]
        BY <2>7, <2>8, <3>2, <4>1
      <4> QED
        BY <4>1, <4>2
    <3> QED
      BY <3>1, <3>2
  <2>14. \A d \in Client, v \in Windows :
           Room(limitRow'[d], v) + Cardinality(Tickets(d, v))' + passed'[d][v] <= Limit * restarts'[d][v]
    <3> TAKE d \in Client, v \in Windows
    <3>1. Tickets(d, v)' = Tickets(d, v) /\ Cardinality(Tickets(d, v)) \in Nat
      <4>1. Tickets(d, v)' = Tickets(d, v)
        BY <2>1 DEF Tickets
      <4> QED
        BY <4>1, TicketsFinite
    <3>2. Room(limitRow[d], v) + Cardinality(Tickets(d, v)) + passed[d][v] <= Limit * restarts[d][v]
      BY DEF RateInv
    <3>3. CASE d # c
      BY <2>7, <2>8, <3>1, <3>2, <3>3
    <3>4. CASE d = c /\ v # w
      <4>1. Room(limitRow'[d], v) = 0
        BY <2>4, <2>8, <3>4 DEF Room
      <4>2. Room(limitRow[d], v) \in Nat
        BY <1>n, <2>3, <3>4 DEF Room
      <4>3. passed'[d][v] = passed[d][v] /\ restarts'[d][v] = restarts[d][v] /\ passed[d][v] \in Nat
        BY <1>d, <2>7, <3>4
      <4>4. Limit * restarts[d][v] \in Nat
        BY <1>d, <1>n
      <4> DEFINE bound == Limit * restarts[d][v]
      <4> HIDE DEF bound
      <4>5. Limit * restarts'[d][v] = bound /\ bound \in Nat
            /\ Room(limitRow[d], v) + Cardinality(Tickets(d, v)) + passed[d][v] <= bound
        BY <3>2, <4>3, <4>4 DEF bound
      <4> QED
        BY <3>1, <4>1, <4>2, <4>3, <4>5
    <3>5. CASE d = c /\ v = w
      <4>1. Room(limitRow[c], w) \in Nat /\ Room(own, w) \in Nat
        BY <1>n, <2>3, <2>4 DEF Room
      <4>2. Room(own, w) + (IF own.hits <= Limit THEN 1 ELSE 0)
              <= Room(limitRow[c], w) + (IF own.hits = 1 THEN Limit ELSE 0)
        BY <1>n, <2>3, <2>4 DEF Room
      <4> DEFINE r1 == Room(limitRow[c], w)
                 r2 == Room(own, w)
                 k == Cardinality(Tickets(c, w))
                 ps == passed[c][w]
                 rs == restarts[c][w]
                 hs == own.hits
      <4>3. r1 \in Nat /\ r2 \in Nat /\ k \in Nat /\ ps \in Nat /\ rs \in Nat /\ hs \in Nat /\ hs > 0
        BY <1>d, <2>2, <2>4, <3>1, <3>5, <4>1
      <4>4. r1 + k + ps <= Limit * rs
        BY <3>2, <3>5
      <4>5. r2 + (IF hs <= Limit THEN 1 ELSE 0) <= r1 + (IF hs = 1 THEN Limit ELSE 0)
        BY <4>2
      <4>6. Room(limitRow'[d], v) = r2 /\ Cardinality(Tickets(d, v))' = k
            /\ passed'[d][v] = ps + (IF hs <= Limit THEN 1 ELSE 0)
            /\ restarts'[d][v] = rs + (IF hs = 1 THEN 1 ELSE 0)
        BY <2>7, <2>8, <3>1, <3>5
      <4> HIDE DEF r1, r2, k, ps, rs, hs
      <4>7. r2 + k + (IF hs <= Limit THEN 1 ELSE 0) <= r1 + k + (IF hs = 1 THEN Limit ELSE 0)
        BY <1>n, <4>3, <4>5
      <4>8. r2 + k + (ps + (IF hs <= Limit THEN 1 ELSE 0)) <= Limit * (rs + (IF hs = 1 THEN 1 ELSE 0))
        BY <1>n, <4>3, <4>4, <4>7, DecideRoom
      <4> QED
        BY <4>6, <4>8
    <3> QED
      BY <3>3, <3>4, <3>5
  <2> QED
    BY <2>6, <2>10, <2>11, <2>12, <2>13, <2>14 DEF RateInv
<1>4. ASSUME NEW q \in Hit, NEW p \in Replica, CountHere(p, q) PROVE RateInv'
  <2>a. PICK c \in Client, w \in Windows : c = hit[q].client /\ w = WindowAt(tick)
    BY <1>4, <1>h, <1>w DEF CountHere
  <2>b. MemoryHit(p, c) \in [Client -> Counts]
    BY MemoryHitCounts
  <2>c. PICK m \in [Client -> Counts] : m = MemoryHit(p, c)
    BY <2>b
  <2>1. hit[q] # NoHit /\ counted' = [counted EXCEPT ![p] = m] /\ Decide(c, w, m[c].hits)
        /\ hit' = [hit EXCEPT ![q] = NoHit] /\ UNCHANGED <<tick, made, limitRow>>
    BY <1>4, <2>a, <2>c DEF CountHere
  <2>2. c \in Client /\ w \in Windows /\ w \in Nat
    BY <1>w
  <2>3. /\ m \in [Client -> Counts] /\ m[c].window = w
        /\ \/ m[c].hits = counted[p][c].hits + 1 /\ counted[p][c].hits > 0 /\ counted[p][c].window = w
           \/ m[c].hits = 1
        /\ \A d \in Client \ {c} : m[d].window = counted[p][d].window /\ m[d].hits \in {counted[p][d].hits, 0}
        /\ IsFiniteSet({d \in Client : m[d].hits > 0})
        /\ Cardinality({d \in Client : m[d].hits > 0}) <= MaxKeys
    BY <2>a, <2>c, MemoryHitCounts
  <2>4. m[c].hits \in Nat /\ m[c].hits > 0 /\ counted[p][c] \in Counts /\ counted[p] \in [Client -> Counts]
    BY <1>t, <2>3 DEF Counts
  <2>5. m[c].hits <= decided[c][w] + 1
    <3>1. counted[p][c].hits <= decided[c][counted[p][c].window]
      BY <2>2 DEF RateInv
    <3>2. counted[p][c].hits \in Nat /\ decided[c][w] \in Nat
      BY <1>d, <2>2, <2>4 DEF Counts
    <3> QED
      BY <2>3, <3>1, <3>2
  <2>6. /\ \A d \in Client, v \in Windows : decided'[d][v] >= decided[d][v]
        /\ \A d \in Client, v \in Windows : decided'[d][v] <= Limit => passed'[d][v] = decided'[d][v]
    BY <2>1, <2>2, <2>4, <2>5, RateDecided
  <2>7. /\ {decided', passed', restarts'} \subseteq [Client -> [Windows -> Nat]]
        /\ \A d \in Client, v \in Windows : d # c \/ v # w =>
              decided'[d][v] = decided[d][v] /\ passed'[d][v] = passed[d][v]
              /\ restarts'[d][v] = restarts[d][v]
        /\ decided'[c][w] = decided[c][w] + 1
        /\ passed'[c][w] = passed[c][w] + (IF m[c].hits <= Limit THEN 1 ELSE 0)
        /\ restarts'[c][w] = restarts[c][w] + (IF m[c].hits = 1 THEN 1 ELSE 0)
    BY <2>1, <2>2, <2>4, DecideCounts
  <2>8. counted' \in [Replica -> [Client -> Counts]] /\ counted'[p] = m
        /\ \A o \in Replica \ {p} : counted'[o] = counted[o]
    BY <1>t, <2>1, <2>3
  <2>9. hit' \in [Hit -> [is : {"waiting"}, client : Client, window : Windows] \cup {NoHit}]
    BY <1>t, <2>1 DEF RateTypeOK
  <2>10. \A o \in Replica : IsFiniteSet(LimitedKeys(o)') /\ Cardinality(LimitedKeys(o)') <= MaxKeys
    <3> TAKE o \in Replica
    <3>1. CASE o = p
      <4>1. LimitedKeys(o)' = {d \in Client : m[d].hits > 0}
        BY <2>8, <3>1 DEF LimitedKeys
      <4> QED
        BY <2>3, <4>1
    <3>2. CASE o # p
      <4>1. LimitedKeys(o)' = LimitedKeys(o)
        BY <2>8, <3>2 DEF LimitedKeys
      <4> QED
        BY <4>1 DEF RateInv
    <3> QED
      BY <3>1, <3>2
  <2>11. RateTypeOK'
    <3>1. counted' \in [Replica -> [Client -> [window : Windows, hits : Nat, age : Nat]]]
      BY <2>8 DEF Counts
    <3> QED
      BY <1>t, <2>1, <2>7, <2>9, <2>10, <3>1 DEF RateTypeOK, LimitedKeys
  <2>12. \A o \in Replica, d \in Client : counted'[o][d].hits <= decided'[d][counted'[o][d].window]
    <3> TAKE o \in Replica, d \in Client
    <3>1. counted[o][d].hits <= decided[d][counted[o][d].window] /\ counted[o][d].hits \in Nat
          /\ counted[o][d].window \in Windows
      BY <1>t DEF RateInv, Counts
    <3>2. decided'[d][counted[o][d].window] >= decided[d][counted[o][d].window]
          /\ decided'[d][counted[o][d].window] \in Nat /\ decided[d][counted[o][d].window] \in Nat
      BY <1>d, <2>6, <2>7, <3>1
    <3>3. CASE o = p /\ d = c
      BY <2>2, <2>3, <2>5, <2>7, <2>8, <3>3
    <3>4. CASE ~(o = p /\ d = c)
      <4>1. counted'[o][d].window = counted[o][d].window /\ counted'[o][d].hits \in {counted[o][d].hits, 0}
        BY <2>3, <2>8, <3>4
      <4> QED
        BY <3>1, <3>2, <4>1
    <3> QED
      BY <3>3, <3>4
  <2>13. \A o \in Replica, d \in Client : counted'[o][d].hits > 0 => counted'[o][d].window <= WindowAt(tick)
    <3> TAKE o \in Replica, d \in Client
    <3>1. counted[o][d].hits > 0 => counted[o][d].window <= WindowAt(tick)
      BY DEF RateInv
    <3>3. CASE o = p /\ d = c
      BY <1>w, <2>a, <2>2, <2>3, <2>8, <3>3
    <3>4. CASE ~(o = p /\ d = c)
      <4>1. counted'[o][d].window = counted[o][d].window /\ counted'[o][d].hits \in {counted[o][d].hits, 0}
        BY <2>3, <2>8, <3>4
      <4> QED
        BY <3>1, <4>1
    <3> QED
      BY <3>3, <3>4
  <2>14. \A d \in Client : limitRow'[d].hits <= decided'[d][limitRow'[d].window]
    <3> TAKE d \in Client
    <3>1. limitRow[d].hits <= decided[d][limitRow[d].window] /\ limitRow[d].window \in Windows
          /\ limitRow[d].hits \in Nat
      BY <1>t DEF RateInv, RateTypeOK
    <3>2. decided'[d][limitRow[d].window] >= decided[d][limitRow[d].window]
          /\ decided'[d][limitRow[d].window] \in Nat /\ decided[d][limitRow[d].window] \in Nat
      BY <1>d, <2>6, <2>7, <3>1
    <3> QED
      BY <2>1, <3>1, <3>2
  <2>15. /\ \A d \in Client, v \in Windows : d # c \/ v # w => Tickets(d, v)' \subseteq Tickets(d, v)
         /\ Cardinality(Tickets(c, w)') + (IF m[c].hits <= Limit THEN 1 ELSE 0)
              <= Cardinality(Tickets(c, w)) + (IF m[c].hits = 1 THEN Limit ELSE 0)
    <3>1. CountsAs(p, c, w, m)
      BY <2>1, <2>3, <2>4 DEF CountsAs
    <3>2. TicketsLeft(c, w, m)
      BY <3>1, TicketsOfHit
    <3> QED
      BY <3>2 DEF TicketsLeft
  <2>16. \A d \in Client, v \in Windows :
           Room(limitRow'[d], v) + Cardinality(Tickets(d, v)') + passed'[d][v] <= Limit * restarts'[d][v]
    <3> TAKE d \in Client, v \in Windows
    <3>1. IsFiniteSet(Tickets(d, v)) /\ Cardinality(Tickets(d, v)) \in Nat
      BY TicketsFinite
    <3>2. Room(limitRow[d], v) + Cardinality(Tickets(d, v)) + passed[d][v] <= Limit * restarts[d][v]
      BY DEF RateInv
    <3>3. limitRow[d].hits \in Nat /\ limitRow' = limitRow
      BY <1>t, <2>1 DEF RateTypeOK
    <3>4. Room(limitRow[d], v) \in Nat
      BY <1>n, <3>3 DEF Room
    <3>5. CASE d # c \/ v # w
      <4>1. Tickets(d, v)' \subseteq Tickets(d, v)
        BY <2>15, <3>5
      <4>2. Cardinality(Tickets(d, v)') \in Nat /\ Cardinality(Tickets(d, v)') <= Cardinality(Tickets(d, v))
        BY <3>1, <4>1, SubsetAtMost
      <4>3. passed'[d][v] = passed[d][v] /\ restarts'[d][v] = restarts[d][v] /\ passed[d][v] \in Nat
        BY <1>d, <2>7, <3>5
      <4> DEFINE bound == Limit * restarts[d][v]
                 k1 == Cardinality(Tickets(d, v))
                 k2 == Cardinality(Tickets(d, v)')
      <4>4. bound \in Nat
        BY <1>d, <1>n
      <4>5. Limit * restarts'[d][v] = bound /\ Room(limitRow[d], v) + k1 + passed[d][v] <= bound
        BY <3>2, <4>3
      <4>6. k1 \in Nat /\ k2 \in Nat /\ k2 <= k1
        BY <3>1, <4>2
      <4>7. Room(limitRow'[d], v) = Room(limitRow[d], v)
        BY <3>3
      <4> HIDE DEF bound, k1, k2
      <4>8. Room(limitRow'[d], v) + k2 + passed'[d][v] <= Limit * restarts'[d][v]
        BY <3>4, <4>3, <4>4, <4>5, <4>6, <4>7
      <4> QED
        BY <4>8 DEF k2
    <3>6. CASE d = c /\ v = w
      <4> DEFINE r1 == Room(limitRow[c], w)
                 k1 == Cardinality(Tickets(c, w))
                 k2 == Cardinality(Tickets(c, w)')
                 ps == passed[c][w]
                 rs == restarts[c][w]
                 hs == m[c].hits
      <4>1. IsFiniteSet(Tickets(c, w)') /\ k2 \in Nat
        <5>1. IsFiniteSet(Replica) /\ IsFiniteSet(1 .. Limit)
          BY RateConstants, FS_Interval
        <5>2. IsFiniteSet(Replica \X (1 .. Limit))
          BY <5>1, FS_Product
        <5>3. Tickets(c, w)' \subseteq Replica \X (1 .. Limit)
          BY DEF Tickets
        <5> QED
          BY <5>2, <5>3, FS_Subset, FS_CardinalityType
      <4>3. r1 \in Nat /\ k1 \in Nat /\ k2 \in Nat /\ ps \in Nat /\ rs \in Nat /\ hs \in Nat /\ hs > 0
        BY <1>d, <2>2, <2>4, <3>1, <3>4, <3>6, <4>1
      <4>4. r1 + k1 + ps <= Limit * rs
        BY <3>2, <3>6
      <4>5. k2 + (IF hs <= Limit THEN 1 ELSE 0) <= k1 + (IF hs = 1 THEN Limit ELSE 0)
        BY <2>15
      <4>6. Room(limitRow'[d], v) = r1 /\ passed'[d][v] = ps + (IF hs <= Limit THEN 1 ELSE 0)
            /\ restarts'[d][v] = rs + (IF hs = 1 THEN 1 ELSE 0)
        BY <2>7, <3>3, <3>6
      <4>7. Cardinality(Tickets(d, v)') = k2
        <5>1. Tickets(d, v)' = Tickets(c, w)'
          BY <3>6 DEF Tickets
        <5> QED
          BY <5>1
      <4> HIDE DEF r1, k1, k2, ps, rs, hs
      <4>8. r1 + k2 + (IF hs <= Limit THEN 1 ELSE 0) <= r1 + k1 + (IF hs = 1 THEN Limit ELSE 0)
        BY <1>n, <4>3, <4>5
      <4>9. r1 + k2 + (ps + (IF hs <= Limit THEN 1 ELSE 0)) <= Limit * (rs + (IF hs = 1 THEN 1 ELSE 0))
        BY <1>n, <4>3, <4>4, <4>8, DecideRoom
      <4> QED
        BY <4>6, <4>7, <4>9
    <3> QED
      BY <3>5, <3>6
  <2> QED
    BY <2>1, <2>6, <2>8, <2>10, <2>11, <2>12, <2>13, <2>14, <2>16 DEF RateInv, WindowAt
<1>5. CASE UNCHANGED rateVars
  BY <1>5, <1>a, <1>t DEF rateVars, RateTypeOK
<1> QED
  BY <1>1, <1>2, <1>3, <1>4, <1>5 DEF RateNext

\* The invariant has the types and the limits of what passes.
LEMMA RateInvSafe == RateInv => RateTypeOK /\ RateSafe
<1> SUFFICES ASSUME RateInv, NEW c \in Client, NEW w \in Windows
             PROVE  RateTypeOK /\ passed[c][w] <= Limit * restarts[c][w]
                    /\ (decided[c][w] <= Limit => passed[c][w] = decided[c][w])
  BY DEF RateSafe, RateInv
<1>1. Room(limitRow[c], w) + Cardinality(Tickets(c, w)) + passed[c][w] <= Limit * restarts[c][w]
      /\ RateTypeOK /\ (decided[c][w] <= Limit => passed[c][w] = decided[c][w])
  BY DEF RateInv
<1>2. Cardinality(Tickets(c, w)) \in Nat /\ Limit \in Nat
  BY TicketsFinite, RateConstants
<1>3. limitRow[c].hits \in Nat /\ passed[c][w] \in Nat /\ restarts[c][w] \in Nat
  BY <1>1 DEF RateTypeOK
<1>4. Room(limitRow[c], w) \in Nat
  BY <1>2, <1>3 DEF Room
<1>5. Limit * restarts[c][w] \in Nat
  BY <1>2, <1>3
<1> DEFINE bound == Limit * restarts[c][w]
<1> HIDE DEF bound
<1>6. passed[c][w] <= bound
  BY <1>1, <1>2, <1>3, <1>4, <1>5 DEF bound
<1> QED
  BY <1>1, <1>6 DEF bound

\* The limits keep the invariant (rate-limit.ts).
LEMMA RateInvariance == RateSpec => []RateInv
<1> QED
  BY RateStart, RateStep, PTL DEF RateSpec

\* Every count lets at most its limit through, and refuses nobody below it (rate-limit.ts).
THEOREM RatesAreSafe == RateSpec => [](RateTypeOK /\ RateSafe)
<1>1. RateInv => RateTypeOK /\ RateSafe
  BY RateInvSafe
<1> QED
  BY <1>1, RateInvariance, PTL

-----------------------------------------------------------------------------
(* Retention (Upkeep). *)

EventRows == [old : BOOLEAN, routed : BOOLEAN]

DispatchRows == [of : Announced, old : BOOLEAN, status : {"pending", "finished"}]

RadarRows == [old : BOOLEAN, open : BOOLEAN]

Runs == [task : 1 .. 3, batch : 0 .. MaxBatches, deleting : BOOLEAN,
         picked : SUBSET (Announced \cup Dispatch \cup RadarPull)]

\* A row that was selected may still go.
MayGo(task, r) ==
  \/ /\ task = 1 /\ r \in Dispatch /\ dispatch[r] # GoneRow /\ dispatch[r].status # "pending"
  \/ /\ task = 2 /\ r \in Announced /\ keptEvents[r] # GoneRow /\ keptEvents[r].routed
     /\ \A d \in Dispatch : dispatch[d] # GoneRow /\ dispatch[d].of = r /\ dispatch[d].status = "pending"
                              => d \in late
  \/ /\ task = 3 /\ r \in RadarPull /\ radar[r] # GoneRow /\ ~radar[r].open

\* The replicas at work.
RunningKeepers == {k \in Keeper : keeper[k] # IdleKeeper}

\* The inductive invariant.
RetentionInv ==
  /\ RetentionTypeOK
  /\ advisory = RunningKeepers
  /\ \A j, k \in RunningKeepers : j = k
  /\ \A k \in RunningKeepers : \A r \in keeper[k].picked : MayGo(keeper[k].task, r)
  /\ lost \subseteq late

\* Nothing is due at first.
LEMMA RetentionStart == RetentionInit => RetentionInv
<1> SUFFICES ASSUME RetentionInit PROVE RetentionInv
  OBVIOUS
<1>n. MaxUpdates \in Nat
  BY RetentionAssumption
<1>1. keptEvents \in [Announced -> {GoneRow} \cup EventRows]
  BY DEF RetentionInit, EventRows
<1>2. dispatch \in [Dispatch -> {GoneRow} \cup DispatchRows] /\ radar \in [RadarPull -> {GoneRow} \cup RadarRows]
  BY DEF RetentionInit, RadarRows
<1>3. keeper \in [Keeper -> {IdleKeeper} \cup Runs] /\ \A k \in Keeper : keeper[k] = IdleKeeper
  BY DEF RetentionInit
<1>4. updates \in 0 .. MaxUpdates /\ late \subseteq Dispatch /\ advisory = {} /\ late = {} /\ lost = {}
  BY <1>n DEF RetentionInit
<1>5. RetentionTypeOK
  BY <1>1, <1>2, <1>3, <1>4 DEF RetentionTypeOK, EventRows, DispatchRows, RadarRows, Runs
<1>6. RunningKeepers = {}
  BY <1>3 DEF RunningKeepers
<1> QED
  BY <1>4, <1>5, <1>6 DEF RetentionInv

\* Every step of the upkeep and of those who write the tables.
LEMMA RetentionStep == RetentionInv /\ [RetentionNext]_retentionVars => RetentionInv'
<1> SUFFICES ASSUME RetentionInv, [RetentionNext]_retentionVars PROVE RetentionInv'
  OBVIOUS
<1>n. MaxUpdates \in Nat /\ MaxBatches \in Nat
      /\ Announced \cap Dispatch = {} /\ Announced \cap RadarPull = {} /\ Dispatch \cap RadarPull = {}
  BY RetentionAssumption
<1>t. /\ keptEvents \in [Announced -> {GoneRow} \cup EventRows]
      /\ dispatch \in [Dispatch -> {GoneRow} \cup DispatchRows]
      /\ radar \in [RadarPull -> {GoneRow} \cup RadarRows]
      /\ keeper \in [Keeper -> {IdleKeeper} \cup Runs]
      /\ advisory \subseteq Keeper /\ updates \in 0 .. MaxUpdates
      /\ late \subseteq Dispatch /\ lost \subseteq Announced \cup Dispatch \cup RadarPull
  BY DEF RetentionInv, RetentionTypeOK, EventRows, DispatchRows, RadarRows, Runs
<1>k. ASSUME NEW k \in Keeper, keeper[k] # IdleKeeper PROVE keeper[k] \in Runs /\ k \in RunningKeepers
  BY <1>t, <1>k DEF RunningKeepers
<1>y. ASSUME keptEvents' \in [Announced -> {GoneRow} \cup EventRows],
             dispatch' \in [Dispatch -> {GoneRow} \cup DispatchRows],
             radar' \in [RadarPull -> {GoneRow} \cup RadarRows],
             keeper' \in [Keeper -> {IdleKeeper} \cup Runs],
             advisory' \subseteq Keeper, updates' \in 0 .. MaxUpdates,
             late' \subseteq Dispatch, lost' \subseteq Announced \cup Dispatch \cup RadarPull
      PROVE  RetentionTypeOK'
  BY <1>y DEF RetentionTypeOK, EventRows, DispatchRows, RadarRows, Runs
\* A step of the tables: what was selected and not touched may still go.
<1>u. ASSUME keptEvents' \in [Announced -> {GoneRow} \cup EventRows],
             dispatch' \in [Dispatch -> {GoneRow} \cup DispatchRows],
             radar' \in [RadarPull -> {GoneRow} \cup RadarRows],
             updates' \in 0 .. MaxUpdates, late' \subseteq Dispatch, late \subseteq late',
             UNCHANGED <<advisory, lost>>,
             NEW one, NEW same \in BOOLEAN, keeper' = IF same THEN keeper ELSE Touched(one),
             \A k \in RunningKeepers : \A r \in keeper[k].picked : \A task \in 1 .. 3 :
                (r # one \/ same) /\ MayGo(task, r) => MayGo(task, r)'
      PROVE  RetentionInv'
  <2>1. \A k \in Keeper : \/ keeper[k] = IdleKeeper /\ keeper'[k] = IdleKeeper
                          \/ /\ keeper[k] # IdleKeeper /\ keeper'[k] \in Runs /\ keeper'[k] # IdleKeeper
                             /\ keeper'[k].task = keeper[k].task /\ keeper'[k].picked \subseteq keeper[k].picked
                             /\ (same \/ one \notin keeper'[k].picked)
    <3> TAKE k \in Keeper
    <3>1. CASE same
      BY <1>k, <1>u, <3>1
    <3>2. CASE ~same /\ keeper[k] = IdleKeeper
      BY <1>u, <3>2 DEF Touched
    <3>3. CASE ~same /\ keeper[k] # IdleKeeper
      <4>1. keeper[k] \in Runs /\ keeper'[k] = [keeper[k] EXCEPT !.picked = keeper[k].picked \ {one}]
        BY <1>k, <1>u, <3>3 DEF Touched
      <4>2. keeper'[k] \in Runs /\ keeper'[k].task = keeper[k].task /\ keeper'[k].picked = keeper[k].picked \ {one}
        BY <4>1 DEF Runs
      <4>3. keeper'[k] # IdleKeeper
        BY <4>2 DEF Runs, IdleKeeper
      <4> QED
        BY <3>3, <4>2, <4>3
    <3> QED
      BY <1>u, <3>1, <3>2, <3>3
  <2>2. keeper' \in [Keeper -> {IdleKeeper} \cup Runs]
    <3>1. keeper' = [k \in Keeper |-> keeper'[k]]
      BY <1>t, <1>u DEF Touched
    <3> QED
      BY <2>1, <3>1
  <2>3. RetentionTypeOK'
    BY <1>t, <1>u, <1>y, <2>2
  <2>4. RunningKeepers' = RunningKeepers
    BY <2>1 DEF RunningKeepers
  <2>5. ASSUME NEW k \in RunningKeepers', NEW r \in keeper'[k].picked, NEW task \in 1 .. 3,
               task = keeper'[k].task
        PROVE  MayGo(task, r)'
    <3>1. k \in RunningKeepers /\ task = keeper[k].task /\ r \in keeper[k].picked /\ (r # one \/ same)
      BY <2>1, <2>4, <2>5 DEF RunningKeepers
    <3>2. MayGo(task, r)
      BY <3>1 DEF RetentionInv
    <3> QED
      BY <1>u, <3>1, <3>2
  <2>8. \A k \in RunningKeepers' : \A r \in keeper'[k].picked : MayGo(keeper[k].task, r)'
    <3> TAKE k \in RunningKeepers'
    <3> TAKE r \in keeper'[k].picked
    <3>1. keeper'[k] \in Runs
      BY <2>1, <2>4 DEF RunningKeepers
    <3>2. PICK task \in 1 .. 3 : task = keeper'[k].task
      BY <3>1 DEF Runs
    <3>3. MayGo(task, r)'
      BY <2>5, <3>2
    <3> QED
      BY <3>2, <3>3 DEF MayGo
  <2>6. advisory' = RunningKeepers' /\ \A j, k \in RunningKeepers' : j = k
    BY <1>u, <2>4 DEF RetentionInv
  <2>7. lost' \subseteq late'
    BY <1>u DEF RetentionInv
  <2> QED
    BY <2>3, <2>6, <2>7, <2>8 DEF RetentionInv
\* A step of one run.
<1>r. ASSUME NEW k \in Keeper, NEW rec \in {IdleKeeper} \cup Runs, keeper' = [keeper EXCEPT ![k] = rec],
             keptEvents' \in [Announced -> {GoneRow} \cup EventRows],
             dispatch' \in [Dispatch -> {GoneRow} \cup DispatchRows],
             radar' \in [RadarPull -> {GoneRow} \cup RadarRows],
             UNCHANGED <<updates, late>>,
             lost' \subseteq Announced \cup Dispatch \cup RadarPull, lost' \subseteq late,
             \A j \in RunningKeepers : j = k,
             advisory' = IF rec = IdleKeeper THEN {} ELSE {k},
             rec # IdleKeeper => \A r \in rec.picked : \A task \in 1 .. 3 : task = rec.task => MayGo(task, r)'
      PROVE  RetentionInv'
  <2>1. keeper' \in [Keeper -> {IdleKeeper} \cup Runs] /\ keeper'[k] = rec
        /\ \A j \in Keeper \ {k} : keeper'[j] = IdleKeeper
    BY <1>r, <1>t DEF RunningKeepers
  <2>2. RunningKeepers' = IF rec = IdleKeeper THEN {} ELSE {k}
    BY <2>1 DEF RunningKeepers
  <2>3. RetentionTypeOK'
    BY <1>t, <1>r, <1>y, <2>1
  <2>4. \A j \in RunningKeepers' : \A r \in keeper'[j].picked : MayGo(keeper[j].task, r)'
    <3> TAKE j \in RunningKeepers'
    <3> TAKE r \in keeper'[j].picked
    <3>1. j = k /\ rec # IdleKeeper /\ rec \in Runs /\ keeper'[j] = rec
      BY <2>1, <2>2
    <3>2. PICK task \in 1 .. 3 : task = rec.task
      BY <3>1 DEF Runs
    <3>3. MayGo(task, r)'
      BY <1>r, <3>1, <3>2
    <3> QED
      BY <3>1, <3>2, <3>3 DEF MayGo
  <2>5. lost' \subseteq late'
    BY <1>r
  <2> QED
    BY <1>r, <2>2, <2>3, <2>4, <2>5 DEF RetentionInv
<1>m. \A k \in RunningKeepers : keeper[k] \in Runs /\ k \in Keeper
  BY <1>k DEF RunningKeepers
<1>1. CASE Passes
  <2>1. /\ keptEvents' \in [Announced -> {GoneRow} \cup EventRows]
        /\ dispatch' \in [Dispatch -> {GoneRow} \cup DispatchRows]
        /\ radar' \in [RadarPull -> {GoneRow} \cup RadarRows]
    <3>1. ASSUME NEW e \in Announced, keptEvents[e] # GoneRow
          PROVE  [keptEvents EXCEPT ![e].old = TRUE] \in [Announced -> {GoneRow} \cup EventRows]
      BY <1>t, <3>1 DEF EventRows
    <3>2. ASSUME NEW d \in Dispatch, dispatch[d] # GoneRow
          PROVE  [dispatch EXCEPT ![d].old = TRUE] \in [Dispatch -> {GoneRow} \cup DispatchRows]
      BY <1>t, <3>2 DEF DispatchRows
    <3>3. ASSUME NEW p \in RadarPull, radar[p] # GoneRow
          PROVE  [radar EXCEPT ![p].old = TRUE] \in [RadarPull -> {GoneRow} \cup RadarRows]
      BY <1>t, <3>3 DEF RadarRows
    <3> QED
      BY <1>1, <1>t, <3>1, <3>2, <3>3 DEF Passes, Ages
  <2>2. \A e \in Announced : \/ keptEvents'[e] = keptEvents[e]
                             \/ keptEvents'[e] # GoneRow /\ keptEvents[e] # GoneRow
                                /\ keptEvents'[e].routed = keptEvents[e].routed
    BY <1>1, <1>t DEF Passes, Ages, EventRows, GoneRow
  <2>3. \A d \in Dispatch : \/ dispatch'[d] = dispatch[d]
                            \/ dispatch'[d] # GoneRow /\ dispatch[d] # GoneRow
                                /\ dispatch'[d].status = dispatch[d].status /\ dispatch'[d].of = dispatch[d].of
    BY <1>1, <1>t DEF Passes, Ages, DispatchRows, GoneRow
  <2>4. \A p \in RadarPull : \/ radar'[p] = radar[p]
                             \/ radar'[p] # GoneRow /\ radar[p] # GoneRow /\ radar'[p].open = radar[p].open
    BY <1>1, <1>t DEF Passes, Ages, RadarRows, GoneRow
  <2>5. UNCHANGED <<keeper, advisory, updates, late, lost>>
    BY <1>1 DEF Passes, ghosts
  <2>6. \A r, task : MayGo(task, r) => MayGo(task, r)'
    BY <2>2, <2>3, <2>4, <2>5 DEF MayGo
  <2>7. keeper' = IF TRUE THEN keeper ELSE Touched({})
    BY <2>5
  <2> QED
    BY <1>t, <1>u, <2>1, <2>5, <2>6, <2>7
<1>2. ASSUME NEW e \in Announced, NEW D \in SUBSET Dispatch, Routes(e, D) PROVE RetentionInv'
  <2>1. /\ keptEvents[e] # GoneRow /\ ~keptEvents[e].routed /\ \A d \in D : dispatch[d] = GoneRow
        /\ keptEvents' = [keptEvents EXCEPT ![e].routed = TRUE]
        /\ dispatch' = [d \in Dispatch |->
             IF d \in D THEN [of |-> e, old |-> FALSE, status |-> "pending"] ELSE dispatch[d]]
        /\ keeper' = Touched(e) /\ UNCHANGED <<radar, advisory, updates, late, lost>>
    BY <1>2 DEF Routes, ghosts
  <2>2. /\ keptEvents' \in [Announced -> {GoneRow} \cup EventRows]
        /\ dispatch' \in [Dispatch -> {GoneRow} \cup DispatchRows]
    BY <1>t, <2>1 DEF EventRows, DispatchRows
  <2>3. \A r, task : r # e /\ MayGo(task, r) => MayGo(task, r)'
    BY <1>t, <2>1 DEF MayGo
  <2>9. keeper' = IF FALSE THEN keeper ELSE Touched(e)
    BY <2>1
  <2> QED
    BY <1>t, <1>u, <2>1, <2>2, <2>3, <2>9
<1>3. ASSUME NEW d \in Dispatch, Finishes(d) PROVE RetentionInv'
  <2>1. /\ dispatch[d] # GoneRow /\ dispatch' = [dispatch EXCEPT ![d].status = "finished"]
        /\ keeper' = Touched(d) /\ UNCHANGED <<keptEvents, radar, advisory, updates, late, lost>>
    BY <1>3 DEF Finishes, ghosts
  <2>2. dispatch' \in [Dispatch -> {GoneRow} \cup DispatchRows]
        /\ dispatch'[d] # GoneRow /\ dispatch'[d].status # "pending"
        /\ \A c \in Dispatch \ {d} : dispatch'[c] = dispatch[c]
    BY <1>t, <2>1 DEF DispatchRows, GoneRow
  <2>3. \A r, task : r # d /\ MayGo(task, r) => MayGo(task, r)'
    BY <2>1, <2>2 DEF MayGo
  <2>9. keeper' = IF FALSE THEN keeper ELSE Touched(d)
    BY <2>1
  <2> QED
    BY <1>t, <1>u, <2>1, <2>2, <2>3, <2>9
<1>4. ASSUME NEW d \in Dispatch, Redeliver(d) PROVE RetentionInv'
  <2>1. /\ dispatch[d] # GoneRow /\ dispatch' = [dispatch EXCEPT ![d].status = "pending"]
        /\ keeper' = Touched(d) /\ UNCHANGED <<keptEvents, radar, advisory, lost>>
        /\ late' = IF \E k \in Keeper : keeper[k] # IdleKeeper /\ dispatch[d].of \in keeper[k].picked
                   THEN late \cup {d} ELSE late
    BY <1>4 DEF Redeliver
  <2>2. dispatch' \in [Dispatch -> {GoneRow} \cup DispatchRows]
        /\ dispatch'[d] # GoneRow /\ dispatch'[d].of = dispatch[d].of
        /\ \A c \in Dispatch \ {d} : dispatch'[c] = dispatch[c]
    BY <1>t, <2>1 DEF DispatchRows, GoneRow
  <2>3. updates' \in 0 .. MaxUpdates
    BY <1>4, <1>t, <1>n DEF Redeliver, NewVersion
  <2>4. late \subseteq late' /\ late' \subseteq Dispatch
    BY <1>t, <2>1
  <2>5. ASSUME NEW k \in RunningKeepers, NEW r \in keeper[k].picked, NEW task \in 1 .. 3,
               r # d, MayGo(task, r)
        PROVE  MayGo(task, r)'
    <3>1. dispatch[d].of = r => d \in late'
      BY <2>1, <2>5 DEF RunningKeepers
    <3> QED
      BY <2>1, <2>2, <2>4, <2>5, <3>1 DEF MayGo
  <2>9. keeper' = IF FALSE THEN keeper ELSE Touched(d)
    BY <2>1
  <2> QED
    BY <1>t, <1>u, <2>1, <2>2, <2>3, <2>4, <2>5, <2>9
<1>5. ASSUME NEW p \in RadarPull, Toggles(p) PROVE RetentionInv'
  <2>1. /\ radar[p] # GoneRow /\ radar' = [radar EXCEPT ![p] = [old |-> FALSE, open |-> ~radar[p].open]]
        /\ keeper' = Touched(p) /\ UNCHANGED <<keptEvents, dispatch, advisory, late, lost>>
    BY <1>5 DEF Toggles, ghosts
  <2>2. updates' \in 0 .. MaxUpdates
    BY <1>5, <1>t, <1>n DEF Toggles, NewVersion
  <2>3. radar' \in [RadarPull -> {GoneRow} \cup RadarRows] /\ \A o \in RadarPull \ {p} : radar'[o] = radar[o]
    BY <1>t, <2>1 DEF RadarRows
  <2>4. \A r, task : r # p /\ MayGo(task, r) => MayGo(task, r)'
    BY <2>1, <2>3 DEF MayGo
  <2>9. keeper' = IF FALSE THEN keeper ELSE Touched(p)
    BY <2>1
  <2> QED
    BY <1>t, <1>u, <2>1, <2>2, <2>3, <2>4, <2>9
<1>6. ASSUME NEW k \in Keeper, StartRun(k) PROVE RetentionInv'
  <2> DEFINE rec == [task |-> 1, batch |-> 0, deleting |-> FALSE, picked |-> {}]
  <2>1. /\ advisory = {} /\ advisory' = {k} /\ keeper' = [keeper EXCEPT ![k] = rec]
        /\ UNCHANGED <<keptEvents, dispatch, radar, updates, late, lost>>
    BY <1>6 DEF StartRun, ghosts
  <2>2. rec \in Runs /\ rec # IdleKeeper /\ rec.picked = {}
    BY <1>n DEF Runs, IdleKeeper
  <2>3. \A j \in RunningKeepers : j = k
    BY <2>1 DEF RetentionInv
  <2>4. lost' \subseteq late /\ lost' \subseteq Announced \cup Dispatch \cup RadarPull
    BY <1>t, <2>1 DEF RetentionInv
  <2> HIDE DEF rec
  <2> QED
    BY <1>t, <1>r, <2>1, <2>2, <2>3, <2>4
<1>7. ASSUME NEW k \in Keeper, Pick(k) PROVE RetentionInv'
  <2>1. keeper[k] # IdleKeeper /\ UNCHANGED <<keptEvents, dispatch, radar, advisory, updates, late, lost>>
    BY <1>7 DEF Pick, ghosts
  <2>2. keeper[k] \in Runs /\ k \in RunningKeepers
    BY <1>k, <2>1
  <2>3. PICK S \in SUBSET Expired(Tasks[keeper[k].task]) :
           keeper' = [keeper EXCEPT ![k].picked = S, ![k].deleting = TRUE]
    BY <1>7 DEF Pick
  <2> DEFINE rec == [keeper[k] EXCEPT !.picked = S, !.deleting = TRUE]
  <2>4. keeper' = [keeper EXCEPT ![k] = rec]
    BY <1>t, <2>3
  <2>5. PICK task \in 1 .. 3 : task = keeper[k].task
    BY <2>2 DEF Runs
  <2>6. \A r \in S : MayGo(task, r)
    <3> TAKE r \in S
    <3>1. CASE task = 1
      <4>1. r \in Expired("deliveries")
        BY <2>5, <3>1 DEF Tasks
      <4> QED
        BY <3>1, <4>1 DEF Expired, MayGo
    <3>2. CASE task = 2
      <4>1. r \in Expired("events")
        BY <2>5, <3>2 DEF Tasks
      <4> QED
        BY <3>2, <4>1 DEF Expired, MayGo, Unneeded
    <3>3. CASE task = 3
      <4>1. r \in Expired("signals")
        BY <2>5, <3>3 DEF Tasks
      <4> QED
        BY <3>3, <4>1 DEF Expired, MayGo
    <3> QED
      BY <3>1, <3>2, <3>3
  <2>7. S \subseteq Announced \cup Dispatch \cup RadarPull
    BY <2>6 DEF MayGo
  <2>8. rec \in Runs /\ rec.picked = S /\ rec.task = task
    BY <2>2, <2>5, <2>7 DEF Runs
  <2> HIDE DEF rec
  <2>9. rec # IdleKeeper /\ \A j \in RunningKeepers : j = k
    BY <2>2, <2>8 DEF Runs, IdleKeeper, RetentionInv
  <2>10. advisory' = {k}
    BY <2>1, <2>2, <2>9 DEF RetentionInv
  <2>11. \A r \in rec.picked : \A tk \in 1 .. 3 : tk = rec.task => MayGo(tk, r)'
    BY <2>1, <2>6, <2>8 DEF MayGo
  <2>12. lost' \subseteq late /\ lost' \subseteq Announced \cup Dispatch \cup RadarPull
    BY <1>t, <2>1 DEF RetentionInv
  <2>13. rec \in {IdleKeeper} \cup Runs /\ advisory' = IF rec = IdleKeeper THEN {} ELSE {k}
    BY <2>8, <2>9, <2>10
  <2> QED
    BY <1>t, <1>r, <2>1, <2>4, <2>9, <2>11, <2>12, <2>13
<1>8. ASSUME NEW k \in Keeper, Delete(k) PROVE RetentionInv'
  <2> DEFINE S == {r \in keeper[k].picked :
                    r \in Announced \/ (r \in Dispatch /\ dispatch[r] # GoneRow) \/ r \in RadarPull}
             more == Cardinality(S) = RowBatch /\ keeper[k].batch + 1 < MaxBatches
             last == keeper[k].task = Len(Tasks)
             next == [task |-> IF more THEN keeper[k].task ELSE keeper[k].task + 1,
                      batch |-> IF more THEN keeper[k].batch + 1 ELSE 0,
                      deleting |-> FALSE, picked |-> {}]
  <2>1. /\ keeper[k] # IdleKeeper /\ lost' = lost \cup Needed(S)
        /\ keptEvents' = [e \in Announced |-> IF e \in S THEN GoneRow ELSE keptEvents[e]]
        /\ dispatch' = [d \in Dispatch |-> IF d \in Gone(S) THEN GoneRow ELSE dispatch[d]]
        /\ radar' = [p \in RadarPull |-> IF p \in S THEN GoneRow ELSE radar[p]]
        /\ UNCHANGED <<updates, late>>
    BY <1>8 DEF Delete
  <2>2. \/ (more \/ ~last) /\ keeper' = [keeper EXCEPT ![k] = next] /\ advisory' = advisory
        \/ ~more /\ last /\ keeper' = [keeper EXCEPT ![k] = IdleKeeper] /\ advisory' = advisory \ {k}
    BY <1>8 DEF Delete
  <2>3. keeper[k] \in Runs /\ k \in RunningKeepers
    BY <1>k, <2>1
  <2>4. PICK task \in 1 .. 3 : task = keeper[k].task
    BY <2>3 DEF Runs
  <2>5. \A r \in S : MayGo(task, r) /\ (r \in Dispatch => dispatch[r] # GoneRow)
    BY <1>n, <2>3, <2>4 DEF RetentionInv
  <2>6. (more \/ ~last) => next \in Runs
    <3>1. keeper[k].batch \in 0 .. MaxBatches /\ Len(Tasks) = 3
      BY <2>3 DEF Runs, Tasks
    <3> DEFINE nt == IF more THEN keeper[k].task ELSE keeper[k].task + 1
               nb == IF more THEN keeper[k].batch + 1 ELSE 0
    <3>2. (more \/ ~last) => nt \in 1 .. 3
      BY <2>4, <3>1
    <3>3. nb \in 0 .. MaxBatches
      BY <1>n, <3>1
    <3>4. next = [task |-> nt, batch |-> nb, deleting |-> FALSE, picked |-> {}]
      OBVIOUS
    <3> HIDE DEF nt, nb, next, more, last
    <3> QED
      BY <3>2, <3>3, <3>4 DEF Runs
  <2>7. next.picked = {} /\ next # IdleKeeper
    BY DEF IdleKeeper
  <2> HIDE DEF S, more, last, next
  <2>8. Needed(S) \subseteq late
    <3> SUFFICES ASSUME NEW r \in Needed(S) PROVE r \in late
      OBVIOUS
    <3>1. CASE r \in S /\ r \in Announced /\ ~keptEvents[r].routed
      BY <1>n, <2>5, <3>1 DEF MayGo
    <3>2. CASE r \in S /\ r \in RadarPull /\ radar[r].open
      BY <1>n, <2>5, <3>2 DEF MayGo
    <3>3. CASE r \in Gone(S) /\ r \in Dispatch /\ dispatch[r].status = "pending"
      <4>1. CASE r \in S
        BY <1>n, <2>5, <3>3, <4>1 DEF MayGo
      <4>2. CASE dispatch[r] # GoneRow /\ dispatch[r].of \in S
        <5>1. dispatch[r].of \in Announced
          BY <1>t, <3>3, <4>2 DEF DispatchRows
        <5> QED
          BY <1>n, <2>5, <3>3, <4>2, <5>1 DEF MayGo
      <4> QED
        BY <3>3, <4>1, <4>2 DEF Gone
    <3> QED
      BY <3>1, <3>2, <3>3 DEF Needed
  <2>9. /\ keptEvents' \in [Announced -> {GoneRow} \cup EventRows]
        /\ dispatch' \in [Dispatch -> {GoneRow} \cup DispatchRows]
        /\ radar' \in [RadarPull -> {GoneRow} \cup RadarRows]
    BY <1>t, <2>1
  <2>10. lost' \subseteq late /\ lost' \subseteq Announced \cup Dispatch \cup RadarPull
    <3>1. late \subseteq Dispatch /\ lost \subseteq late
      BY <1>t DEF RetentionInv
    <3> QED
      BY <2>1, <2>8, <3>1
  <2>11. (\A j \in RunningKeepers : j = k) /\ advisory = {k}
    BY <2>3 DEF RetentionInv
  <2>12. CASE (more \/ ~last) /\ keeper' = [keeper EXCEPT ![k] = next] /\ advisory' = advisory
    <3>1. next \in {IdleKeeper} \cup Runs /\ advisory' = IF next = IdleKeeper THEN {} ELSE {k}
      BY <2>6, <2>7, <2>11, <2>12
    <3>2. next # IdleKeeper => \A r \in next.picked : \A tk \in 1 .. 3 : tk = next.task => MayGo(tk, r)'
      BY <2>7
    <3> QED
      BY <1>r, <2>1, <2>9, <2>10, <2>11, <2>12, <3>1, <3>2
  <2>13. CASE ~more /\ last /\ keeper' = [keeper EXCEPT ![k] = IdleKeeper] /\ advisory' = advisory \ {k}
    <3>1. advisory' = IF IdleKeeper = IdleKeeper THEN {} ELSE {k}
      BY <2>11, <2>13
    <3> QED
      BY <1>r, <2>1, <2>9, <2>10, <2>11, <2>13, <3>1
  <2> QED
    BY <2>2, <2>12, <2>13
<1>9. ASSUME NEW k \in Keeper, RunFails(k) PROVE RetentionInv'
  <2>1. /\ keeper[k] # IdleKeeper /\ keeper' = [keeper EXCEPT ![k] = IdleKeeper]
        /\ advisory' = advisory \ {k} /\ UNCHANGED <<keptEvents, dispatch, radar, updates, late, lost>>
    BY <1>9 DEF RunFails, ghosts
  <2>2. k \in RunningKeepers /\ (\A j \in RunningKeepers : j = k) /\ advisory = {k}
    BY <1>k, <2>1 DEF RetentionInv
  <2>3. advisory' = IF IdleKeeper = IdleKeeper THEN {} ELSE {k}
    BY <2>1, <2>2
  <2>4. lost' \subseteq late /\ lost' \subseteq Announced \cup Dispatch \cup RadarPull
    BY <1>t, <2>1 DEF RetentionInv
  <2> QED
    BY <1>t, <1>r, <2>1, <2>2, <2>3, <2>4
<1>10. CASE UNCHANGED retentionVars
  <2>1. UNCHANGED <<keptEvents, dispatch, radar, keeper, advisory, updates, late, lost>>
    BY <1>10 DEF retentionVars
  <2>2. RunningKeepers' = RunningKeepers
    BY <2>1 DEF RunningKeepers
  <2>3. \A r, task : MayGo(task, r)' = MayGo(task, r)
    BY <2>1 DEF MayGo
  <2>4. RetentionTypeOK'
    BY <1>t, <1>y, <2>1
  <2>5. keeper' = IF TRUE THEN keeper ELSE Touched({})
    BY <2>1
  <2> QED
    BY <1>t, <1>u, <2>1, <2>3, <2>5
<1> QED
  BY <1>1, <1>2, <1>3, <1>4, <1>5, <1>6, <1>7, <1>8, <1>9, <1>10 DEF RetentionNext

\* The invariant has the types and what the upkeep must leave alone.
LEMMA RetentionInvSafe == RetentionInv => RetentionTypeOK /\ RetentionSafe
<1> SUFFICES ASSUME RetentionInv PROVE RetentionTypeOK /\ RetentionSafe
  OBVIOUS
<1>1. RunningKeepers = {} \/ \E k : RunningKeepers = {k}
  BY DEF RetentionInv
<1>2. Cardinality(RunningKeepers) <= 1
  <2>1. Cardinality({}) = 0 /\ \A k : Cardinality({k}) = 1
    BY FS_EmptySet, FS_Singleton
  <2> QED
    BY <1>1, <2>1
<1>3. lost \subseteq late /\ RetentionTypeOK
  BY DEF RetentionInv
<1> QED
  BY <1>2, <1>3 DEF RetentionSafe, RunningKeepers

\* The upkeep keeps the invariant (maintenance.ts).
LEMMA RetentionInvariance == RetentionSpec => []RetentionInv
<1> QED
  BY RetentionStart, RetentionStep, PTL DEF RetentionSpec

\* The upkeep deletes nothing that is still to be routed or sent, and one replica runs it
\* (maintenance.ts).
THEOREM RetentionIsSafe == RetentionSpec => [](RetentionTypeOK /\ RetentionSafe)
<1>1. RetentionInv => RetentionTypeOK /\ RetentionSafe
  BY RetentionInvSafe
<1> QED
  BY <1>1, RetentionInvariance, PTL

-----------------------------------------------------------------------------
(* Lists read from GitHub (GitHubListings). *)

\* What the listing may be.
Reading ==
  [at : {"none", "look", "token", "page", "accepted", "failed"}, by : {"user", "installation"},
   page : 1 .. MaxListPages, items : SUBSET Listable, total : 0 .. Unknown]

\* What GitHub had while it was read.
Had == {d.listed : d \in during}

Incomparable(a, b) == a \ b # {} /\ b \ a # {}

\* The inductive invariant.
ListingInv ==
  /\ ListingTypeOK
  /\ listing.at # "none" => [listed |-> there, suspended |-> suspended] \in during
  /\ listing.at \in {"token", "page", "accepted"} => \E d \in during : ~d.suspended
  /\ listing.at \in {"token", "page"} /\ listing.total = Unknown => listing.items = {}
  /\ listing.at \in {"look", "token"} => listing.total = Unknown /\ listing.items = {}
  /\ listing.at = "accepted" => Cardinality(listing.items) = listing.total
  /\ listing.at = "accepted" => listing.total # Unknown
  /\ listing.at \in {"page", "accepted"} /\ listing.total # Unknown =>
       /\ listing.items \subseteq UNION Had
       /\ \/ \E a, b \in Had : Incomparable(a, b)
          \/ \E T \in Had : listing.items \subseteq T /\ Cardinality(T) = listing.total

\* Nothing has been read at first.
LEMMA ListingStart == ListingInit => ListingInv
<1> SUFFICES ASSUME ListingInit PROVE ListingInv
  OBVIOUS
<1>n. MaxListPages \in Nat /\ MaxListPages >= 1 /\ MaxListMoves \in Nat /\ IsFiniteSet(Listable)
  BY ListingAssumption
<1>1. Unknown \in Nat
  BY <1>n, FS_CardinalityType DEF Unknown
<1>2. listing \in Reading /\ listing.at = "none"
  BY <1>n, <1>1 DEF ListingInit, Reading
<1>3. ListingTypeOK
  BY <1>n, <1>2 DEF ListingInit, ListingTypeOK, Reading
<1> QED
  BY <1>2, <1>3 DEF ListingInv

\* Every step of GitHub and of the pages read from it.
LEMMA ListingStep == ListingInv /\ [ListingNext]_listingVars => ListingInv'
<1> SUFFICES ASSUME ListingInv, [ListingNext]_listingVars PROVE ListingInv'
  OBVIOUS
<1>n. MaxListPages \in Nat /\ MaxListPages >= 1 /\ MaxListMoves \in Nat /\ IsFiniteSet(Listable)
  BY ListingAssumption
<1>c. \A S \in SUBSET Listable : IsFiniteSet(S) /\ Cardinality(S) \in Nat /\ Cardinality(S) <= Cardinality(Listable)
  BY <1>n, FS_Subset, FS_CardinalityType
<1>u. Unknown \in Nat /\ Unknown = Cardinality(Listable) + 1 /\ Cardinality(Listable) \in Nat
  BY <1>n, FS_CardinalityType DEF Unknown
<1>t. there \subseteq Listable /\ suspended \in BOOLEAN /\ listMoves \in 0 .. MaxListMoves
      /\ listing \in Reading /\ during \subseteq [listed : SUBSET Listable, suspended : BOOLEAN]
  BY DEF ListingInv, ListingTypeOK, Reading
<1>h. Had \subseteq SUBSET Listable
  BY <1>t DEF Had
\* Equal numbers, one listing in the other: the same listing.
<1>e. ASSUME NEW S \in SUBSET Listable, NEW T \in SUBSET Listable, Cardinality(S) = Cardinality(T),
             ~Incomparable(S, T)
      PROVE  S = T
  <2>1. S \subseteq T \/ T \subseteq S
    BY <1>e DEF Incomparable
  <2> QED
    BY <1>c, <1>e, <2>1, FS_Subset
\* A change of the read alone.
<1>r. ASSUME UNCHANGED <<there, suspended, listMoves, during>>, listing.at # "none",
             NEW rec \in Reading, listing' = rec, rec.at # "none",
             rec.at \in {"token", "page", "accepted"} => \E d \in during : ~d.suspended,
             rec.at \in {"token", "page"} /\ rec.total = Unknown => rec.items = {},
             rec.at \in {"look", "token"} => rec.total = Unknown /\ rec.items = {},
             rec.at = "accepted" => Cardinality(rec.items) = rec.total /\ rec.total # Unknown,
             rec.at \in {"page", "accepted"} /\ rec.total # Unknown =>
               /\ rec.items \subseteq UNION Had
               /\ \/ \E a, b \in Had : Incomparable(a, b)
                  \/ \E T \in Had : rec.items \subseteq T /\ Cardinality(T) = rec.total
      PROVE  ListingInv'
  <2>1. ListingTypeOK'
    BY <1>r, <1>t DEF ListingTypeOK, Reading
  <2>2. Had' = Had
    BY <1>r DEF Had
  <2>3. ([listed |-> there, suspended |-> suspended] \in during)'
    BY <1>r DEF ListingInv
  <2> QED
    BY <1>r, <2>1, <2>2, <2>3 DEF ListingInv
<1>1. CASE AtGitHub
  <2>1. listMoves' \in 0 .. MaxListMoves /\ there' \subseteq Listable /\ suspended' \in BOOLEAN
        /\ listing' = listing
    <3>1. listMoves' \in 0 .. MaxListMoves /\ listing' = listing
      BY <1>1, <1>t, <1>n DEF AtGitHub
    <3>2. there' \subseteq Listable
      BY <1>1, <1>t DEF AtGitHub
    <3>3. suspended' \in BOOLEAN
      BY <1>1, <1>t DEF AtGitHub
    <3> QED
      BY <3>1, <3>2, <3>3
  <2>2. during' = during \cup {[listed |-> there', suspended |-> suspended']}
    BY <1>1 DEF AtGitHub
  <2>3. ListingTypeOK'
    BY <1>t, <2>1, <2>2 DEF ListingTypeOK, Reading
  <2>4. Had \subseteq Had' /\ during \subseteq during'
    BY <2>2 DEF Had
  <2>5. ([listed |-> there, suspended |-> suspended] \in during)'
    BY <2>2
  <2> QED
    BY <2>1, <2>3, <2>4, <2>5 DEF ListingInv
<1>2. CASE ListingFails
  <2> DEFINE rec == [listing EXCEPT !.at = "failed"]
  <2>1. listing' = rec /\ UNCHANGED <<there, suspended, listMoves, during>> /\ listing.at # "none"
    BY <1>2 DEF ListingFails
  <2>2. rec \in Reading /\ rec.at = "failed"
    BY <1>t DEF Reading
  <2> HIDE DEF rec
  <2> QED
    BY <1>r, <2>1, <2>2
<1>3. ASSUME NEW by \in {"user", "installation"}, BeginListing(by) PROVE ListingInv'
  <2> DEFINE rec == [at |-> "look", by |-> by, page |-> 1, items |-> {}, total |-> Unknown]
  <2>1. listing' = rec /\ during' = {[listed |-> there, suspended |-> suspended]}
        /\ UNCHANGED <<there, suspended, listMoves>>
    BY <1>3 DEF BeginListing
  <2>2. rec \in Reading /\ rec.at = "look" /\ rec.total = Unknown /\ rec.items = {}
    BY <1>n, <1>u DEF Reading
  <2> HIDE DEF rec
  <2>3. ListingTypeOK'
    BY <1>t, <2>1, <2>2 DEF ListingTypeOK, Reading
  <2>4. ([listed |-> there, suspended |-> suspended] \in during)'
    BY <2>1
  <2> QED
    BY <2>1, <2>2, <2>3, <2>4 DEF ListingInv
<1>4. CASE LookAtInstallation
  <2> DEFINE step == IF suspended THEN "failed" ELSE IF listing.by = "user" THEN "page" ELSE "token"
             rec == [listing EXCEPT !.at = step]
  <2>1. listing.at = "look" /\ listing' = rec /\ UNCHANGED <<there, suspended, listMoves, during>>
    BY <1>4 DEF LookAtInstallation
  <2>2. step \in {"failed", "page", "token"} /\ (step # "failed" => ~suspended)
    BY <1>t
  <2> HIDE DEF step
  <2>3. rec \in Reading /\ rec.at = step /\ rec.items = {} /\ rec.total = Unknown
    BY <1>t, <2>1, <2>2 DEF Reading, ListingInv
  <2> HIDE DEF rec
  <2>4. step # "failed" => \E d \in during : ~d.suspended
    BY <2>1, <2>2 DEF ListingInv
  <2> QED
    BY <1>r, <2>1, <2>2, <2>3, <2>4
<1>5. CASE TakeToken
  <2> DEFINE rec == [listing EXCEPT !.at = "page"]
  <2>1. listing.at = "token" /\ listing' = rec /\ UNCHANGED <<there, suspended, listMoves, during>>
    BY <1>5 DEF TakeToken
  <2>2. rec \in Reading /\ rec.at = "page" /\ rec.items = {} /\ rec.total = Unknown
    BY <1>t, <2>1 DEF Reading, ListingInv
  <2> HIDE DEF rec
  <2>4. \E d \in during : ~d.suspended
    BY <2>1 DEF ListingInv
  <2> QED
    BY <1>r, <2>1, <2>2, <2>4
<1>6. CASE ReadListingPage
  <2> DEFINE n == listing.page
             items == listing.items \cup PageItems(n)
             total == Cardinality(there)
             read == [listing EXCEPT !.items = items, !.total = total]
             fail == [listing EXCEPT !.at = "failed"]
  <2>1. listing.at = "page" /\ UNCHANGED <<there, suspended, listMoves, during>>
    BY <1>6 DEF ReadListingPage
  <2>2. \/ listing' = fail
        \/ Consistent(n) /\ Complete(items, total) /\ listing' = [read EXCEPT !.at = "accepted"]
        \/ Consistent(n) /\ n < MaxListPages /\ listing' = [read EXCEPT !.page = n + 1]
    BY <1>6 DEF ReadListingPage
  <2>3. PageItems(n) \subseteq there /\ there \in Had
    BY <2>1 DEF PageItems, ListingInv, Had
  <2>4. items \subseteq Listable /\ total \in 0 .. Unknown /\ total # Unknown /\ n \in 1 .. MaxListPages
    BY <1>t, <1>c, <1>u, <2>3 DEF Reading
  <2>d. \E d \in during : ~d.suspended
    BY <2>1 DEF ListingInv
  <2>5. CASE listing' = fail
    <3>1. fail \in Reading /\ fail.at = "failed"
      BY <1>t DEF Reading
    <3> HIDE DEF fail
    <3> QED
      BY <1>r, <2>1, <2>5, <3>1
  <2>6. ASSUME Consistent(n)
        PROVE  /\ items \subseteq UNION Had
               /\ \/ \E a, b \in Had : Incomparable(a, b)
                  \/ \E T \in Had : items \subseteq T /\ Cardinality(T) = total
    <3>1. CASE listing.total = Unknown
      <4>1. listing.items = {}
        BY <2>1, <3>1 DEF ListingInv
      <4> QED
        BY <2>3, <4>1
    <3>2. CASE listing.total # Unknown
      <4>1. listing.total = total
        BY <2>6, <3>2 DEF Consistent
      <4>2. listing.items \subseteq UNION Had
            /\ \/ \E a, b \in Had : Incomparable(a, b)
               \/ \E T \in Had : listing.items \subseteq T /\ Cardinality(T) = total
        BY <2>1, <3>2, <4>1 DEF ListingInv
      <4>3. ASSUME NEW T \in Had, listing.items \subseteq T, Cardinality(T) = total,
                   ~\E a, b \in Had : Incomparable(a, b)
            PROVE  items \subseteq T
        <5>1. T \in SUBSET Listable /\ there \in SUBSET Listable /\ ~Incomparable(T, there)
          BY <1>h, <2>3, <4>3
        <5>2. T = there
          BY <1>e, <4>3, <5>1
        <5> QED
          BY <2>3, <4>3, <5>2
      <4>4. items \subseteq UNION Had
        BY <2>3, <4>2
      <4> HIDE DEF items, total
      <4> QED
        BY <4>2, <4>3, <4>4
    <3> QED
      BY <3>1, <3>2
  <2>7. CASE Consistent(n) /\ Complete(items, total) /\ listing' = [read EXCEPT !.at = "accepted"]
    <3> DEFINE rec == [read EXCEPT !.at = "accepted"]
    <3> HIDE DEF items, total, n
    <3>1. rec \in Reading /\ rec.at = "accepted" /\ rec.items = items /\ rec.total = total
      BY <1>t, <2>4 DEF Reading
    <3> HIDE DEF rec
    <3>2. Cardinality(rec.items) = rec.total /\ rec.total # Unknown
      BY <2>4, <2>7, <3>1 DEF Complete
    <3>3. rec.items \subseteq UNION Had
             /\ \/ \E a, b \in Had : Incomparable(a, b)
                \/ \E T \in Had : rec.items \subseteq T /\ Cardinality(T) = rec.total
      BY <2>6, <2>7, <3>1
    <3>4. listing' = rec
      BY <2>7 DEF rec
    <3> QED
      BY <1>r, <2>1, <2>d, <3>1, <3>2, <3>3, <3>4
  <2>8. CASE Consistent(n) /\ n < MaxListPages /\ listing' = [read EXCEPT !.page = n + 1]
    <3> DEFINE rec == [read EXCEPT !.page = n + 1]
    <3>n. n + 1 \in 1 .. MaxListPages
      BY <1>n, <2>4, <2>8
    <3> HIDE DEF items, total, n
    <3>1. rec \in Reading /\ rec.at = "page" /\ rec.items = items /\ rec.total = total
      BY <1>t, <2>1, <2>4, <3>n DEF Reading
    <3> HIDE DEF rec
    <3>3. rec.items \subseteq UNION Had
             /\ \/ \E a, b \in Had : Incomparable(a, b)
                \/ \E T \in Had : rec.items \subseteq T /\ Cardinality(T) = rec.total
      BY <2>6, <2>8, <3>1
    <3>4. listing' = rec
      BY <2>8 DEF rec
    <3>5. rec.total # Unknown
      BY <2>4, <3>1
    <3> QED
      BY <1>r, <2>1, <2>d, <3>1, <3>3, <3>4, <3>5
  <2> QED
    BY <2>2, <2>5, <2>7, <2>8
<1>7. CASE UNCHANGED listingVars
  <2>1. Had' = Had
    BY <1>7 DEF listingVars, Had
  <2>2. ListingTypeOK'
    BY <1>7, <1>t DEF listingVars, ListingTypeOK, Reading
  <2> QED
    BY <1>7, <2>1, <2>2 DEF listingVars, ListingInv
<1> QED
  BY <1>1, <1>2, <1>3, <1>4, <1>5, <1>6, <1>7 DEF ListingNext

\* The invariant has the types and the promises of the lists.
LEMMA ListingInvSafe == ListingInv => ListingTypeOK /\ ListingsSafe
<1> SUFFICES ASSUME ListingInv, listing.at = "accepted"
             PROVE  /\ listing.items \subseteq UNION Had
                    /\ Cardinality(listing.items) = listing.total
                    /\ \/ listing.items \in Had
                       \/ \E a, b \in Had : Incomparable(a, b)
                    /\ \E d \in during : ~d.suspended
  BY DEF ListingInv, ListingsSafe, Had, Incomparable
<1>1. ASSUME NEW T \in Had, listing.items \subseteq T, Cardinality(T) = listing.total
      PROVE  listing.items \in Had
  <2>1. IsFiniteSet(Listable) /\ T \subseteq Listable
    BY ListingAssumption DEF ListingInv, ListingTypeOK, Had
  <2>2. IsFiniteSet(T)
    BY <2>1, FS_Subset
  <2>3. Cardinality(listing.items) = Cardinality(T)
    BY <1>1 DEF ListingInv
  <2>4. listing.items = T
    BY <1>1, <2>2, <2>3, FS_Subset
  <2> QED
    BY <2>4
<1> QED
  BY <1>1 DEF ListingInv

\* Reading keeps the invariant (github-app.ts).
LEMMA ListingInvariance == ListingSpec => []ListingInv
<1> QED
  BY ListingStart, ListingStep, PTL DEF ListingSpec

\* A list that is accepted is complete and was GitHub's (github-app.ts listPages).
THEOREM ListingsAreSafe == ListingSpec => [](ListingTypeOK /\ ListingsSafe)
<1>1. ListingInv => ListingTypeOK /\ ListingsSafe
  BY ListingInvSafe
<1> QED
  BY <1>1, ListingInvariance, PTL

-----------------------------------------------------------------------------
(* Migrations and the start of processes (Startup). *)

\* What a process that runs may rely on.
Sound(rec) ==
  /\ rec \in Started
  /\ rec.at = "migrate" => rec.saw = SchemaVersions /\ rec.done \subseteq (1 .. rec.release) \ rec.saw
  /\ rec.at \in {"listen", "configure", "work", "serve", "stop"} =>
       1 .. rec.release \subseteq SchemaVersions /\ \A v \in rec.saw : v <= rec.release + 1
  /\ rec.at \notin {"connect", "stop"} => rec.pool
  /\ rec.workers => rec.pool /\ (rec.env.github = "all" => rec.env.signIn = "all" /\ rec.env.key)
  /\ rec.at \in {"connect", "lock"} => ~rec.workers /\ rec.done = {}

\* The inductive invariant.
StartupInv ==
  /\ StartupTypeOK
  /\ \A m \in Migration : applied[m] <= 1
  /\ \A m \in SchemaVersions : 1 .. m \subseteq SchemaVersions
  /\ \A p \in Process : process[p] = Off \/ Sound(process[p])
  /\ \A p \in Process : process[p].at = "migrate" => migrating = p

\* The migrations are numbered up to those of the newest release.
LEMMA MigrationsOfRelease ==
  \E top \in Nat : Migration = 1 .. top /\ \A r \in Releases : r \in Nat /\ r <= top
<1> DEFINE top == CHOOSE n \in Releases : \A m \in Releases : m <= n
<1>1. top \in Releases /\ \A m \in Releases : m <= top
  BY StartupAssumption
<1>2. top \in Nat /\ \A r \in Releases : r \in Nat /\ r <= top
  BY <1>1, StartupAssumption
<1>3. Migration = 1 .. top
  BY DEF Migration
<1> HIDE DEF top
<1> QED
  BY <1>2, <1>3

\* No process has started at first.
LEMMA StartupStart == StartupInit => StartupInv
<1> SUFFICES ASSUME StartupInit PROVE StartupInv
  OBVIOUS
<1>1. applied \in [Migration -> 0 .. 2] /\ \A m \in Migration : applied[m] = 0
  BY DEF StartupInit
<1>2. SchemaVersions = {}
  BY <1>1 DEF SchemaVersions
<1>3. \A p \in Process : process[p] = Off
  BY DEF StartupInit
<1>4. StartupTypeOK
  BY <1>1, StartupAssumption DEF StartupInit, StartupTypeOK
<1>5. \A p \in Process : process[p].at # "migrate"
  BY <1>3 DEF Off
<1> QED
  BY <1>1, <1>2, <1>3, <1>4, <1>5 DEF StartupInv

\* Every step of a process and of its lock.
LEMMA StartupStep == StartupInv /\ [StartupNext]_startupVars => StartupInv'
<1> SUFFICES ASSUME StartupInv, [StartupNext]_startupVars PROVE StartupInv'
  OBVIOUS
<1>t. /\ applied \in [Migration -> 0 .. 2] /\ migrating \in Process \cup {NoProcess}
      /\ process \in [Process -> Started \cup {Off}] /\ port \in Process \cup {NoProcess}
      /\ starts \in 0 .. MaxStarts
  BY DEF StartupInv, StartupTypeOK
<1>n. NoProcess \notin Process /\ MaxStarts \in Nat /\ Releases \subseteq Nat
  BY StartupAssumption
<1>m. PICK top \in Nat : Migration = 1 .. top /\ \A r \in Releases : r \in Nat /\ r <= top
  BY MigrationsOfRelease
<1>o. Off.at = "off"
  BY DEF Off
<1>p. ASSUME NEW p \in Process, process[p].at # "off" PROVE Sound(process[p]) /\ process[p] \in Started
  BY <1>p, <1>o DEF StartupInv, Sound
\* One process changes, and the schema does not.
<1>g. ASSUME NEW p \in Process, NEW rec, process' = [process EXCEPT ![p] = rec], applied' = applied,
             rec = Off \/ Sound(rec), migrating' \in Process \cup {NoProcess},
             port' \in Process \cup {NoProcess}, starts' \in 0 .. MaxStarts,
             rec.at = "migrate" => migrating' = p,
             \A q \in Process \ {p} : process[q].at = "migrate" => migrating' = q
      PROVE  StartupInv'
  <2>1. process' \in [Process -> Started \cup {Off}] /\ process'[p] = rec
        /\ \A q \in Process \ {p} : process'[q] = process[q]
    BY <1>g, <1>t DEF Sound
  <2>2. StartupTypeOK'
    BY <1>g, <1>t, <2>1 DEF StartupTypeOK
  <2>3. SchemaVersions' = SchemaVersions
    BY <1>g DEF SchemaVersions
  <2>4. \A r : Sound(r)' <=> Sound(r)
    BY <2>3 DEF Sound
  <2>5. \A q \in Process : process'[q] = Off \/ Sound(process'[q])
    BY <1>g, <2>1 DEF StartupInv
  <2>6. (\A q \in Process : process[q] = Off \/ Sound(process[q]))'
    BY <2>3, <2>5 DEF Sound
  <2>7. (\A q \in Process : process[q].at = "migrate" => migrating = q)'
    BY <1>g, <2>1 DEF StartupInv
  <2>8. (\A m \in Migration : applied[m] <= 1)' /\ (\A m \in SchemaVersions : 1 .. m \subseteq SchemaVersions)'
    BY <1>g, <2>3 DEF StartupInv
  <2> QED
    BY <2>2, <2>6, <2>7, <2>8 DEF StartupInv
\* The same with the lock left alone.
<1>h. ASSUME NEW p \in Process, NEW rec, process' = [process EXCEPT ![p] = rec], applied' = applied,
             Sound(rec), migrating' = migrating, port' \in Process \cup {NoProcess},
             starts' \in 0 .. MaxStarts, rec.at = "migrate" => process[p].at = "migrate"
      PROVE  StartupInv'
  <2>1. rec.at = "migrate" => migrating' = p
    BY <1>h DEF StartupInv
  <2>2. \A q \in Process \ {p} : process[q].at = "migrate" => migrating' = q
    BY <1>h DEF StartupInv
  <2> QED
    BY <1>g, <1>h, <1>t, <2>1, <2>2
<1>e. ASSUME NEW p \in Process, Ended(p) PROVE StartupInv'
  <2>1. process' = [process EXCEPT ![p] = Off] /\ applied' = applied /\ starts' \in 0 .. MaxStarts
        /\ migrating' = (IF migrating = p THEN NoProcess ELSE migrating)
        /\ port' \in Process \cup {NoProcess}
    BY <1>e, <1>t DEF Ended
  <2>2. Off.at # "migrate"
    BY <1>o
  <2>3. \A q \in Process \ {p} : process[q].at = "migrate" => migrating' = q
    BY <2>1, <1>n DEF StartupInv
  <2>4. migrating' \in Process \cup {NoProcess}
    BY <2>1, <1>t
  <2> QED
    BY <1>g, <2>1, <2>2, <2>3, <2>4
<1>1. ASSUME NEW p \in Process, NEW kind \in Kinds, NEW release \in Releases, NEW env \in Environments,
             Launch(p, kind, release, env)
      PROVE  StartupInv'
  <2> DEFINE rec == [at |-> "connect", kind |-> kind, release |-> release, env |-> env, saw |-> {},
                     done |-> {}, workers |-> FALSE, pool |-> FALSE]
  <2>1. process' = [process EXCEPT ![p] = rec] /\ UNCHANGED <<applied, migrating, port>>
        /\ starts' \in 0 .. MaxStarts
    BY <1>1, <1>t, <1>n DEF Launch
  <2>2. Sound(rec) /\ rec.at = "connect"
    BY DEF Sound, Started
  <2> HIDE DEF rec
  <2> QED
    BY <1>h, <1>t, <2>1, <2>2
<1>2. ASSUME NEW p \in Process, OpenPool(p) PROVE StartupInv'
  <2> DEFINE rec == [process[p] EXCEPT !.at = "lock", !.pool = TRUE]
  <2>1. process[p].at = "connect" /\ UNCHANGED <<applied, migrating, port, starts>>
        /\ process' = [process EXCEPT ![p] = rec]
    BY <1>2, <1>t DEF OpenPool, At
  <2>2. Sound(process[p]) /\ process[p] \in Started
    BY <1>p, <2>1
  <2>3. Sound(rec) /\ rec.at = "lock"
    BY <2>1, <2>2 DEF Sound, Started
  <2> HIDE DEF rec
  <2> QED
    BY <1>h, <1>t, <2>1, <2>3
<1>3. ASSUME NEW p \in Process, LockSchema(p) PROVE StartupInv'
  <2> DEFINE rec == [process[p] EXCEPT !.at = "migrate", !.saw = SchemaVersions]
  <2>1. process[p].at = "lock" /\ migrating = NoProcess /\ migrating' = p
        /\ UNCHANGED <<applied, port, starts>> /\ process' = [process EXCEPT ![p] = rec]
    BY <1>3, <1>t DEF LockSchema, At
  <2>2. Sound(process[p]) /\ process[p] \in Started
    BY <1>p, <2>1
  <2>3. SchemaVersions \subseteq Migration
    BY DEF SchemaVersions
  <2>4. rec \in Started /\ rec.at = "migrate" /\ rec.saw = SchemaVersions /\ rec.done = process[p].done
    BY <2>2, <2>3 DEF Started
  <2>5. \A q \in Process \ {p} : process[q].at # "migrate"
    BY <1>n, <2>1 DEF StartupInv
  <2>6. rec.workers = process[p].workers /\ rec.pool = process[p].pool /\ rec.env = process[p].env
        /\ process[p].done = {} /\ process[p].pool
    BY <2>1, <2>2 DEF Sound, Started
  <2> HIDE DEF rec
  <2>7. Sound(rec)
    BY <2>2, <2>4, <2>6 DEF Sound
  <2>8. migrating' \in Process \cup {NoProcess} /\ port' \in Process \cup {NoProcess} /\ starts' \in 0 .. MaxStarts
    BY <1>t, <2>1
  <2> QED
    BY <1>g, <2>1, <2>5, <2>7, <2>8
\* A process goes on and leaves the lock alone.
<1>s. ASSUME NEW p \in Process, NEW step \in {"configure", "work", "serve", "stop"},
             process[p].at \in {"listen", "configure", "work", "serve"},
             step = "stop" \/ process[p].pool,
             process' = [process EXCEPT ![p] = [process[p] EXCEPT !.at = step]],
             UNCHANGED <<applied, migrating, starts>>, port' \in Process \cup {NoProcess}
      PROVE  StartupInv'
  <2> DEFINE rec == [process[p] EXCEPT !.at = step]
  <2>1. Sound(process[p]) /\ process[p] \in Started
    BY <1>p, <1>s
  <2>2. Sound(rec) /\ rec.at = step
    BY <1>s, <2>1 DEF Sound, Started
  <2>3. process' = [process EXCEPT ![p] = rec] /\ rec.at # "migrate"
    BY <1>s, <2>2
  <2> HIDE DEF rec
  <2> QED
    BY <1>h, <1>s, <1>t, <2>2, <2>3
<1>4. ASSUME NEW p \in Process, RefuseSchema(p) \/ RefuseConfiguration(p) \/ Exit(p) \/ Crash(p) PROVE StartupInv'
  BY <1>4, <1>e DEF RefuseSchema, RefuseConfiguration, Exit, Crash
<1>5. ASSUME NEW p \in Process, Migrate(p) PROVE StartupInv'
  <2>1. process[p].at = "migrate" /\ UNCHANGED <<applied, migrating, port, starts>>
    BY <1>5 DEF Migrate, At
  <2>2. PICK m \in Missing(p) : process' = [process EXCEPT ![p].done = process[p].done \cup {m}]
    BY <1>5 DEF Migrate
  <2> DEFINE rec == [process[p] EXCEPT !.done = process[p].done \cup {m}]
  <2>3. process' = [process EXCEPT ![p] = rec]
    BY <1>t, <2>2
  <2>4. Sound(process[p]) /\ process[p] \in Started
    BY <1>p, <2>1
  <2>5. m \in 1 .. process[p].release /\ m \notin process[p].saw
    BY <2>2 DEF Missing
  <2>6. m \in Migration
    <3>1. process[p].release \in Nat /\ process[p].release <= top
      BY <1>m, <2>4 DEF Started
    <3> QED
      BY <1>m, <2>5, <3>1
  <2>7. Sound(rec) /\ rec.at = "migrate"
    BY <2>1, <2>4, <2>5, <2>6 DEF Sound, Started
  <2> HIDE DEF rec
  <2> QED
    BY <1>h, <1>t, <2>1, <2>3, <2>7
<1>6. ASSUME NEW p \in Process, CommitSchema(p) PROVE StartupInv'
  <2>r. process[p] \in Started /\ [process[p] EXCEPT !.at = "listen"] \in Started
    <3>1. process[p] \in Started
      BY <1>6, <1>p DEF CommitSchema, At
    <3> QED
      BY <3>1 DEF Started
  <2>q. PICK rec \in Started : rec = [process[p] EXCEPT !.at = "listen"]
    BY <2>r
  <2>1. /\ process[p].at = "migrate" /\ Supported(process[p].release, process[p].saw) /\ Missing(p) = {}
        /\ applied' = [m \in Migration |-> IF m \in process[p].done THEN applied[m] + 1 ELSE applied[m]]
        /\ migrating' = NoProcess /\ process' = [process EXCEPT ![p] = rec] /\ UNCHANGED <<port, starts>>
    BY <1>6, <1>t, <2>q DEF CommitSchema, At
  <2>2. Sound(process[p]) /\ process[p] \in Started
    BY <1>p, <2>1
  <2>3. /\ process[p].saw = SchemaVersions /\ process[p].done \subseteq (1 .. process[p].release) \ process[p].saw
        /\ process[p].pool /\ process[p].release \in Nat /\ process[p].done \subseteq Migration
    BY <2>1, <2>2, <1>n DEF Sound, Started
  <2>4. 1 .. process[p].release \subseteq SchemaVersions \cup process[p].done
    BY <2>1, <2>3 DEF Missing
  <2>5. \A m \in Migration : applied[m] \in 0 .. 1 /\ (m \in process[p].done => applied[m] = 0)
    <3> TAKE m \in Migration
    <3>1. applied[m] \in 0 .. 2 /\ applied[m] <= 1
      BY <1>t DEF StartupInv
    <3>2. m \in process[p].done => ~(applied[m] > 0)
      BY <2>3 DEF SchemaVersions
    <3> QED
      BY <3>1, <3>2
  <2>6. \A m \in Migration : applied'[m] \in 0 .. 1
          /\ (applied'[m] > 0 <=> applied[m] > 0 \/ m \in process[p].done)
    BY <2>1, <2>5
  <2>7. SchemaVersions' = SchemaVersions \cup process[p].done
    BY <2>3, <2>6 DEF SchemaVersions
  <2>8. applied' \in [Migration -> 0 .. 2]
    <3>1. \A m \in Migration : applied'[m] \in 0 .. 2
      BY <2>6
    <3> QED
      BY <2>1, <3>1
  <2>9. \A m \in SchemaVersions' : 1 .. m \subseteq SchemaVersions'
    <3> TAKE m \in SchemaVersions'
    <3>1. CASE m \in SchemaVersions
      BY <2>7, <3>1 DEF StartupInv
    <3>2. CASE m \in process[p].done
      <4>1. m \in 1 .. process[p].release
        BY <2>3, <3>2
      <4>2. 1 .. m \subseteq 1 .. process[p].release
        BY <2>3, <4>1
      <4> QED
        BY <2>4, <2>7, <4>2
    <3> QED
      BY <2>7, <3>1, <3>2
  <2>10. rec \in Started /\ rec.at = "listen" /\ rec.pool /\ rec.release = process[p].release
         /\ rec.saw = process[p].saw /\ rec.workers = process[p].workers /\ rec.env = process[p].env
    BY <2>q, <2>2, <2>3 DEF Started
  <2>11. \A v \in rec.saw : v <= rec.release + 1
    BY <2>1, <2>10 DEF Supported
  <2>12. Sound(rec)'
    BY <2>2, <2>4, <2>7, <2>10, <2>11 DEF Sound
  <2>13. process' \in [Process -> Started \cup {Off}] /\ process'[p] = rec
         /\ \A q \in Process \ {p} : process'[q] = process[q]
    BY <1>t, <2>1, <2>10
  <2>14. StartupTypeOK'
    BY <1>t, <2>1, <2>8, <2>13 DEF StartupTypeOK
  <2>15. \A q \in Process \ {p} : process[q].at # "migrate"
    BY <2>1 DEF StartupInv
  <2>16. (\A q \in Process : process[q] = Off \/ Sound(process[q]))'
    <3>1. ASSUME NEW q \in Process, q # p PROVE (process[q] = Off \/ Sound(process[q]))'
      <4>1. process[q] = Off \/ Sound(process[q])
        BY DEF StartupInv
      <4>2. process'[q] = process[q] /\ process[q].at # "migrate"
        BY <2>13, <2>15, <3>1
      <4> QED
        BY <2>7, <4>1, <4>2 DEF Sound
    <3>2. (Sound(process[p]))'
      BY <2>12, <2>13 DEF Sound
    <3> QED
      BY <3>1, <3>2
  <2>17. (\A q \in Process : process[q].at = "migrate" => migrating = q)'
    BY <2>10, <2>13, <2>15
  <2>18. (\A m \in Migration : applied[m] <= 1)'
    BY <2>6
  <2> QED
    BY <2>9, <2>14, <2>16, <2>17, <2>18 DEF StartupInv
<1>7. ASSUME NEW p \in Process, OpenStore(p) PROVE StartupInv'
  <2>1. process[p].at = "listen"
    BY <1>7 DEF OpenStore, At
  <2>2. process[p].pool /\ process[p] \in Started
    BY <1>p, <2>1 DEF Sound
  <2>3. CASE Ended(p)
    BY <1>e, <2>3
  <2>4. CASE process' = [process EXCEPT ![p].at = "configure"] /\ UNCHANGED <<applied, migrating, port, starts>>
    <3>1. process' = [process EXCEPT ![p] = [process[p] EXCEPT !.at = "configure"]]
      BY <1>t, <2>4
    <3> QED
      BY <1>s, <1>t, <2>1, <2>2, <2>4, <3>1
  <2> QED
    BY <1>7, <2>3, <2>4 DEF OpenStore
<1>8. ASSUME NEW p \in Process, StartWorkers(p) PROVE StartupInv'
  <2> DEFINE rec == [process[p] EXCEPT !.at = "work", !.workers = TRUE]
  <2>1. process[p].at = "configure" /\ GitHubConfigured(process[p].env)
        /\ UNCHANGED <<applied, migrating, port, starts>> /\ process' = [process EXCEPT ![p] = rec]
    BY <1>8, <1>t DEF StartWorkers, At
  <2>2. Sound(process[p]) /\ process[p] \in Started
    BY <1>p, <2>1
  <2>3. rec \in Started /\ rec.at = "work" /\ rec.saw = process[p].saw /\ rec.release = process[p].release
        /\ rec.pool = process[p].pool /\ rec.env = process[p].env
    BY <2>2 DEF Started
  <2>4. rec.env.github = "all" => rec.env.signIn = "all" /\ rec.env.key
    <3>1. (process[p].env.github = "none" \/ (process[p].env.github = "all" /\ process[p].env.signIn = "all" /\ process[p].env.key))
      BY <2>1 DEF GitHubConfigured
    <3> QED
      BY <2>3, <3>1
  <2> HIDE DEF rec
  <2>5. Sound(rec)
    BY <2>1, <2>2, <2>3, <2>4 DEF Sound
  <2> QED
    BY <1>h, <1>t, <2>1, <2>3, <2>5
<1>9. ASSUME NEW p \in Process, Listen(p) PROVE StartupInv'
  <2>1. process[p].at = "work" /\ UNCHANGED <<applied, migrating, starts>> /\ port' \in Process \cup {NoProcess}
    BY <1>9, <1>t DEF Listen, At
  <2>2. process[p].pool
    BY <1>p, <2>1 DEF Sound
  <2>3. \/ process' = [process EXCEPT ![p] = [process[p] EXCEPT !.at = "serve"]]
        \/ process' = [process EXCEPT ![p] = [process[p] EXCEPT !.at = "stop"]]
    BY <1>9, <1>t DEF Listen
  <2> QED
    BY <1>s, <2>1, <2>2, <2>3
<1>10. ASSUME NEW p \in Process, Stop(p) PROVE StartupInv'
  <2>1. process[p].at = "serve" /\ UNCHANGED <<applied, migrating, starts>> /\ port' \in Process \cup {NoProcess}
        /\ process' = [process EXCEPT ![p] = [process[p] EXCEPT !.at = "stop"]]
    BY <1>10, <1>t DEF Stop, At
  <2> QED
    BY <1>s, <2>1
<1>11. ASSUME NEW p \in Process, StopWorkers(p) \/ CloseStore(p) PROVE StartupInv'
  <2>1. process[p].at = "stop" /\ UNCHANGED <<applied, migrating, port, starts>>
    BY <1>11 DEF StopWorkers, CloseStore, At
  <2>2. Sound(process[p]) /\ process[p] \in Started
    BY <1>p, <2>1
  <2>3. CASE StopWorkers(p)
    <3> DEFINE rec == [process[p] EXCEPT !.workers = FALSE]
    <3>1. process' = [process EXCEPT ![p] = rec]
      BY <1>t, <2>3 DEF StopWorkers
    <3>2. Sound(rec) /\ rec.at = "stop"
      BY <2>1, <2>2 DEF Sound, Started
    <3> HIDE DEF rec
    <3> QED
      BY <1>h, <1>t, <2>1, <3>1, <3>2
  <2>4. CASE CloseStore(p)
    <3> DEFINE rec == [process[p] EXCEPT !.pool = FALSE]
    <3>1. process' = [process EXCEPT ![p] = rec] /\ ~process[p].workers
      BY <1>t, <2>4 DEF CloseStore
    <3>2. Sound(rec) /\ rec.at = "stop"
      BY <2>1, <2>2, <3>1 DEF Sound, Started
    <3> HIDE DEF rec
    <3> QED
      BY <1>h, <1>t, <2>1, <3>1, <3>2
  <2> QED
    BY <1>11, <2>3, <2>4
<1>12. CASE UNCHANGED startupVars
  <2>1. UNCHANGED <<applied, migrating, process, port, starts>>
    BY <1>12 DEF startupVars
  <2>2. StartupTypeOK' /\ SchemaVersions' = SchemaVersions
    BY <1>t, <2>1 DEF StartupTypeOK, SchemaVersions
  <2>3. (\A p \in Process : process[p] = Off \/ Sound(process[p]))'
    BY <2>1, <2>2 DEF StartupInv, Sound
  <2> QED
    BY <2>1, <2>2, <2>3 DEF StartupInv
<1> QED
  BY <1>1, <1>2, <1>3, <1>4, <1>5, <1>6, <1>7, <1>8, <1>9, <1>10, <1>11, <1>12 DEF StartupNext

\* The invariant has the types, and who serves finds the schema it needs.
LEMMA StartupInvSafe == StartupInv => StartupTypeOK /\ StartupSafe
<1> SUFFICES ASSUME StartupInv PROVE StartupTypeOK /\ StartupSafe
  OBVIOUS
<1>1. \A p \in Process : process[p].at # "off" => Sound(process[p])
  BY DEF StartupInv, Off
<1>2. \A p \in Process : process[p].at \in {"listen", "configure", "work", "serve", "stop"} =>
       /\ 1 .. process[p].release \subseteq SchemaVersions
       /\ \A v \in process[p].saw : v <= process[p].release + 1
  BY <1>1 DEF Sound
<1>3. \A p \in Process : ~At(p, "off") /\ process[p].workers =>
       /\ process[p].pool
       /\ process[p].env.github = "all" => process[p].env.signIn = "all" /\ process[p].env.key
  BY <1>1 DEF Sound, At
<1> QED
  BY <1>2, <1>3 DEF StartupInv, StartupSafe

\* Starting keeps the invariant (postgres-store.ts migrate, index.ts).
LEMMA StartupInvariance == StartupSpec => []StartupInv
<1> QED
  BY StartupStart, StartupStep, PTL DEF StartupSpec

\* Every migration runs once, in order, and who serves has the schema of its release
\* (postgres-store.ts migrate).
THEOREM StartsAreSafe == StartupSpec => [](StartupTypeOK /\ StartupSafe)
<1>1. StartupInv => StartupTypeOK /\ StartupSafe
  BY StartupInvSafe
<1> QED
  BY <1>1, StartupInvariance, PTL

-----------------------------------------------------------------------------
(* The import of old files (Startup). *)

\* The rows that transactions lock.
RowOf(d) == <<"delivery", d>>
OrganizationRow(o) == <<"organization", o>>

\* The organizations of a file.
EventsOf(file) == file.open \cup file.restricted

\* A transaction under way: what it holds and what it has read.
CopyOK(c) ==
  copier[c] # Resting =>
    /\ copier[c].new \cap seen = {}
    /\ copier[c].at = "deliveries" =>
         /\ copier[c].left \subseteq {"delivery"} \X OldDelivery
         /\ \A d \in copier[c].new : \A q \in copier[c].left : d < q[2]
         /\ \A o \in Organization : row[OrganizationRow(o)] # c
         /\ copier[c].kind = "merge" =>
              copier[c].left = {} \/ (copier[c].new = {} /\ \E r \in CopyRows : copier[c].left = {r})
    /\ copier[c].at = "organizations" =>
         /\ copier[c].left \subseteq {"organization"} \X Organization
         /\ \A o \in TouchedBy(copier[c].file) :
              OrganizationRow(o) \in copier[c].left \/ row[OrganizationRow(o)] = c
         /\ \A o \in Organization : row[OrganizationRow(o)] = c =>
              \A q \in copier[c].left : o < q[2]
    /\ copier[c].at \in {"read", "write"} =>
         /\ copier[c].left = {}
         /\ \A o \in TouchedBy(copier[c].file) : row[OrganizationRow(o)] = c
    /\ copier[c].at = "write" =>
         /\ \A o \in EventsOf(copier[c].file) : copier[c].found[o] = onRecord[o]
         /\ \A o \in Organization \ EventsOf(copier[c].file) : copier[c].found[o] = NoEvent

\* Who holds a row has taken it and is under way.
HeldOK ==
  \A c \in Copier :
    /\ \A r \in CopyRows : row[r] = c => copier[c] # Resting
    /\ \A d \in OldDelivery : copier[c] # Resting => (row[RowOf(d)] = c <=> d \in copier[c].new)

\* What is on record was reported once.
RecordOK ==
  /\ \A o \in Organization : claimed.events[o] = IF onRecord[o] = NoEvent THEN 0 ELSE 1
  /\ \A d \in OldDelivery : claimed.deliveries[d] = IF d \in seen THEN 1 ELSE 0
  /\ \A o \in toldOf : onRecord[o].from = "webhook"
  /\ \A o \in Organization : onRecord[o].restricted => o \in guarded

\* The inductive invariant.
LegacyInv ==
  /\ LegacyTypeOK
  /\ \A c \in Copier : CopyOK(c)
  /\ HeldOK
  /\ RecordOK

\* The rows of a file are those of its organizations and deliveries.
LEMMA RowsAre ==
  /\ \A d \in OldDelivery : RowOf(d) \in CopyRows
  /\ \A o \in Organization : OrganizationRow(o) \in CopyRows
  /\ \A r \in {"delivery"} \X OldDelivery : r = RowOf(r[2]) /\ r[2] \in OldDelivery
  /\ \A r \in {"organization"} \X Organization : r = OrganizationRow(r[2]) /\ r[2] \in Organization
  /\ \A x, y : RowOf(x) # OrganizationRow(y) /\ (RowOf(x) = RowOf(y) => x = y)
               /\ (OrganizationRow(x) = OrganizationRow(y) => x = y)
  /\ {"delivery"} \X OldDelivery \subseteq CopyRows /\ {"organization"} \X Organization \subseteq CopyRows
BY DEF RowOf, OrganizationRow, CopyRows

\* Their ids are numbers.
LEMMA IdsAreNat == OldDelivery \subseteq Nat /\ Organization \subseteq Nat
  BY LegacyAssumption

\* Nothing has been copied at first.
LEMMA LegacyStart == LegacyInit => LegacyInv
<1> SUFFICES ASSUME LegacyInit PROVE LegacyInv
  OBVIOUS
<1>1. \A c \in Copier : copier[c] = Resting
  BY DEF LegacyInit
<1>2. \A r \in CopyRows : row[r] = NoCopier
  BY DEF LegacyInit
<1>3. MaxCopies \in Nat /\ NoCopier \notin Copier
  BY LegacyAssumption
<1>4. claimed \in [events : [Organization -> Nat], deliveries : [OldDelivery -> Nat]]
  BY DEF LegacyInit
<1>5. LegacyTypeOK
  BY <1>3, <1>4 DEF LegacyInit, LegacyTypeOK
<1>6. HeldOK
  BY <1>1, <1>2, <1>3 DEF HeldOK
<1>7. RecordOK
  BY DEF LegacyInit, RecordOK, NoEvent
<1>8. \A c \in Copier : CopyOK(c)
  BY <1>1 DEF CopyOK
<1> QED
  BY <1>5, <1>6, <1>7, <1>8 DEF LegacyInv

\* Every step of a copy, of its transaction and of the server.
LEMMA LegacyStep == LegacyInv /\ [LegacyNext]_legacyVars => LegacyInv'
<1> SUFFICES ASSUME LegacyInv, [LegacyNext]_legacyVars PROVE LegacyInv'
  OBVIOUS
<1>t. /\ onRecord \in [Organization -> Event \cup {NoEvent}]
      /\ seen \subseteq OldDelivery /\ guarded \subseteq Organization
      /\ copier \in [Copier -> Copying \cup {Resting}]
      /\ row \in [CopyRows -> Copier \cup {NoCopier}] /\ copies \in 0 .. MaxCopies
      /\ claimed \in [events : [Organization -> Nat], deliveries : [OldDelivery -> Nat]]
      /\ toldOf \subseteq Organization
  BY DEF LegacyInv, LegacyTypeOK
<1>n. MaxCopies \in Nat /\ NoCopier \notin Copier /\ OldDelivery \subseteq Nat /\ Organization \subseteq Nat
  BY LegacyAssumption, IdsAreNat
<1>c. \A c \in Copier : copier[c] # Resting => copier[c] \in Copying /\ CopyOK(c)
  BY <1>t DEF LegacyInv
<1>f. \A file \in File : TouchedBy(file) \subseteq Organization /\ EventsOf(file) \subseteq TouchedBy(file)
  BY DEF File, TouchedBy, EventsOf
\* The others' transactions are as they were.
<1>o. ASSUME NEW b \in Copier, copier'[b] = copier[b],
             \A r \in CopyRows : row'[r] = b <=> row[r] = b,
             copier[b] # Resting => copier[b].new \cap seen' = {},
             copier[b] # Resting /\ copier[b].at = "write" =>
               \A o \in EventsOf(copier[b].file) : onRecord'[o] = onRecord[o]
      PROVE  CopyOK(b)'
  <2>1. CopyOK(b)
    BY DEF LegacyInv
  <2>2. \A o \in Organization : row'[OrganizationRow(o)] = b <=> row[OrganizationRow(o)] = b
    BY <1>o, RowsAre
  <2>3. CASE copier[b] = Resting
    BY <1>o, <2>3 DEF CopyOK
  <2>4. CASE copier[b] # Resting
    <3>1. TouchedBy(copier[b].file) \subseteq Organization
      BY <1>c, <1>f, <2>4 DEF Copying
    <3> QED
      BY <1>o, <2>1, <2>2, <2>4, <3>1 DEF CopyOK
  <2> QED
    BY <2>3, <2>4
\* A step of one transaction that writes nothing yet.
<1>g. ASSUME NEW c \in Copier, UNCHANGED <<onRecord, seen, guarded, claimed, toldOf>>,
             copies' \in 0 .. MaxCopies, NEW rec \in Copying \cup {Resting},
             copier' = [copier EXCEPT ![c] = rec], row' \in [CopyRows -> Copier \cup {NoCopier}],
             \A b \in Copier \ {c} : \A r \in CopyRows : row'[r] = b <=> row[r] = b,
             \A r \in CopyRows : row'[r] = c => rec # Resting,
             rec # Resting => \A d \in OldDelivery : row'[RowOf(d)] = c <=> d \in rec.new,
             CopyOK(c)'
      PROVE  LegacyInv'
  <2>1. copier' \in [Copier -> Copying \cup {Resting}] /\ copier'[c] = rec
        /\ \A b \in Copier \ {c} : copier'[b] = copier[b]
    BY <1>g, <1>t
  <2>2. LegacyTypeOK'
    BY <1>g, <1>t, <2>1 DEF LegacyTypeOK
  <2>3. \A b \in Copier : CopyOK(b)'
    <3> TAKE b \in Copier
    <3>1. CASE b = c
      BY <1>g, <3>1
    <3>2. CASE b # c
      <4>1. copier[b] # Resting => copier[b].new \cap seen' = {}
        BY <1>c, <1>g DEF CopyOK
      <4>2. copier'[b] = copier[b] /\ \A r \in CopyRows : row'[r] = b <=> row[r] = b
        BY <1>g, <2>1, <3>2
      <4>3. \A o \in EventsOf(copier[b].file) : onRecord'[o] = onRecord[o]
        BY <1>g
      <4> QED
        BY <1>o, <4>1, <4>2, <4>3
    <3> QED
      BY <3>1, <3>2
  <2>4. HeldOK'
    <3>1. \A b \in Copier \ {c} :
            /\ \A r \in CopyRows : row'[r] = b => copier'[b] # Resting
            /\ \A d \in OldDelivery : copier'[b] # Resting => (row'[RowOf(d)] = b <=> d \in copier'[b].new)
      BY <1>g, <2>1, RowsAre DEF LegacyInv, HeldOK
    <3> QED
      BY <1>g, <2>1, <3>1 DEF HeldOK
  <2>5. RecordOK'
    BY <1>g DEF LegacyInv, RecordOK
  <2> QED
    BY <2>2, <2>3, <2>4, <2>5 DEF LegacyInv
<1>r. \A c \in Copier : copier[c] # Resting => copier[c].at # "free"
  BY <1>c DEF Copying
<1>a. Resting.at = "free" /\ Resting \notin Copying
  BY DEF Resting, Copying
<1>b. ASSUME NEW c \in Copier, NEW kind \in {"import", "merge"}, NEW file \in File,
             kind = "merge" => \E d \in OldDelivery : file.deliveries = {d},
             MayBegin(c), BeginCopy(c, kind, file)
      PROVE  LegacyInv'
  <2>1. PICK rec \in Copying :
          rec = [at |-> "deliveries", kind |-> kind, file |-> file, left |-> DeliveryRows(file),
                 new |-> {}, found |-> [o \in Organization |-> NoEvent]]
    <3>1. DeliveryRows(file) \subseteq {"delivery"} \X OldDelivery
      BY DEF DeliveryRows, File
    <3>2. DeliveryRows(file) \subseteq CopyRows
      BY <3>1, RowsAre
    <3>3. [o \in Organization |-> NoEvent] \in [Organization -> Event \cup {NoEvent}]
      OBVIOUS
    <3> QED
      BY <3>2, <3>3 DEF Copying
  <2>2. copier' = [copier EXCEPT ![c] = rec]
    BY <1>b, <2>1 DEF BeginCopy
  <2>3. copier[c] = Resting /\ UNCHANGED <<onRecord, seen, guarded, row, claimed, toldOf>> /\ copies' \in 0 .. MaxCopies
    BY <1>b, <1>t, <1>n DEF MayBegin, BeginCopy
  <2>4. \A r \in CopyRows : row[r] # c
    BY <2>3 DEF LegacyInv, HeldOK
  <2>5. copier'[c] = rec /\ \A r \in CopyRows : row'[r] # c
    BY <2>2, <2>3, <2>4, <1>t
  <2>6. rec.left \subseteq {"delivery"} \X OldDelivery /\ rec.new = {} /\ rec.at = "deliveries" /\ rec.kind = kind
    BY <2>1 DEF DeliveryRows, File
  <2>7. kind = "merge" => \E r \in CopyRows : rec.left = {r}
    <3> HAVE kind = "merge"
    <3>1. PICK d \in OldDelivery : file.deliveries = {d}
      BY <1>b
    <3>2. rec.left = {RowOf(d)}
      BY <2>1, <3>1 DEF DeliveryRows, RowOf
    <3> QED
      BY <3>2, RowsAre
  <2>8. CopyOK(c)'
    BY <2>5, <2>6, <2>7, RowsAre DEF CopyOK
  <2>9. \A d \in OldDelivery : row'[RowOf(d)] = c <=> d \in rec.new
    BY <2>5, <2>6, RowsAre
  <2>10. row' \in [CopyRows -> Copier \cup {NoCopier}] /\ \A b \in Copier \ {c} : \A r \in CopyRows : row'[r] = b <=> row[r] = b
    BY <1>t, <2>3
  <2>11. \A r \in CopyRows : row'[r] = c => rec # Resting
    BY <2>5
  <2> QED
    BY <1>g, <2>2, <2>3, <2>8, <2>9, <2>10, <2>11
<1>1. ASSUME NEW c \in Copier, BeginImport(c) PROVE LegacyInv'
  BY <1>1, <1>b DEF BeginImport, FilesRead
<1>2. ASSUME NEW c \in Copier, NEW o \in Organization, NEW d \in OldDelivery, NEW restricted \in BOOLEAN,
             BeginMerge(c, o, d, restricted)
      PROVE  LegacyInv'
  <2>1. PICK file : file = [open |-> IF restricted THEN {} ELSE {o},
                            restricted |-> IF restricted THEN {o} ELSE {},
                            deliveries |-> {d}, protect |-> {}]
    OBVIOUS
  <2>2. file \in File /\ file.deliveries = {d}
    BY <2>1 DEF File
  <2>3. MayBegin(c) /\ BeginCopy(c, "merge", file)
    BY <1>2, <2>1 DEF BeginMerge
  <2> QED
    BY <2>2, <2>3, <1>b
<1>k. ASSUME NEW c \in Copier, NEW r \in Turn(c)
      PROVE  r \in copier[c].left /\ \A q \in copier[c].left : r[2] <= q[2]
  BY DEF Turn
<1>3. ASSUME NEW c \in Copier, InsertDelivery(c) PROVE LegacyInv'
  <2>1. copier[c] # Resting /\ copier[c].at = "deliveries"
    BY <1>3, <1>a DEF InsertDelivery
  <2>2. copier[c] \in Copying /\ CopyOK(c)
    BY <1>c, <2>1
  <2>3. PICK old \in Copying : old = copier[c]
    BY <2>2
  <2>4. /\ old.new \cap seen = {} /\ old.left \subseteq {"delivery"} \X OldDelivery
        /\ \A d \in old.new : \A q \in old.left : d < q[2]
        /\ \A o \in Organization : row[OrganizationRow(o)] # c
        /\ old.kind = "merge" => old.left = {} \/ (old.new = {} /\ \E r \in CopyRows : old.left = {r})
    BY <2>1, <2>2, <2>3 DEF CopyOK
  <2>5. PICK r \in Turn(c) :
          /\ ~Waits(c, r)
          /\ IF r[2] \in seen
             THEN /\ copier' = (IF copier[c].kind = "merge"
                               THEN [copier EXCEPT ![c] = Resting]
                               ELSE [copier EXCEPT ![c].left = @ \ {r}])
                  /\ UNCHANGED row
             ELSE /\ copier' = [copier EXCEPT ![c].left = @ \ {r}, ![c].new = @ \cup {r[2]}]
                  /\ row' = [row EXCEPT ![r] = c]
    BY <1>3 DEF InsertDelivery
  <2>6. r \in old.left /\ (\A q \in old.left : r[2] <= q[2]) /\ r[2] \in OldDelivery /\ r = RowOf(r[2]) /\ r \in CopyRows
    BY <1>k, <2>3, <2>4, RowsAre
  <2>7. UNCHANGED <<onRecord, seen, guarded, claimed, toldOf>> /\ copies' \in 0 .. MaxCopies
    BY <1>3, <1>t DEF InsertDelivery
  <2>8. \A q \in old.left : q[2] \in OldDelivery /\ q[2] \in Nat /\ q = RowOf(q[2])
    BY <2>4, <1>n, RowsAre
  <2>9. old.left \subseteq CopyRows /\ old.new \subseteq OldDelivery
    BY DEF Copying
  <2>10. \A d \in OldDelivery : row[RowOf(d)] = c <=> d \in old.new
    BY <2>1, <2>3 DEF LegacyInv, HeldOK
  <2>11. CASE r[2] \in seen /\ old.kind = "merge"
    <3>1. copier' = [copier EXCEPT ![c] = Resting] /\ row' = row
      BY <2>3, <2>5, <2>11
    <3>2. old.new = {}
      BY <2>4, <2>6, <2>11
    <3>3. \A d \in OldDelivery : row[RowOf(d)] # c
      BY <3>2, <2>10
    <3>4. \A q \in CopyRows : row[q] # c
      <4> TAKE q \in CopyRows
      <4>1. q \in {"delivery"} \X OldDelivery \/ q \in {"organization"} \X Organization
        BY DEF CopyRows
      <4> QED
        BY <4>1, <3>3, <2>4, RowsAre
    <3>5. copier'[c] = Resting
      BY <3>1, <1>t
    <3>6. CopyOK(c)'
      BY <3>5 DEF CopyOK
    <3>7. \A q \in CopyRows : row'[q] = c => Resting # Resting
      BY <3>1, <3>4
    <3>8. row' \in [CopyRows -> Copier \cup {NoCopier}] /\ \A b \in Copier \ {c} : \A q \in CopyRows : row'[q] = b <=> row[q] = b
      BY <3>1, <1>t
    <3>9. PICK rec \in Copying \cup {Resting} : rec = Resting
      OBVIOUS
    <3>10. \A q \in CopyRows : row'[q] = c => rec # Resting
      BY <3>7, <3>9
    <3>11. copier' = [copier EXCEPT ![c] = rec]
      BY <3>1, <3>9
    <3>12. rec # Resting => \A d \in OldDelivery : row'[RowOf(d)] = c <=> d \in rec.new
      BY <3>9
    <3> QED
      BY <1>g, <2>7, <3>6, <3>8, <3>10, <3>11, <3>12
  <2>12. CASE r[2] \in seen /\ old.kind # "merge"
    <3>1. PICK rec \in Copying : rec = [old EXCEPT !.left = @ \ {r}]
      BY <2>9 DEF Copying
    <3>2. copier' = [copier EXCEPT ![c] = rec] /\ row' = row
      BY <2>3, <2>5, <2>12, <3>1
    <3>3. rec.left = old.left \ {r} /\ rec.new = old.new /\ rec.at = "deliveries" /\ rec.kind # "merge"
      BY <2>1, <2>3, <2>12, <3>1 DEF Copying
    <3>4. copier'[c] = rec
      BY <3>2, <1>t
    <3>5. CopyOK(c)'
      BY <3>2, <3>3, <3>4, <2>4, <2>7 DEF CopyOK
    <3>6. \A q \in CopyRows : row'[q] = c => rec # Resting
      BY <1>a
    <3>7. rec # Resting => \A d \in OldDelivery : row'[RowOf(d)] = c <=> d \in rec.new
      BY <2>10, <3>2, <3>3
    <3>8. row' \in [CopyRows -> Copier \cup {NoCopier}] /\ \A b \in Copier \ {c} : \A q \in CopyRows : row'[q] = b <=> row[q] = b
      BY <3>2, <1>t
    <3>9. copier' = [copier EXCEPT ![c] = rec]
      BY <3>2
    <3> QED
      BY <1>g, <2>7, <3>5, <3>6, <3>7, <3>8, <3>9
  <2>13. CASE r[2] \notin seen
    <3>1. PICK rec \in Copying : rec = [old EXCEPT !.left = @ \ {r}, !.new = @ \cup {r[2]}]
      BY <2>6, <2>9 DEF Copying
    <3>2. copier' = [copier EXCEPT ![c] = rec] /\ row' = [row EXCEPT ![r] = c]
      BY <2>3, <2>5, <2>13, <3>1
    <3>3. rec.left = old.left \ {r} /\ rec.new = old.new \cup {r[2]} /\ rec.at = "deliveries" /\ rec.kind = old.kind
      BY <2>1, <2>3, <3>1 DEF Copying
    <3>4. copier'[c] = rec
      BY <3>2, <1>t
    <3>5. row[r] \in {NoCopier, c}
      BY <2>5 DEF Waits
    <3>6. row'[r] = c /\ \A q \in CopyRows \ {r} : row'[q] = row[q]
      BY <3>2, <1>t, <2>6
    <3>7. \A d \in rec.new : \A q \in rec.left : d < q[2]
      <4> TAKE d \in rec.new
      <4> TAKE q \in rec.left
      <4>1. CASE d \in old.new
        BY <4>1, <2>4, <3>3
      <4>2. CASE d = r[2]
        <5>1. q[2] # r[2]
          BY <2>6, <2>8, <3>3
        <5>2. r[2] <= q[2] /\ q[2] \in Nat /\ r[2] \in Nat
          BY <2>6, <2>8, <3>3
        <5> QED
          BY <5>1, <5>2, <4>2
      <4> QED
        BY <4>1, <4>2, <3>3
    <3>8. \A o \in Organization : row'[OrganizationRow(o)] # c
      BY <2>4, <2>6, <3>6, RowsAre
    <3>9. rec.kind = "merge" => rec.left = {}
      BY <2>4, <2>6, <3>3
    <3>10. rec.new \cap seen' = {}
      BY <2>4, <2>7, <2>13, <3>3
    <3>11. rec.left \subseteq {"delivery"} \X OldDelivery
      BY <2>4, <3>3
    <3>12. CopyOK(c)'
      BY <3>3, <3>4, <3>7, <3>8, <3>9, <3>10, <3>11 DEF CopyOK
    <3>13. \A q \in CopyRows : row'[q] = c => rec # Resting
      BY <1>a
    <3>14. rec # Resting => \A d \in OldDelivery : row'[RowOf(d)] = c <=> d \in rec.new
      BY <2>10, <2>6, <3>3, <3>6, RowsAre
    <3>15. row' \in [CopyRows -> Copier \cup {NoCopier}]
      BY <3>2, <1>t
    <3>16. \A b \in Copier \ {c} : \A q \in CopyRows : row'[q] = b <=> row[q] = b
      BY <3>5, <3>6, <1>n
    <3>17. copier' = [copier EXCEPT ![c] = rec]
      BY <3>2
    <3> QED
      BY <1>g, <2>7, <3>12, <3>13, <3>14, <3>15, <3>16, <3>17
  <2> QED
    BY <2>11, <2>12, <2>13
<1>4. ASSUME NEW c \in Copier, Deliveries(c) PROVE LegacyInv'
  <2>1. copier[c] # Resting /\ copier[c].at = "deliveries" /\ copier[c].left = {}
    BY <1>4, <1>a DEF Deliveries
  <2>2. copier[c] \in Copying /\ CopyOK(c)
    BY <1>c, <2>1
  <2>3. PICK old \in Copying : old = copier[c]
    BY <2>2
  <2>4. /\ old.new \cap seen = {}
        /\ \A o \in Organization : row[OrganizationRow(o)] # c
    BY <2>1, <2>2, <2>3 DEF CopyOK
  <2>5. UNCHANGED <<onRecord, seen, guarded, claimed, toldOf, row>> /\ copies' \in 0 .. MaxCopies
    BY <1>4, <1>t DEF Deliveries
  <2>6. TouchedBy(old.file) \subseteq Organization
    BY <1>f DEF Copying
  <2>7. OrganizationRows(old.file) \subseteq {"organization"} \X Organization
        /\ \A o \in TouchedBy(old.file) : OrganizationRow(o) \in OrganizationRows(old.file)
    BY <2>6 DEF OrganizationRows, OrganizationRow
  <2>8. OrganizationRows(old.file) \subseteq CopyRows
    BY <2>7, RowsAre
  <2>9. PICK rec \in Copying : rec = [old EXCEPT !.at = "organizations", !.left = OrganizationRows(old.file)]
    BY <2>8 DEF Copying
  <2>10. copier' = [copier EXCEPT ![c] = rec]
    BY <1>4, <2>3, <2>9 DEF Deliveries
  <2>11. rec.at = "organizations" /\ rec.left = OrganizationRows(old.file) /\ rec.new = old.new /\ rec.file = old.file
    BY <2>9 DEF Copying
  <2>12. copier'[c] = rec
    BY <2>10, <1>t
  <2>13. CopyOK(c)'
    BY <2>4, <2>5, <2>7, <2>11, <2>12 DEF CopyOK
  <2>14. \A d \in OldDelivery : row[RowOf(d)] = c <=> d \in old.new
    BY <2>1, <2>3 DEF LegacyInv, HeldOK
  <2>15. rec # Resting => \A d \in OldDelivery : row'[RowOf(d)] = c <=> d \in rec.new
    BY <2>14, <2>11, <2>5
  <2>16. \A q \in CopyRows : row'[q] = c => rec # Resting
    BY <1>a
  <2>17. row' \in [CopyRows -> Copier \cup {NoCopier}] /\ \A b \in Copier \ {c} : \A q \in CopyRows : row'[q] = b <=> row[q] = b
    BY <2>5, <1>t
  <2> QED
    BY <1>g, <2>5, <2>10, <2>13, <2>15, <2>16, <2>17
<1>5. ASSUME NEW c \in Copier, LockNext(c) PROVE LegacyInv'
  <2>1. copier[c] # Resting /\ copier[c].at = "organizations"
    BY <1>5, <1>a DEF LockNext
  <2>2. copier[c] \in Copying /\ CopyOK(c)
    BY <1>c, <2>1
  <2>3. PICK old \in Copying : old = copier[c]
    BY <2>2
  <2>4. /\ old.new \cap seen = {} /\ old.left \subseteq {"organization"} \X Organization
        /\ \A o \in TouchedBy(old.file) : OrganizationRow(o) \in old.left \/ row[OrganizationRow(o)] = c
        /\ \A o \in Organization : row[OrganizationRow(o)] = c => \A q \in old.left : o < q[2]
    BY <2>1, <2>2, <2>3 DEF CopyOK
  <2>5. PICK r \in Turn(c) :
          /\ ~Waits(c, r)
          /\ row' = [row EXCEPT ![r] = c]
          /\ copier' = [copier EXCEPT ![c].left = @ \ {r},
                                   ![c].at = IF copier[c].left = {r} THEN "read" ELSE @]
    BY <1>5 DEF LockNext
  <2>6. r \in old.left /\ (\A q \in old.left : r[2] <= q[2]) /\ r[2] \in Organization /\ r = OrganizationRow(r[2]) /\ r \in CopyRows
    BY <1>k, <2>3, <2>4, RowsAre
  <2>7. UNCHANGED <<onRecord, seen, guarded, claimed, toldOf>> /\ copies' \in 0 .. MaxCopies
    BY <1>5, <1>t DEF LockNext
  <2>8. \A q \in old.left : q[2] \in Organization /\ q[2] \in Nat /\ q = OrganizationRow(q[2])
    BY <2>4, <1>n, RowsAre
  <2>9. old.left \subseteq CopyRows /\ old.at = "organizations"
    BY <2>1, <2>3 DEF Copying
  <2>10. PICK step \in {"read", "organizations"} : step = IF old.left = {r} THEN "read" ELSE "organizations"
    OBVIOUS
  <2>11. PICK rec \in Copying : rec = [old EXCEPT !.left = @ \ {r}, !.at = step]
    BY <2>9 DEF Copying
  <2>12. copier' = [copier EXCEPT ![c] = rec]
    BY <2>3, <2>5, <2>9, <2>10, <2>11
  <2>13. rec.left = old.left \ {r} /\ rec.new = old.new /\ rec.at = step /\ rec.file = old.file
    BY <2>11 DEF Copying
  <2>14. copier'[c] = rec
    BY <2>12, <1>t
  <2>15. row[r] \in {NoCopier, c}
    BY <2>5 DEF Waits
  <2>16. row'[r] = c /\ \A q \in CopyRows \ {r} : row'[q] = row[q]
    BY <2>5, <1>t, <2>6
  <2>17. \A o \in Organization : row'[OrganizationRow(o)] = c <=> (o = r[2] \/ row[OrganizationRow(o)] = c)
    BY <2>6, <2>16, RowsAre
  <2>18. \A o \in Organization : row'[OrganizationRow(o)] = c => \A q \in rec.left : o < q[2]
    <3> TAKE o \in Organization
    <3> HAVE row'[OrganizationRow(o)] = c
    <3> TAKE q \in rec.left
    <3>1. CASE o = r[2]
      <4>1. q[2] # r[2]
        BY <2>6, <2>8, <2>13
      <4>2. r[2] <= q[2] /\ q[2] \in Nat /\ r[2] \in Nat
        BY <2>6, <2>8, <2>13
      <4> QED
        BY <3>1, <4>1, <4>2
    <3>2. CASE row[OrganizationRow(o)] = c
      BY <3>2, <2>4, <2>13
    <3> QED
      BY <3>1, <3>2, <2>17
  <2>19. TouchedBy(old.file) \subseteq Organization
    BY <1>f DEF Copying
  <2>20. \A o \in TouchedBy(rec.file) : OrganizationRow(o) \in rec.left \/ row'[OrganizationRow(o)] = c
    BY <2>4, <2>6, <2>13, <2>17, <2>19, RowsAre
  <2>21. rec.left \subseteq {"organization"} \X Organization
    BY <2>4, <2>13
  <2>22. rec.at = "read" => rec.left = {}
    BY <2>10, <2>13
  <2>23. rec.new \cap seen' = {}
    BY <2>4, <2>7, <2>13
  <2>24. CopyOK(c)'
    BY <2>10, <2>13, <2>14, <2>18, <2>20, <2>21, <2>22, <2>23 DEF CopyOK
  <2>25. \A d \in OldDelivery : row[RowOf(d)] = c <=> d \in old.new
    BY <2>1, <2>3 DEF LegacyInv, HeldOK
  <2>26. rec # Resting => \A d \in OldDelivery : row'[RowOf(d)] = c <=> d \in rec.new
    BY <2>25, <2>6, <2>13, <2>16, RowsAre
  <2>27. \A q \in CopyRows : row'[q] = c => rec # Resting
    BY <1>a
  <2>28. row' \in [CopyRows -> Copier \cup {NoCopier}]
    BY <2>5, <1>t
  <2>29. \A b \in Copier \ {c} : \A q \in CopyRows : row'[q] = b <=> row[q] = b
    BY <2>15, <2>16, <1>n
  <2> QED
    BY <1>g, <2>7, <2>12, <2>24, <2>26, <2>27, <2>28, <2>29
<1>6. ASSUME NEW c \in Copier, ReadKept(c) PROVE LegacyInv'
  <2>1. copier[c] # Resting /\ copier[c].at = "read"
    BY <1>6, <1>a DEF ReadKept
  <2>2. copier[c] \in Copying /\ CopyOK(c)
    BY <1>c, <2>1
  <2>3. PICK old \in Copying : old = copier[c]
    BY <2>2
  <2>4. old.new \cap seen = {} /\ old.left = {} /\ \A o \in TouchedBy(old.file) : row[OrganizationRow(o)] = c
    BY <2>1, <2>2, <2>3 DEF CopyOK
  <2>5. UNCHANGED <<onRecord, seen, guarded, claimed, toldOf, row>> /\ copies' \in 0 .. MaxCopies
    BY <1>6, <1>t DEF ReadKept
  <2>6. PICK stay \in [Organization -> Event \cup {NoEvent}] :
          stay = [o \in Organization |-> IF o \in EventsOf(old.file) THEN onRecord[o] ELSE NoEvent]
    BY <1>t
  <2>7. PICK rec \in Copying : rec = [old EXCEPT !.at = "write", !.found = stay]
    BY DEF Copying
  <2>8. copier' = [copier EXCEPT ![c] = rec]
    BY <1>6, <2>3, <2>6, <2>7 DEF ReadKept, EventsOf
  <2>9. rec.at = "write" /\ rec.left = {} /\ rec.new = old.new /\ rec.file = old.file /\ rec.found = stay
    BY <2>4, <2>7 DEF Copying
  <2>10. copier'[c] = rec
    BY <2>8, <1>t
  <2>11. EventsOf(old.file) \subseteq Organization
    BY <1>f DEF Copying
  <2>12. /\ \A o \in EventsOf(rec.file) : rec.found[o] = onRecord'[o]
         /\ \A o \in Organization \ EventsOf(rec.file) : rec.found[o] = NoEvent
    BY <2>5, <2>6, <2>9, <2>11
  <2>13. CopyOK(c)'
    BY <2>4, <2>5, <2>9, <2>10, <2>12 DEF CopyOK
  <2>14. \A d \in OldDelivery : row[RowOf(d)] = c <=> d \in old.new
    BY <2>1, <2>3 DEF LegacyInv, HeldOK
  <2>15. rec # Resting => \A d \in OldDelivery : row'[RowOf(d)] = c <=> d \in rec.new
    BY <2>14, <2>9, <2>5
  <2>16. \A q \in CopyRows : row'[q] = c => rec # Resting
    BY <1>a
  <2>17. row' \in [CopyRows -> Copier \cup {NoCopier}] /\ \A b \in Copier \ {c} : \A q \in CopyRows : row'[q] = b <=> row[q] = b
    BY <2>5, <1>t
  <2> QED
    BY <1>g, <2>5, <2>8, <2>13, <2>15, <2>16, <2>17
\* A released transaction holds nothing, and the others what they held.
<1>l. ASSUME NEW c \in Copier, Release(c)
      PROVE  /\ copier' = [copier EXCEPT ![c] = Resting] /\ copier'[c] = Resting
             /\ \A b \in Copier \ {c} : copier'[b] = copier[b]
             /\ row' \in [CopyRows -> Copier \cup {NoCopier}]
             /\ \A r \in CopyRows : row'[r] # c
             /\ \A b \in Copier \ {c} : \A r \in CopyRows : row'[r] = b <=> row[r] = b
  BY <1>l, <1>t, <1>n DEF Release
<1>7. ASSUME NEW c \in Copier, CopyFails(c) PROVE LegacyInv'
  <2>1. Release(c) /\ UNCHANGED <<onRecord, seen, guarded, claimed, toldOf>> /\ copies' \in 0 .. MaxCopies
    BY <1>7, <1>t DEF CopyFails
  <2>2. PICK rec \in Copying \cup {Resting} : rec = Resting
    OBVIOUS
  <2>3. copier' = [copier EXCEPT ![c] = rec] /\ copier'[c] = Resting
    BY <1>l, <2>1, <2>2
  <2>4. CopyOK(c)'
    BY <2>3 DEF CopyOK
  <2>5. row' \in [CopyRows -> Copier \cup {NoCopier}] /\ \A b \in Copier \ {c} : \A q \in CopyRows : row'[q] = b <=> row[q] = b
    BY <1>l, <2>1
  <2>6. \A q \in CopyRows : row'[q] = c => rec # Resting
    BY <1>l, <2>1
  <2>7. rec # Resting => \A d \in OldDelivery : row'[RowOf(d)] = c <=> d \in rec.new
    BY <2>2
  <2> QED
    BY <1>g, <2>1, <2>3, <2>4, <2>5, <2>6, <2>7
<1>8. ASSUME NEW c \in Copier, WriteCopy(c) PROVE LegacyInv'
  <2>1. copier[c] # Resting /\ copier[c].at = "write"
    BY <1>8, <1>a DEF WriteCopy
  <2>2. copier[c] \in Copying /\ CopyOK(c)
    BY <1>c, <2>1
  <2>3. PICK old \in Copying : old = copier[c]
    BY <2>2
  <2>4. PICK events \in SUBSET Organization : events = EventsOf(old.file)
    BY <1>f DEF Copying
  <2>5. /\ old.new \cap seen = {} /\ old.new \subseteq OldDelivery
        /\ \A o \in TouchedBy(old.file) : row[OrganizationRow(o)] = c
        /\ \A o \in events : old.found[o] = onRecord[o]
    BY <2>1, <2>2, <2>3, <2>4 DEF CopyOK, Copying
  <2>6. old.kind \in {"import", "merge"} /\ old.file \in File
    BY DEF Copying
  <2>7. \A o \in events : Chosen(c, o) \in Event
        /\ (old.kind = "merge" => Chosen(c, o).from = "webhook")
        /\ (old.kind = "import" /\ onRecord[o] # NoEvent => Chosen(c, o).from = onRecord[o].from)
        /\ (Chosen(c, o).restricted => o \in old.file.restricted \/ onRecord[o].restricted)
    <3> TAKE o \in events
    <3>1. onRecord[o] \in Event \cup {NoEvent}
      BY <1>t
    <3>2. CASE old.kind = "import" /\ onRecord[o] # NoEvent
      <4>1. PICK prior \in Event : prior = onRecord[o]
        BY <3>1, <3>2
      <4>2. Chosen(c, o) = [prior EXCEPT !.restricted = (o \in old.file.restricted \/ prior.restricted)]
        BY <2>3, <2>5, <3>2, <4>1 DEF Chosen
      <4>3. PICK w \in BOOLEAN : w = (o \in old.file.restricted \/ prior.restricted)
        OBVIOUS
      <4>4. Chosen(c, o) = [from |-> prior.from, restricted |-> w]
        BY <4>2, <4>3 DEF Event
      <4>5. prior.from \in {"file", "webhook"}
        BY DEF Event
      <4> QED
        BY <3>2, <4>1, <4>3, <4>4, <4>5 DEF Event
    <3>3. CASE ~(old.kind = "import" /\ onRecord[o] # NoEvent)
      <4>1. PICK w \in BOOLEAN : w = (o \in old.file.restricted \/ onRecord[o].restricted)
        OBVIOUS
      <4>2. Chosen(c, o) = [from |-> IF old.kind = "import" THEN "file" ELSE "webhook", restricted |-> w]
        BY <2>3, <2>5, <3>3, <4>1 DEF Chosen
      <4>3. PICK told \in {"file", "webhook"} : told = IF old.kind = "import" THEN "file" ELSE "webhook"
        OBVIOUS
      <4>4. Chosen(c, o) = [from |-> told, restricted |-> w]
        BY <4>2, <4>3
      <4>5. Chosen(c, o) \in Event
        BY <4>4 DEF Event
      <4>6. old.kind = "merge" => Chosen(c, o).from = "webhook"
        BY <4>3, <4>4
      <4>9. w => o \in old.file.restricted \/ onRecord[o].restricted
        BY <4>1, Zenon
      <4>10. Chosen(c, o).restricted = w
        BY <4>4
      <4>7. Chosen(c, o).restricted => o \in old.file.restricted \/ onRecord[o].restricted
        BY <4>9, <4>10, Zenon
      <4>8. ~(old.kind = "import" /\ onRecord[o] # NoEvent)
        BY <3>3
      <4> QED
        BY <4>5, <4>6, <4>7, <4>8
    <3> QED
      BY <3>2, <3>3
  <2>8. /\ onRecord' = [o \in Organization |-> IF o \in events THEN Chosen(c, o) ELSE onRecord[o]]
        /\ seen' = seen \cup old.new
        /\ guarded' = guarded \cup Protects(old.file)
        /\ claimed' = [events |-> [o \in Organization |->
                         claimed.events[o] + IF o \in events /\ old.found[o] = NoEvent THEN 1 ELSE 0],
                       deliveries |-> [d \in OldDelivery |->
                         claimed.deliveries[d] + IF d \in old.new THEN 1 ELSE 0]]
        /\ toldOf' = IF old.kind = "merge" THEN toldOf \cup events ELSE toldOf
        /\ Release(c) /\ copies' = copies
    BY <1>8, <2>3, <2>4 DEF WriteCopy, EventsOf
  <2>9. /\ \A o \in events : onRecord'[o] = Chosen(c, o)
        /\ \A o \in Organization \ events : onRecord'[o] = onRecord[o]
    BY <2>8
  <2>10. onRecord' \in [Organization -> Event \cup {NoEvent}]
    BY <2>7, <2>8, <1>t
  <2>11. claimed' \in [events : [Organization -> Nat], deliveries : [OldDelivery -> Nat]]
    <3>1. \A o \in Organization : claimed.events[o] \in Nat
      BY <1>t
    <3>2. \A d \in OldDelivery : claimed.deliveries[d] \in Nat
      BY <1>t
    <3>3. [o \in Organization |->
             claimed.events[o] + IF o \in events /\ old.found[o] = NoEvent THEN 1 ELSE 0] \in [Organization -> Nat]
      BY <3>1
    <3>4. [d \in OldDelivery |-> claimed.deliveries[d] + IF d \in old.new THEN 1 ELSE 0] \in [OldDelivery -> Nat]
      BY <3>2
    <3> QED
      BY <2>8, <3>3, <3>4
  <2>12. guarded' \subseteq Organization /\ seen' \subseteq OldDelivery /\ toldOf' \subseteq Organization
    BY <2>5, <2>6, <2>8, <1>t DEF Protects, File
  <2>13. LegacyTypeOK'
    BY <2>8, <2>10, <2>11, <2>12, <1>l, <1>t DEF LegacyTypeOK
  <2>14. \A b \in Copier : CopyOK(b)'
    <3> TAKE b \in Copier
    <3>1. CASE b = c
      BY <3>1, <2>8, <1>l DEF CopyOK
    <3>2. CASE b # c
      <4>1. copier'[b] = copier[b] /\ \A r \in CopyRows : row'[r] = b <=> row[r] = b
        BY <3>2, <2>8, <1>l
      <4>2. copier[b] # Resting => copier[b].new \cap seen' = {}
        <5> HAVE copier[b] # Resting
        <5>1. copier[b].new \cap seen = {} /\ copier[b].new \subseteq OldDelivery
          BY <1>c DEF CopyOK, Copying
        <5>2. \A d \in old.new : d \notin copier[b].new
          BY <2>1, <2>3, <2>5, <3>2 DEF LegacyInv, HeldOK
        <5> QED
          BY <5>1, <5>2, <2>8
      <4>3. copier[b] # Resting /\ copier[b].at = "write" =>
              \A o \in EventsOf(copier[b].file) : onRecord'[o] = onRecord[o]
        <5> HAVE copier[b] # Resting /\ copier[b].at = "write"
        <5>1. CopyOK(b) /\ copier[b] \in Copying
          BY <1>c
        <5>2. copier[b].file \in File
          BY <5>1 DEF Copying
        <5>3. \A o \in EventsOf(copier[b].file) : row[OrganizationRow(o)] = b
          BY <5>1, <5>2, <1>f DEF CopyOK
        <5>4. \A o \in events : row[OrganizationRow(o)] = c
          BY <2>4, <2>5, <2>6, <1>f
        <5>5. EventsOf(copier[b].file) \subseteq Organization
          BY <5>2, <1>f
        <5> QED
          BY <3>2, <5>3, <5>4, <5>5, <2>9
      <4> QED
        BY <1>o, <4>1, <4>2, <4>3
    <3> QED
      BY <3>1, <3>2
  <2>15. HeldOK'
    <3>1. \A b \in Copier \ {c} :
            /\ \A r \in CopyRows : row'[r] = b => copier'[b] # Resting
            /\ \A d \in OldDelivery : copier'[b] # Resting => (row'[RowOf(d)] = b <=> d \in copier'[b].new)
      BY <2>8, <1>l, RowsAre DEF LegacyInv, HeldOK
    <3> QED
      BY <2>8, <1>l, <3>1 DEF HeldOK
  <2>16. RecordOK'
    <3>1. \A o \in Organization : claimed'.events[o] = IF onRecord'[o] = NoEvent THEN 0 ELSE 1
      <4> TAKE o \in Organization
      <4>1. claimed.events[o] = IF onRecord[o] = NoEvent THEN 0 ELSE 1
        BY DEF LegacyInv, RecordOK
      <4>2. claimed'.events[o] = claimed.events[o] + IF o \in events /\ old.found[o] = NoEvent THEN 1 ELSE 0
        BY <2>8
      <4>3. NoEvent \notin Event
        BY DEF NoEvent, Event
      <4>4. CASE o \in events
        <5>1. onRecord'[o] # NoEvent /\ old.found[o] = onRecord[o]
          BY <2>5, <2>7, <2>9, <4>3, <4>4
        <5> QED
          BY <4>1, <4>2, <4>4, <5>1
      <4>5. CASE o \notin events
        BY <4>1, <4>2, <4>5, <2>9
      <4> QED
        BY <4>4, <4>5
    <3>2. \A d \in OldDelivery : claimed'.deliveries[d] = IF d \in seen' THEN 1 ELSE 0
      <4> TAKE d \in OldDelivery
      <4>1. claimed.deliveries[d] = IF d \in seen THEN 1 ELSE 0
        BY DEF LegacyInv, RecordOK
      <4>2. claimed'.deliveries[d] = claimed.deliveries[d] + IF d \in old.new THEN 1 ELSE 0
        BY <2>8
      <4>3. d \in seen' <=> d \in seen \/ d \in old.new
        BY <2>8
      <4>4. ~(d \in seen /\ d \in old.new)
        BY <2>5
      <4> QED
        BY <4>1, <4>2, <4>3, <4>4
    <3>3. \A o \in toldOf' : onRecord'[o].from = "webhook"
      <4> TAKE o \in toldOf'
      <4>1. CASE o \in events
        <5>1. CASE old.kind = "merge"
          BY <4>1, <5>1, <2>7, <2>9
        <5>2. CASE old.kind = "import"
          <6>1. onRecord[o].from = "webhook"
            BY <5>2, <2>8 DEF LegacyInv, RecordOK
          <6>2. onRecord[o] # NoEvent
            BY <6>1 DEF NoEvent
          <6> QED
            BY <4>1, <5>2, <6>1, <6>2, <2>7, <2>9
        <5> QED
          BY <5>1, <5>2, <2>6
      <4>2. CASE o \notin events
        <5>1. o \in toldOf /\ o \in Organization
          BY <4>2, <2>8, <1>t
        <5> QED
          BY <4>2, <5>1, <2>9 DEF LegacyInv, RecordOK
      <4> QED
        BY <4>1, <4>2
    <3>4. \A o \in Organization : onRecord'[o].restricted => o \in guarded'
      <4> TAKE o \in Organization
      <4> HAVE onRecord'[o].restricted
      <4>1. CASE o \in events
        <5>1. o \in old.file.restricted \/ onRecord[o].restricted
          BY <4>1, <2>7, <2>9
        <5> QED
          BY <5>1, <2>8 DEF LegacyInv, RecordOK, Protects
      <4>2. CASE o \notin events
        BY <4>2, <2>8, <2>9 DEF LegacyInv, RecordOK
      <4> QED
        BY <4>1, <4>2
    <3> QED
      BY <3>1, <3>2, <3>3, <3>4 DEF RecordOK
  <2> QED
    BY <2>13, <2>14, <2>15, <2>16 DEF LegacyInv
<1>9. CASE UNCHANGED legacyVars
  <2>1. LegacyTypeOK' /\ HeldOK' /\ RecordOK'
    BY <1>9 DEF LegacyInv, LegacyTypeOK, HeldOK, RecordOK, legacyVars
  <2>2. \A b \in Copier : CopyOK(b)'
    <3> TAKE b \in Copier
    <3>1. CopyOK(b)
      BY DEF LegacyInv
    <3> QED
      BY <3>1, <1>9 DEF CopyOK, legacyVars
  <2> QED
    BY <2>1, <2>2 DEF LegacyInv
<1> QED
  BY <1>1, <1>2, <1>3, <1>4, <1>5, <1>6, <1>7, <1>8, <1>9 DEF LegacyNext

\* The invariant has the types, and a copy is whole and of one file.
LEMMA LegacyInvSafe == LegacyInv => LegacyTypeOK /\ LegacySafe
<1> SUFFICES ASSUME LegacyInv PROVE LegacyTypeOK /\ LegacySafe
  OBVIOUS
<1>1. PICK n \in Nat : Organization \cup OldDelivery \subseteq 0 .. n
  BY LegacyAssumption
<1>2. \A c \in Copier : copier[c] # Resting => copier[c] \in Copying /\ CopyOK(c)
  BY DEF LegacyInv, LegacyTypeOK
<1>3. Resting \notin Copying /\ Organization \subseteq Nat /\ OldDelivery \subseteq Nat /\ NoCopier \notin Copier
  BY IdsAreNat, LegacyAssumption DEF Resting, Copying
<1>4. row \in [CopyRows -> Copier \cup {NoCopier}]
  BY DEF LegacyInv, LegacyTypeOK
<1>5. ASSUME \A c \in Copier : copier[c] # Resting => Stuck(c), NEW b \in Copier, copier[b] # Resting
      PROVE  FALSE
  <2>1. \A c \in Copier : copier[c] # Resting =>
          /\ copier[c].at \in {"deliveries", "organizations"}
          /\ \A r \in copier[c].left : r \in CopyRows /\ r[2] \in 0 .. n
          /\ copier[c].at = "deliveries" => copier[c].left \subseteq {"delivery"} \X OldDelivery
          /\ copier[c].at = "organizations" => copier[c].left \subseteq {"organization"} \X Organization
    <3> TAKE c \in Copier
    <3> HAVE copier[c] # Resting
    <3>1. copier[c] \in Copying /\ CopyOK(c) /\ copier[c].left # {}
      BY <1>2, <1>5 DEF Stuck
    <3>2. copier[c].at \in {"deliveries", "organizations"}
      BY <3>1 DEF Copying, CopyOK
    <3>3. copier[c].at = "deliveries" => copier[c].left \subseteq {"delivery"} \X OldDelivery
      BY <3>1 DEF CopyOK
    <3>4. copier[c].at = "organizations" => copier[c].left \subseteq {"organization"} \X Organization
      BY <3>1 DEF CopyOK
    <3>5. \A r \in copier[c].left : r[2] \in Organization \cup OldDelivery /\ r \in CopyRows
      BY <3>2, <3>3, <3>4, RowsAre
    <3> QED
      BY <3>2, <3>3, <3>4, <3>5, <1>1
  <2>2. \A c \in Copier : copier[c] # Resting => \E r \in Turn(c) : TRUE
    <3> TAKE c \in Copier
    <3> HAVE copier[c] # Resting
    <3> DEFINE Numbers == {r[2] : r \in copier[c].left}
    <3>1. Numbers \subseteq Nat /\ Numbers # {}
      BY <1>5, <2>1 DEF Stuck
    <3>2. PICK x \in Numbers : \A y \in Numbers : x <= y
      BY <3>1, LeastOne
    <3> QED
      BY <3>2 DEF Turn
  <2>3. \A c \in Copier : copier[c] # Resting =>
          \A r \in Turn(c) : r \in copier[c].left /\ row[r] \in Copier \ {c} /\ copier[row[r]] # Resting
    <3> TAKE c \in Copier
    <3> HAVE copier[c] # Resting
    <3> TAKE r \in Turn(c)
    <3>1. r \in copier[c].left /\ row[r] \notin {NoCopier, c}
      BY <1>5 DEF Stuck, Waits, Turn
    <3>2. r \in CopyRows
      BY <2>1, <3>1
    <3>3. row[r] \in Copier \ {c}
      BY <3>1, <3>2, <1>4
    <3> QED
      BY <3>1, <3>2, <3>3 DEF LegacyInv, HeldOK
  \* The greatest number waited for at one stage is held by one that waits for a greater.
  <2>4. ASSUME NEW step \in {"deliveries", "organizations"},
               \E c \in Copier : copier[c] # Resting /\ copier[c].at = step,
               \A c \in Copier : copier[c] # Resting /\ copier[c].at = step =>
                 \A r \in Turn(c) : /\ copier[row[r]].at = step
                                    /\ \A q \in copier[row[r]].left : r[2] < q[2]
        PROVE  FALSE
    <3> DEFINE Wanted == {x \in 0 .. n : \E c \in Copier : copier[c] # Resting /\ copier[c].at = step
                                           /\ \E r \in Turn(c) : r[2] = x}
    <3>1. Wanted \in SUBSET (0 .. n)
      OBVIOUS
    <3>2. \A c \in Copier : copier[c] # Resting /\ copier[c].at = step => \A r \in Turn(c) : r[2] \in Wanted
      BY <2>1, <2>3
    <3>3. Wanted # {}
      BY <2>2, <2>4, <3>2
    <3> HIDE DEF Wanted
    <3>4. PICK x \in Wanted : \A y \in Wanted : y <= x
      BY <3>1, <3>3, GreatestOne
    <3>a. PICK c \in Copier : copier[c] # Resting /\ copier[c].at = step /\ \E r \in Turn(c) : r[2] = x
      BY <3>4 DEF Wanted
    <3>5. PICK r \in Turn(c) : copier[c] # Resting /\ copier[c].at = step /\ r[2] = x
      BY <3>a
    <3>6. PICK e \in Copier : e = row[r] /\ copier[e] # Resting /\ copier[e].at = step
      BY <2>3, <2>4, <3>5
    <3>7. PICK q \in Turn(e) : TRUE
      BY <2>2, <3>6
    <3>8. q \in copier[e].left /\ q[2] \in Wanted
      BY <2>3, <3>2, <3>6
    <3>9. x < q[2]
      BY <2>4, <3>5, <3>6, <3>8
    <3>10. q[2] <= x
      BY <3>4, <3>8
    <3>11. x \in 0 .. n /\ q[2] \in 0 .. n
      BY <3>1, <3>4, <3>8
    <3> QED
      BY <3>9, <3>10, <3>11
  <2>5. CASE \E c \in Copier : copier[c] # Resting /\ copier[c].at = "organizations"
    <3>1. ASSUME NEW c \in Copier, copier[c] # Resting, copier[c].at = "organizations", NEW r \in Turn(c)
          PROVE  /\ copier[row[r]].at = "organizations"
                 /\ \A q \in copier[row[r]].left : r[2] < q[2]
      <4>1. r = OrganizationRow(r[2]) /\ r[2] \in Organization
        BY <2>1, <2>3, <3>1, RowsAre
      <4>2. PICK e \in Copier : e = row[r] /\ copier[e] # Resting
        BY <2>3, <3>1
      <4>3. CopyOK(e) /\ row[OrganizationRow(r[2])] = e /\ copier[e].at \in {"deliveries", "organizations"}
        BY <1>2, <2>1, <4>1, <4>2
      <4> QED
        BY <4>1, <4>2, <4>3 DEF CopyOK
    <3> QED
      BY <2>4, <2>5, <3>1
  <2>6. CASE \A c \in Copier : copier[c] # Resting => copier[c].at = "deliveries"
    <3>1. ASSUME NEW c \in Copier, copier[c] # Resting, copier[c].at = "deliveries", NEW r \in Turn(c)
          PROVE  /\ copier[row[r]].at = "deliveries"
                 /\ \A q \in copier[row[r]].left : r[2] < q[2]
      <4>1. r = RowOf(r[2]) /\ r[2] \in OldDelivery
        BY <2>1, <2>3, <3>1, RowsAre
      <4>2. PICK e \in Copier : e = row[r] /\ copier[e] # Resting
        BY <2>3, <3>1
      <4>3. CopyOK(e) /\ row[RowOf(r[2])] = e /\ copier[e].at = "deliveries"
        BY <1>2, <2>6, <4>1, <4>2
      <4>4. r[2] \in copier[e].new
        BY <4>1, <4>2, <4>3 DEF LegacyInv, HeldOK
      <4> QED
        BY <4>2, <4>3, <4>4 DEF CopyOK
    <3> QED
      BY <2>4, <2>6, <3>1, <1>5
  <2> QED
    BY <2>1, <2>5, <2>6
<1>6. (\E c \in Copier : copier[c] # Resting) => \E c \in Copier : copier[c] # Resting /\ ~Stuck(c)
  BY <1>5
<1> QED
  BY <1>6 DEF LegacyInv, RecordOK, LegacySafe

\* The import keeps the invariant (postgres-store.ts importLegacy).
LEMMA LegacyInvariance == LegacySpec => []LegacyInv
<1> QED
  BY LegacyStart, LegacyStep, PTL DEF LegacySpec

\* Imports never all wait for each other, and report an event once (postgres-store.ts importLegacy).
THEOREM ImportsAreSafe == LegacySpec => [](LegacyTypeOK /\ LegacySafe)
<1>1. LegacyInv => LegacyTypeOK /\ LegacySafe
  BY LegacyInvSafe
<1> QED
  BY <1>1, LegacyInvariance, PTL

-----------------------------------------------------------------------------
(* Requests to the outside (Outbound). *)

\* What a request may be.
Steps == {"start", "lookup", "connect", "open", "done"}
SendingResults == {"none", "passed", "failed", "answered", "no answer"}

Sendings ==
  [at : Steps, looked : SUBSET (Outside \cup Inside), address : Outside \cup Inside \cup {"none"},
   socket : BOOLEAN, read : 0 .. MaxChunks, outcome : SendingResults]

Heads ==
  [is : {"head", "whole", "broken"}, good : BOOLEAN, match : BOOLEAN, late : BOOLEAN,
   chunks : 0 .. MaxChunks]

\* The inductive invariant.
OutboundInv ==
  /\ OutboundTypeOK
  /\ sending.address # "none" =>
       /\ sending.address \in sending.looked /\ sending.looked \subseteq Outside
       /\ target.url = "name"
  /\ sending.at = "start" => ~Finished /\ clock = "off"
  /\ sending.at \in {"start", "lookup"} =>
       sending.address = "none" /\ ~sending.socket /\ reply = Unanswered
  /\ reply = Unanswered => sending.read = 0
  /\ sending.at \in {"connect", "open"} => ~Finished /\ clock = "on" /\ sending.address # "none"
  /\ sending.at = "connect" => reply = Unanswered
  /\ sending.socket => sending.at = "open"
  /\ sending.at = "done" => Finished
  /\ Finished => clock # "on"
  /\ reply.is = "head" => reply.chunks = sending.read \/ Finished
  /\ reply # Unanswered /\ ~Finished => reply.is = "head"
  /\ sending.read <= BodyLimit
  /\ sending.outcome = "passed" =>
       /\ IsProbe /\ reply.is = "whole" /\ reply.chunks <= BodyLimit
       /\ reply.good /\ (target.probe.json => reply.match)
  /\ sending.outcome = "answered" => ~IsProbe /\ reply # Unanswered /\ clock # "over"

\* Nothing has been asked at first.
LEMMA OutboundStart == OutboundInit => OutboundInv
<1> SUFFICES ASSUME OutboundInit PROVE OutboundInv
  OBVIOUS
<1>1. MaxChunks \in Nat /\ BodyLimit \in Nat
  BY OutboundAssumption
<1>2. OutboundTypeOK
  BY <1>1 DEF OutboundInit, OutboundTypeOK, Unanswered
<1> QED
  BY <1>1, <1>2 DEF OutboundInit, OutboundInv, Finished, Unanswered

\* Every step of the names and of a request.
LEMMA OutboundStep == OutboundInv /\ [OutboundNext]_outboundVars => OutboundInv'
<1> SUFFICES ASSUME OutboundInv, [OutboundNext]_outboundVars PROVE OutboundInv'
  OBVIOUS
<1>n. MaxChunks \in Nat /\ BodyLimit \in Nat /\ "none" \notin Outside
  BY OutboundAssumption
<1>t. /\ target \in Targets /\ names \in SUBSET (Outside \cup Inside)
      /\ sending \in Sendings
      /\ reply \in {Unanswered} \cup Heads
      /\ clock \in {"off", "on", "over"}
  BY DEF OutboundInv, OutboundTypeOK, Sendings, Heads, Steps, SendingResults, Unanswered
<1>k. ASSUME target' \in Targets, names' \in SUBSET (Outside \cup Inside), sending' \in Sendings,
             reply' \in {Unanswered} \cup Heads, clock' \in {"off", "on", "over"}
      PROVE  OutboundTypeOK'
  <2>1. reply' \in [is : {"none"}] \cup Heads
    BY <1>k DEF Unanswered
  <2>2. sending' \in Sendings /\ target' \in Targets /\ names' \in SUBSET (Outside \cup Inside)
        /\ clock' \in {"off", "on", "over"}
    BY <1>k
  <2> QED
    BY <2>1, <2>2 DEF OutboundTypeOK, Sendings, Heads, Steps, SendingResults
<1>u. Unanswered.is = "none" /\ Unanswered \notin Heads
  BY DEF Unanswered, Heads
<1>r. Failure \in {"failed", "no answer"}
  BY DEF Failure
\* The end of the request, with the answer as it is by then.
<1>f. ASSUME NEW outcome \in {"passed", "failed", "answered", "no answer"}, ~Finished, Finish(outcome),
             reply' \in {Unanswered} \cup Heads, UNCHANGED <<target, names>>,
             reply' = Unanswered => reply = Unanswered,
             outcome = "passed" =>
               /\ IsProbe /\ reply'.is = "whole" /\ reply'.chunks <= BodyLimit
               /\ reply'.good /\ (target.probe.json => reply'.match),
             outcome = "answered" => ~IsProbe /\ reply' # Unanswered
      PROVE  OutboundInv'
  <2>1. PICK rec \in Sendings : rec = [sending EXCEPT !.outcome = outcome, !.at = "done", !.socket = FALSE]
    BY <1>t DEF Sendings, Steps, SendingResults
  <2>2. sending' = rec /\ clock' = "off"
    BY <1>f, <2>1 DEF Finish
  <2>3. rec.outcome = outcome /\ rec.at = "done" /\ rec.socket = FALSE /\ rec.address = sending.address
        /\ rec.looked = sending.looked /\ rec.read = sending.read
    BY <2>1, <1>t DEF Sendings
  <2>4. OutboundTypeOK'
    BY <1>k, <1>f, <1>t, <2>2
  <2> QED
    BY <1>f, <2>2, <2>3, <2>4 DEF OutboundInv, Finished, IsProbe
<1>1. CASE Rename
  <2>1. OutboundTypeOK'
    BY <1>1, <1>t, <1>k DEF Rename
  <2> QED
    BY <1>1, <2>1 DEF Rename, OutboundInv, Finished, IsProbe
<1>2. CASE Start
  <2>1. CASE ~PublicUrl /\ ~IsProbe
    <3>1. Finish(Failure) /\ ~Finished /\ UNCHANGED <<target, names, reply>>
      BY <1>2, <2>1 DEF Start, OutboundInv
    <3> QED
      BY <1>f, <1>r, <1>t, <3>1
  <2>2. CASE ~(~PublicUrl /\ ~IsProbe)
    <3>1. PICK rec \in Sendings : rec = [sending EXCEPT !.at = "lookup"]
      BY <1>t DEF Sendings, Steps
    <3>2. sending' = rec /\ clock' = (IF IsProbe THEN "on" ELSE "off") /\ UNCHANGED <<target, names, reply>>
          /\ sending.at = "start"
      BY <1>2, <2>2, <3>1 DEF Start
    <3>3. rec.at = "lookup" /\ rec.address = sending.address /\ rec.looked = sending.looked
          /\ rec.socket = sending.socket /\ rec.read = sending.read /\ rec.outcome = sending.outcome
      BY <3>1, <1>t DEF Sendings
    <3>4. OutboundTypeOK'
      BY <3>2, <1>t, <1>k
    <3> QED
      BY <3>2, <3>3, <3>4 DEF OutboundInv, Finished, IsProbe
  <2> QED
    BY <2>1, <2>2
<1>3. CASE LookUp
  <2>1. sending.at = "lookup" /\ ~Finished /\ UNCHANGED <<target, names, reply>>
    BY <1>3 DEF LookUp
  <2>2. CASE ~PublicUrl \/ names = {} \/ \E a \in names : ~PublicAddress(a)
    <3>1. Finish(Failure)
      BY <1>3, <2>2 DEF LookUp
    <3> QED
      BY <1>f, <1>r, <1>t, <2>1, <3>1
  <2>3. CASE ~(~PublicUrl \/ names = {} \/ \E a \in names : ~PublicAddress(a))
    <3>1. PICK a \in names :
            sending' = [sending EXCEPT !.at = "connect", !.looked = names, !.address = a]
      BY <1>3, <2>3 DEF LookUp
    <3>2. clock' = "on"
      BY <1>3, <2>3 DEF LookUp
    <3>3. names \subseteq Outside /\ target.url = "name" /\ a # "none"
      BY <2>3, <1>n DEF PublicUrl, PublicAddress
    <3>4. PICK rec \in Sendings : rec = [sending EXCEPT !.at = "connect", !.looked = names, !.address = a]
      BY <1>t DEF Sendings, Steps
    <3>5. rec.at = "connect" /\ rec.address = a /\ rec.looked = names
          /\ rec.socket = sending.socket /\ rec.read = sending.read /\ rec.outcome = sending.outcome
      BY <3>4, <1>t DEF Sendings
    <3>6. sending' = rec
      BY <3>1, <3>4
    <3>7. OutboundTypeOK'
      BY <2>1, <3>2, <3>6, <1>t, <1>k
    <3> QED
      BY <2>1, <3>2, <3>3, <3>5, <3>6, <3>7 DEF OutboundInv, Finished, IsProbe
  <2> QED
    BY <2>2, <2>3
<1>4. CASE LookupFails \/ ConnectionFails
  <2>1. Finish(Failure) /\ ~Finished /\ UNCHANGED <<target, names, reply>>
    BY <1>4 DEF LookupFails, ConnectionFails
  <2> QED
    BY <1>f, <1>r, <1>t, <2>1
<1>5. CASE ResolvedLate
  <2>1. PICK rec \in Sendings : rec = [sending EXCEPT !.at = "done"]
    BY <1>t DEF Sendings, Steps
  <2>2. sending' = rec /\ Finished /\ UNCHANGED <<target, names, reply, clock>> /\ sending.at = "lookup"
    BY <1>5, <2>1 DEF ResolvedLate
  <2>3. rec.at = "done" /\ rec.address = sending.address /\ rec.looked = sending.looked
        /\ rec.socket = sending.socket /\ rec.read = sending.read /\ rec.outcome = sending.outcome
    BY <2>1, <1>t DEF Sendings
  <2>4. OutboundTypeOK'
    BY <2>2, <1>t, <1>k
  <2> QED
    BY <2>2, <2>3, <2>4 DEF OutboundInv, Finished, IsProbe
<1>6. CASE Connect
  <2>1. PICK rec \in Sendings : rec = [sending EXCEPT !.at = "open", !.socket = TRUE]
    BY <1>t DEF Sendings, Steps
  <2>2. sending' = rec /\ sending.at = "connect" /\ UNCHANGED <<target, names, reply, clock>>
    BY <1>6, <2>1 DEF Connect
  <2>3. rec.at = "open" /\ rec.address = sending.address /\ rec.looked = sending.looked
        /\ rec.socket /\ rec.read = sending.read /\ rec.outcome = sending.outcome
    BY <2>1, <1>t DEF Sendings
  <2>4. OutboundTypeOK'
    BY <2>2, <1>t, <1>k
  <2> QED
    BY <2>2, <2>3, <2>4 DEF OutboundInv, Finished, IsProbe
<1>7. CASE Respond
  <2>1. sending.at = "open" /\ reply = Unanswered /\ UNCHANGED <<target, names, sending, clock>>
    BY <1>7 DEF Respond
  <2>2. reply' \in Heads /\ reply'.is = "head" /\ reply'.chunks = 0
    BY <1>7, <1>n DEF Respond, Heads
  <2>3. OutboundTypeOK'
    BY <2>1, <2>2, <1>t, <1>k
  <2>4. ~Finished /\ sending.outcome \notin {"passed", "answered"}
    BY <2>1 DEF OutboundInv, Finished
  <2>5. reply' # Unanswered
    BY <2>2, <1>u
  <2>6. sending' = sending /\ target' = target /\ clock' = clock
    BY <2>1
  <2>7. (reply' # Unanswered /\ ~Finished => reply'.is = "head")
        /\ (reply'.is = "head" => reply'.chunks = 0)
    BY <2>2
  <2>8. sending.read = 0
    BY <2>1, <1>u DEF OutboundInv
  <2> QED
    BY <2>1, <2>3, <2>4, <2>5, <2>6, <2>7, <2>8 DEF OutboundInv, Finished, IsProbe
<1>8. CASE Data
  <2>1. /\ sending.at = "open" /\ reply.is = "head" /\ sending.read < MaxChunks /\ ~Finished
        /\ reply' = [reply EXCEPT !.chunks = @ + 1] /\ UNCHANGED <<target, names>>
    BY <1>8 DEF Data
  <2>2. reply \in Heads /\ reply.chunks = sending.read /\ sending.read \in Nat
    BY <2>1, <1>t, <1>u, <1>n DEF OutboundInv, Sendings
  <2>3. PICK next \in Heads : next = [reply EXCEPT !.chunks = @ + 1]
    BY <2>1, <2>2, <1>n DEF Heads
  <2>4. reply' = next /\ next.is = "head" /\ next.chunks = sending.read + 1
    BY <2>1, <2>2, <2>3 DEF Heads
  <2>5. CASE TooMuch
    <3>1. Finish(Oversized) /\ Oversized \in {"failed", "answered"} /\ (Oversized = "answered" => ~IsProbe)
      BY <1>8, <2>1, <2>5 DEF Data, Finish, Oversized
    <3>2. reply' # Unanswered
      BY <2>4, <1>u
    <3>3. reply' = Unanswered => reply = Unanswered
      BY <3>2
    <3> QED
      BY <1>f, <2>1, <2>4, <3>1, <3>2, <3>3
  <2>6. CASE ~TooMuch
    <3>6. PICK more \in 0 .. MaxChunks : more = sending.read + 1
      BY <2>1, <2>2, <1>n
    <3>7. PICK rec \in Sendings : rec = [sending EXCEPT !.read = more]
      BY <1>t DEF Sendings
    <3>1. rec = [sending EXCEPT !.read = @ + 1]
      BY <3>6, <3>7
    <3>2. sending' = rec /\ clock' = clock
      BY <1>8, <2>6, <3>1 DEF Data
    <3>3. rec.at = "open" /\ rec.address = sending.address /\ rec.looked = sending.looked
          /\ rec.socket = sending.socket /\ rec.read = sending.read + 1 /\ rec.outcome = sending.outcome
      BY <2>1, <3>1, <1>t DEF Sendings
    <3>4. sending.read + 1 <= BodyLimit
      BY <2>2, <2>6, <1>n DEF TooMuch
    <3>5. OutboundTypeOK'
      BY <2>1, <2>4, <3>2, <1>t, <1>k
    <3> QED
      BY <2>1, <2>4, <3>2, <3>3, <3>4, <3>5, <1>u DEF OutboundInv, Finished, IsProbe
  <2> QED
    BY <2>5, <2>6
<1>9. CASE EndOfBody
  <2>1. /\ sending.at = "open" /\ reply.is = "head" /\ ~Finished
        /\ reply' = [reply EXCEPT !.is = "whole"] /\ UNCHANGED <<target, names>>
    BY <1>9 DEF EndOfBody
  <2>2. reply \in Heads /\ reply.chunks = sending.read /\ sending.read <= BodyLimit
    BY <2>1, <1>t, <1>u DEF OutboundInv
  <2>3. PICK next \in Heads : next = [reply EXCEPT !.is = "whole"]
    BY <2>2 DEF Heads
  <2>4. reply' = next /\ next.is = "whole" /\ next.chunks = reply.chunks /\ next.good = reply.good
        /\ next.match = reply.match
    BY <2>1, <2>2, <2>3 DEF Heads
  <2>5. PICK outcome \in {"passed", "failed", "answered", "no answer"} :
          outcome = IF ~IsProbe THEN "answered" ELSE IF CheckPasses THEN "passed" ELSE "failed"
    OBVIOUS
  <2>6. Finish(outcome)
    BY <1>9, <2>5 DEF EndOfBody
  <2>7. outcome = "passed" => IsProbe /\ CheckPasses
    BY <2>5
  <2>8. outcome = "answered" => ~IsProbe
    BY <2>5
  <2>9. reply' # Unanswered
    BY <2>4, <1>u
  <2>10. outcome = "passed" =>
               /\ IsProbe /\ reply'.is = "whole" /\ reply'.chunks <= BodyLimit
               /\ reply'.good /\ (target.probe.json => reply'.match)
    BY <2>2, <2>4, <2>7 DEF CheckPasses
  <2> QED
    BY <1>f, <2>1, <2>4, <2>6, <2>8, <2>9, <2>10
<1>10. CASE Interrupted
  <2>1. /\ sending.at = "open" /\ reply.is = "head" /\ ~Finished
        /\ reply' = [reply EXCEPT !.is = "broken"] /\ UNCHANGED <<target, names>>
    BY <1>10 DEF Interrupted
  <2>2. reply \in Heads
    BY <2>1, <1>t, <1>u
  <2>3. reply' \in Heads
    BY <2>1, <2>2 DEF Heads
  <2>4. PICK outcome \in {"failed", "answered"} : outcome = IF IsProbe THEN "failed" ELSE "answered"
    OBVIOUS
  <2>5. Finish(outcome)
    BY <1>10, <2>4 DEF Interrupted
  <2>6. outcome = "answered" => ~IsProbe /\ reply' # Unanswered
    BY <2>3, <2>4, <1>u
  <2>7. reply' # Unanswered
    BY <2>3, <1>u
  <2> QED
    BY <1>f, <2>1, <2>3, <2>5, <2>6, <2>7
<1>11. CASE TimesOut
  <2>1. ~Finished
    BY <1>11 DEF TimesOut, OutboundInv
  <2>2. PICK at \in {sending.at, "done"} : at = IF sending.at = "lookup" THEN sending.at ELSE "done"
    OBVIOUS
  <2>3. PICK rec \in Sendings : rec = [sending EXCEPT !.outcome = Failure, !.socket = FALSE, !.at = at]
    BY <1>t, <1>r, <2>2 DEF Sendings, Steps, SendingResults
  <2>4. sending' = rec /\ clock' = "over" /\ UNCHANGED <<target, names, reply>> /\ clock = "on"
    BY <1>11, <2>1, <2>2, <2>3 DEF TimesOut
  <2>5. rec.at = at /\ rec.address = sending.address /\ rec.looked = sending.looked
        /\ rec.socket = FALSE /\ rec.read = sending.read /\ rec.outcome = Failure
    BY <2>3, <1>t DEF Sendings
  <2>6. OutboundTypeOK'
    BY <2>4, <1>t, <1>k
  <2>7. at \in {"lookup", "done"} /\ (at = "lookup" => sending.at = "lookup")
    BY <2>2
  <2>8. Failure \notin {"passed", "answered", "none"}
    BY <1>r
  <2> QED
    BY <2>4, <2>5, <2>6, <2>7, <2>8 DEF OutboundInv, Finished, IsProbe
<1>12. CASE UNCHANGED outboundVars
  BY <1>12 DEF outboundVars, OutboundInv, OutboundTypeOK, Finished, IsProbe
<1> QED
  BY <1>1, <1>2, <1>3, <1>4, <1>5, <1>6, <1>7, <1>8, <1>9, <1>10, <1>11, <1>12 DEF OutboundNext

\* The invariant has the types, and only addresses that were checked are asked.
LEMMA OutboundInvSafe == OutboundInv => OutboundTypeOK /\ OutboundSafe
<1> SUFFICES ASSUME OutboundInv PROVE OutboundTypeOK /\ OutboundSafe
  OBVIOUS
<1>1. IsProbe => "host" \notin target.headers
  <2> HAVE IsProbe
  <2>1. target \in Targets
    BY DEF OutboundInv, OutboundTypeOK
  <2>2. target.headers \in {h \in SUBSET Headers : ValidHeaders(h)}
    BY <2>1 DEF IsProbe, Targets
  <2> QED
    BY <2>2 DEF ValidHeaders, HeaderName, Blocked
<1> QED
  BY <1>1 DEF OutboundInv, OutboundSafe, Finished

\* Requests keep the invariant (outbound.ts).
LEMMA OutboundInvariance == OutboundSpec => []OutboundInv
<1> QED
  BY OutboundStart, OutboundStep, PTL DEF OutboundSpec

\* A socket is opened only to an address that was checked, and ends with its request
\* (outbound.ts).
THEOREM OutboundIsSafe == OutboundSpec => [](OutboundTypeOK /\ OutboundSafe)
<1>1. OutboundInv => OutboundTypeOK /\ OutboundSafe
  BY OutboundInvSafe
<1> QED
  BY <1>1, OutboundInvariance, PTL

-----------------------------------------------------------------------------
(* The form of a webhook (HookForm). *)

\* A saved webhook renders whatever it is sent.
SavedOK ==
  savedHook # NoHook =>
    /\ savedHook.events # {} /\ Renders(savedHook.body, savedHook.type, savedHook.events)
    /\ ~savedHook.path => savedHook.value = "none"

\* An open form is of a row, and no different while nobody changed it.
OpenOK ==
  form # NoForm =>
    /\ formOf = NoHook <=> savedHook = NoHook
    /\ formOf = NoHook => form.headers # "keep" /\ form.secret # "keep"
    /\ form.edits = 0 /\ formOf # NoHook => form = FormFor(formOf)

\* The inductive invariant.
FormInv == HookFormTypeOK /\ SavedOK /\ OpenOK

\* A success value that is shown is read back as it was.
LEMMA ShownIsParsed ==
  \A v \in SuccessValues : ShowValue(v) \in FieldTexts /\ ParseValue(ShowValue(v)) = v
<1> SUFFICES ASSUME NEW v \in SuccessValues
             PROVE  ShowValue(v) \in FieldTexts /\ ParseValue(ShowValue(v)) = v
  OBVIOUS
<1>1. CASE v = "none"
  BY <1>1 DEF ShowValue, ParseValue, FieldTexts
<1>2. CASE v = "zero"
  BY <1>2 DEF ShowValue, ParseValue, FieldTexts
<1>3. CASE v = "zero text"
  BY <1>3 DEF ShowValue, ParseValue, FieldTexts
<1>4. CASE v = "ok text"
  BY <1>4 DEF ShowValue, ParseValue, FieldTexts
<1> QED
  BY <1>1, <1>2, <1>3, <1>4 DEF SuccessValues

\* Whatever is typed is read as a success value.
LEMMA ParsedIsValue == \A text \in FieldTexts : ParseValue(text) \in SuccessValues
  BY DEF FieldTexts, SuccessValues, ParseValue

\* No form is open at first.
LEMMA FormStart == HookFormInit => FormInv
  BY DEF HookFormInit, FormInv, HookFormTypeOK, SavedOK, OpenOK

\* A row has a form.
LEMMA FormForRow ==
  ASSUME NEW one \in HookRows
  PROVE  FormFor(one) \in HookForms
<1>1. PICK text \in FieldTexts : text = ShowValue(one.value)
  BY ShownIsParsed DEF HookRows
<1>2. MaxUrl \in Nat \ {0} /\ MaxFormEdits \in Nat
  BY HookFormAssumption
<1>3. FormFor(one) = [edits |-> 0, preset |-> one.preset, url |-> 0, headers |-> "keep", secret |-> "keep",
   type |-> one.type, body |-> one.body, signing |-> one.signing, path |-> one.path,
   text |-> text, events |-> one.events, enabled |-> one.enabled]
  BY <1>1 DEF FormFor
<1> QED
  BY <1>2, <1>3 DEF HookForms, HookRows

\* Every step of a form and of its saving.
LEMMA FormStep == FormInv /\ [HookFormNext]_formVars => FormInv'
<1> SUFFICES ASSUME FormInv, [HookFormNext]_formVars PROVE FormInv'
  OBVIOUS
<1>n. MaxUrl \in Nat \ {0} /\ MaxFormEdits \in Nat /\ Narrow \in EventType
  BY HookFormAssumption
<1>t. savedHook \in HookRows \cup {NoHook} /\ formOf \in HookRows \cup {NoHook} /\ form \in HookForms \cup {NoForm}
  BY DEF FormInv, HookFormTypeOK
<1>h. NoHook \notin HookRows /\ NoForm \notin HookForms
  BY DEF NoHook, HookRows, NoForm, HookForms, Presets
\* One more change of the form.
<1>e. ASSUME NEW f \in HookForms, f.edits = form.edits, Edited(f),
             formOf = NoHook => f.headers # "keep" /\ f.secret # "keep"
      PROVE  FormInv'
  <2>1. form # NoForm /\ form.edits < MaxFormEdits /\ UNCHANGED <<savedHook, formOf>>
    BY <1>e DEF Edited
  <2>2. PICK count \in 0 .. MaxFormEdits : count = f.edits + 1 /\ count # 0
    BY <1>e, <1>n, <2>1 DEF HookForms
  <2>3. PICK next \in HookForms : next = [f EXCEPT !.edits = count]
    BY DEF HookForms
  <2>4. form' = next
    BY <1>e, <2>2, <2>3 DEF Edited
  <2>5. next.edits # 0 /\ next.headers = f.headers /\ next.secret = f.secret
    BY <2>2, <2>3 DEF HookForms
  <2>6. HookFormTypeOK'
    BY <2>1, <2>4, <1>t DEF HookFormTypeOK
  <2>7. SavedOK'
    BY <2>1 DEF FormInv, SavedOK
  <2>8. OpenOK'
    BY <1>e, <2>1, <2>4, <2>5 DEF FormInv, OpenOK
  <2> QED
    BY <2>6, <2>7, <2>8 DEF FormInv
<1>1. CASE OpenForm
  <2>1. form = NoForm /\ formOf' = savedHook /\ UNCHANGED savedHook
    BY <1>1 DEF OpenForm
  <2>2. CASE savedHook = NoHook
    <3>1. form' = NewForm /\ NewForm.headers = "none" /\ NewForm.secret = "none"
      BY <1>1, <2>2 DEF OpenForm, NewForm
    <3>2. NewForm \in HookForms
      BY <1>n DEF NewForm, HookForms, Presets, ContentTypes, Bodies, FieldTexts
    <3> QED
      BY <2>1, <2>2, <3>1, <3>2, <1>t DEF FormInv, HookFormTypeOK, SavedOK, OpenOK
  <2>3. CASE savedHook # NoHook
    <3>1. form' = FormFor(savedHook) /\ savedHook \in HookRows
      BY <1>1, <2>3, <1>t DEF OpenForm
    <3>2. FormFor(savedHook) \in HookForms
      BY <3>1, FormForRow
    <3>3. FormFor(savedHook)' = FormFor(savedHook') /\ savedHook' = savedHook
      BY <2>1 DEF FormFor
    <3>4. HookFormTypeOK'
      BY <2>1, <3>1, <3>2, <1>t DEF HookFormTypeOK
    <3>5. OpenOK'
      BY <2>1, <2>3, <3>1, <3>3 DEF OpenOK
    <3> QED
      BY <2>1, <3>4, <3>5 DEF FormInv, SavedOK
  <2> QED
    BY <2>2, <2>3
<1>2. CASE CancelForm
  BY <1>2, <1>t DEF CancelForm, FormInv, HookFormTypeOK, SavedOK, OpenOK
<1>3. CASE SaveForm
  <2>1. form # NoForm /\ form \in HookForms
    BY <1>3, <1>t DEF SaveForm
  <2>2. PICK value \in SuccessValues : value = IF form.path THEN ParseValue(form.text) ELSE "none"
    BY <2>1, ParsedIsValue DEF HookForms, SuccessValues
  <2>3. PICK typed : typed = [form EXCEPT !.text = value]
    OBVIOUS
  <2>4. Input(form) = typed
    BY <2>2, <2>3 DEF Input
  <2>5. /\ typed.edits = form.edits /\ typed.preset = form.preset /\ typed.url = form.url
        /\ typed.headers = form.headers /\ typed.secret = form.secret /\ typed.type = form.type
        /\ typed.body = form.body /\ typed.signing = form.signing /\ typed.path = form.path
        /\ typed.text = value /\ typed.events = form.events /\ typed.enabled = form.enabled
    BY <2>1, <2>3 DEF HookForms
  <2>6. FormValid(typed, formOf = NoHook) /\ savedHook' = FormWritten(typed, savedHook)
        /\ form' = NoForm /\ formOf' = NoHook
    BY <1>3, <2>4 DEF SaveForm
  <2>7. typed.events # {} /\ Renders(typed.body, typed.type, typed.events)
        /\ (formOf = NoHook => typed.url # 0)
    BY <2>6 DEF FormValid
  <2>8. formOf = NoHook <=> savedHook = NoHook
    BY <2>1 DEF FormInv, OpenOK
  <2>9. PICK url \in 1 .. MaxUrl : url = IF typed.url # 0 THEN typed.url ELSE savedHook.url
    <3>1. CASE typed.url # 0
      BY <3>1, <2>1, <2>5, <1>n DEF HookForms
    <3>2. CASE typed.url = 0
      <4>1. savedHook \in HookRows
        BY <3>2, <2>7, <2>8, <1>t
      <4> QED
        BY <3>2, <4>1 DEF HookRows
    <3> QED
      BY <3>1, <3>2
  <2>10. PICK headers \in {0, 1} : headers = IF typed.headers = "keep" THEN savedHook.headers
               ELSE IF typed.headers = "some" THEN 1 ELSE 0
    <3>1. typed.headers = "keep" => savedHook \in HookRows
      BY <2>1, <2>5, <2>8, <1>t DEF FormInv, OpenOK
    <3> QED
      BY <3>1 DEF HookRows
  <2>11. PICK secret \in {0, 1} : secret = IF typed.secret = "keep" THEN savedHook.secret
              ELSE IF typed.secret = "new" THEN 1 ELSE 0
    <3>1. typed.secret = "keep" => savedHook \in HookRows
      BY <2>1, <2>5, <2>8, <1>t DEF FormInv, OpenOK
    <3> QED
      BY <3>1 DEF HookRows
  <2>12. PICK gave \in SuccessValues : gave = IF typed.path THEN typed.text ELSE "none"
    BY <2>5 DEF SuccessValues
  <2>13. PICK one \in HookRows :
           one = [preset |-> typed.preset, url |-> url, headers |-> headers, secret |-> secret,
                  type |-> typed.type, body |-> typed.body, signing |-> typed.signing,
                  path |-> typed.path, value |-> gave, events |-> typed.events, enabled |-> typed.enabled]
    BY <2>1, <2>5 DEF HookRows, HookForms
  <2>14. FormWritten(typed, savedHook) = one
    BY <2>9, <2>10, <2>11, <2>12, <2>13 DEF FormWritten
  <2>15. savedHook' = one
    BY <2>6, <2>14
  <2>16. one.events = typed.events /\ one.body = typed.body /\ one.type = typed.type
         /\ one.path = typed.path /\ one.value = gave
    BY <2>13
  <2>17. HookFormTypeOK'
    BY <2>6, <2>15 DEF HookFormTypeOK
  <2>18. SavedOK'
    BY <2>7, <2>12, <2>15, <2>16 DEF SavedOK, Renders
  <2> QED
    BY <2>6, <2>17, <2>18 DEF FormInv, OpenOK
<1>4. CASE ReceiverGone
  <2>1. PICK one \in HookRows : one = savedHook /\ savedHook # NoHook
    BY <1>4, <1>t DEF ReceiverGone
  <2>2. PICK next \in HookRows : next = [one EXCEPT !.enabled = FALSE]
    BY DEF HookRows
  <2>3. savedHook' = next /\ UNCHANGED <<form, formOf>>
    BY <1>4, <2>1, <2>2 DEF ReceiverGone
  <2>4. next.events = one.events /\ next.body = one.body /\ next.type = one.type
        /\ next.path = one.path /\ next.value = one.value
    BY <2>2 DEF HookRows
  <2>5. next # NoHook
    BY <1>h
  <2>6. SavedOK'
    BY <2>1, <2>3, <2>4 DEF FormInv, SavedOK, Renders
  <2>7. OpenOK'
    BY <2>1, <2>3, <2>5 DEF FormInv, OpenOK, FormFor
  <2> QED
    BY <2>3, <2>6, <2>7, <1>t DEF FormInv, HookFormTypeOK
<1>f. form # NoForm => form \in HookForms /\ (formOf = NoHook => form.headers # "keep" /\ form.secret # "keep")
  BY <1>t DEF FormInv, OpenOK
<1>5. ASSUME NEW p \in Presets, ChoosePreset(p) PROVE FormInv'
  <2>1. form # NoForm /\ form \in HookForms
    BY <1>5, <1>f DEF ChoosePreset, Edited
  <2>2. CASE p = "custom"
    <3>1. PICK f \in HookForms : f = [form EXCEPT !.preset = p]
      BY <2>1 DEF HookForms
    <3>2. f.edits = form.edits /\ f.headers = form.headers /\ f.secret = form.secret
      BY <2>1, <3>1 DEF HookForms
    <3>3. Edited(f)
      BY <1>5, <2>2, <3>1 DEF ChoosePreset
    <3>4. formOf = NoHook => f.headers # "keep" /\ f.secret # "keep"
      BY <1>f, <2>1, <3>2
    <3> QED
      BY <1>e, <3>2, <3>3, <3>4
  <2>3. CASE p # "custom"
    <3>1. PICK signing \in {"lark", "ship"} : signing = IF p = "lark" THEN "lark" ELSE "ship"
      OBVIOUS
    <3>2. PICK path \in BOOLEAN : path = (p = "lark")
      OBVIOUS
    <3>3. PICK text \in FieldTexts : text = IF p = "lark" THEN "0" ELSE ""
      BY DEF FieldTexts
    <3>4. PICK secret \in {"keep", "none", "new", "remove"} : secret = IF formOf = NoHook THEN "none" ELSE form.secret
      BY <2>1 DEF HookForms
    <3>5. PICK f \in HookForms :
            f = [form EXCEPT !.preset = p, !.type = "json", !.body = "preset", !.signing = signing,
                             !.path = path, !.text = text, !.secret = secret]
      BY <2>1 DEF HookForms, ContentTypes, Bodies
    <3>6. f.edits = form.edits /\ f.headers = form.headers /\ f.secret = secret
      BY <2>1, <3>5 DEF HookForms
    <3>7. Edited([form EXCEPT !.preset = p, !.type = "json", !.body = "preset",
                           !.signing = IF p = "lark" THEN "lark" ELSE "ship",
                           !.path = (p = "lark"), !.text = IF p = "lark" THEN "0" ELSE "",
                           !.secret = IF formOf = NoHook THEN "none" ELSE form.secret])
      BY <1>5, <2>3 DEF ChoosePreset
    <3>8. Edited(f)
      BY <3>7, <3>1, <3>2, <3>3, <3>4, <3>5
    <3>9. formOf = NoHook => f.headers # "keep" /\ f.secret # "keep"
      BY <1>f, <2>1, <3>4, <3>6
    <3> QED
      BY <1>e, <3>6, <3>8, <3>9
  <2> QED
    BY <2>2, <2>3
<1>6. ASSUME NEW b \in Bodies, EditBody(b) PROVE FormInv'
  <2>1. form # NoForm /\ form \in HookForms
    BY <1>6, <1>f DEF EditBody, Edited
  <2>2. PICK preset \in Presets : preset = IF b = "preset" THEN form.preset ELSE "custom"
    BY <2>1 DEF HookForms, Presets
  <2>3. PICK f \in HookForms : f = [form EXCEPT !.body = b, !.preset = preset]
    BY <2>1 DEF HookForms
  <2>4. f.edits = form.edits /\ f.headers = form.headers /\ f.secret = form.secret
    BY <2>1, <2>3 DEF HookForms
  <2>5. Edited(f)
    BY <1>6, <2>2, <2>3 DEF EditBody
  <2>6. formOf = NoHook => f.headers # "keep" /\ f.secret # "keep"
    BY <1>f, <2>1, <2>4
  <2> QED
    BY <1>e, <2>4, <2>5, <2>6
<1>7. ASSUME NEW x, \/ (EditType(x) /\ x \in ContentTypes) \/ (EditUrl(x) /\ x \in 1 .. MaxUrl)
                    \/ (EditPath(x) /\ x \in BOOLEAN) \/ (EditEnabled(x) /\ x \in BOOLEAN)
                    \/ (EditValue(x) /\ x \in FieldTexts)
      PROVE  FormInv'
  <2>1. form # NoForm /\ form \in HookForms
    BY <1>7, <1>f DEF EditType, EditUrl, EditPath, EditEnabled, EditValue, Edited
  <2>2. PICK f \in HookForms : Edited(f) /\ f \in
          {[form EXCEPT !.type = x], [form EXCEPT !.url = x], [form EXCEPT !.path = x],
           [form EXCEPT !.enabled = x], [form EXCEPT !.text = x]}
    <3>1. CASE EditType(x) /\ x \in ContentTypes
      BY <3>1, <2>1 DEF EditType, HookForms
    <3>2. CASE EditUrl(x) /\ x \in 1 .. MaxUrl
      <4>1. x \in 0 .. MaxUrl
        BY <3>2, <1>n
      <4> QED
        BY <3>2, <4>1, <2>1 DEF EditUrl, HookForms
    <3>3. CASE EditPath(x) /\ x \in BOOLEAN
      BY <3>3, <2>1 DEF EditPath, HookForms
    <3>4. CASE EditEnabled(x) /\ x \in BOOLEAN
      BY <3>4, <2>1 DEF EditEnabled, HookForms
    <3>5. CASE EditValue(x) /\ x \in FieldTexts
      BY <3>5, <2>1 DEF EditValue, HookForms
    <3> QED
      BY <1>7, <3>1, <3>2, <3>3, <3>4, <3>5
  <2>3. f.edits = form.edits /\ f.headers = form.headers /\ f.secret = form.secret
    BY <2>1, <2>2 DEF HookForms
  <2>4. formOf = NoHook => f.headers # "keep" /\ f.secret # "keep"
    BY <1>f, <2>1, <2>3
  <2> QED
    BY <1>e, <2>2, <2>3, <2>4
<1>8. ASSUME NEW h \in {"none", "some"}, EditHeaders(h) PROVE FormInv'
  <2>1. form # NoForm /\ form \in HookForms
    BY <1>8, <1>f DEF EditHeaders, Edited
  <2>2. PICK f \in HookForms : f = [form EXCEPT !.headers = h]
    BY <2>1 DEF HookForms
  <2>3. f.edits = form.edits /\ f.headers = h /\ f.secret = form.secret
    BY <2>1, <2>2 DEF HookForms
  <2>4. Edited(f)
    BY <1>8, <2>2 DEF EditHeaders
  <2>5. formOf = NoHook => f.headers # "keep" /\ f.secret # "keep"
    BY <1>f, <2>1, <2>3
  <2> QED
    BY <1>e, <2>3, <2>4, <2>5
<1>9. ASSUME NEW s \in {"new", "keep", "none", "remove"}, EditSecret(s) PROVE FormInv'
  <2>1. form # NoForm /\ form \in HookForms
    BY <1>9, <1>f DEF EditSecret, Edited
  <2>2. PICK f \in HookForms : f = [form EXCEPT !.secret = s]
    BY <2>1 DEF HookForms
  <2>3. f.edits = form.edits /\ f.headers = form.headers /\ f.secret = s
    BY <2>1, <2>2 DEF HookForms
  <2>4. Edited(f)
    BY <1>9, <2>2 DEF EditSecret
  <2>5. formOf = NoHook => f.headers # "keep" /\ f.secret # "keep"
    <3>1. formOf = NoHook => s # "keep"
      BY <1>9 DEF EditSecret
    <3> QED
      BY <1>f, <2>1, <2>3, <3>1
  <2> QED
    BY <1>e, <2>3, <2>4, <2>5
<1>10. ASSUME NEW e \in EventType, Toggle(e) PROVE FormInv'
  <2>1. form # NoForm /\ form \in HookForms
    BY <1>10, <1>f DEF Toggle, Edited
  <2>2. PICK events \in SUBSET EventType : events = IF e \in form.events THEN form.events \ {e} ELSE form.events \cup {e}
    BY <2>1 DEF HookForms
  <2>3. PICK f \in HookForms : f = [form EXCEPT !.events = events]
    BY <2>1 DEF HookForms
  <2>4. f.edits = form.edits /\ f.headers = form.headers /\ f.secret = form.secret
    BY <2>1, <2>3 DEF HookForms
  <2>5. Edited(f)
    BY <1>10, <2>2, <2>3 DEF Toggle
  <2>6. formOf = NoHook => f.headers # "keep" /\ f.secret # "keep"
    BY <1>f, <2>1, <2>4
  <2> QED
    BY <1>e, <2>4, <2>5, <2>6
<1>11. CASE UNCHANGED formVars
  BY <1>11 DEF formVars, FormInv, HookFormTypeOK, SavedOK, OpenOK, Renders, FormFor
<1>12. /\ (\E t \in ContentTypes : EditType(t)) => FormInv'
       /\ (\E u \in 1 .. MaxUrl : EditUrl(u)) => FormInv'
       /\ (\E on \in BOOLEAN : EditPath(on) \/ EditEnabled(on)) => FormInv'
       /\ (\E text \in FieldTexts : EditValue(text)) => FormInv'
  BY <1>7
<1> QED
  BY <1>1, <1>2, <1>3, <1>4, <1>5, <1>6, <1>8, <1>9, <1>10, <1>11, <1>12 DEF HookFormNext

\* The invariant has the types, and a form gives back what it was given.
LEMMA FormInvSafe == FormInv => HookFormTypeOK /\ FormSafe
<1> SUFFICES ASSUME FormInv PROVE HookFormTypeOK /\ FormSafe
  OBVIOUS
<1>1. SavedRenders
  BY DEF SavedRenders, FormInv, SavedOK
<1>2. ASSUME form # NoForm, form.edits = 0, savedHook # NoHook, formOf = savedHook
      PROVE  FormValid(Input(form), FALSE) /\ FormWritten(Input(form), savedHook) = savedHook
  <2>1. savedHook \in HookRows
    BY <1>2 DEF FormInv, HookFormTypeOK
  <2>2. form = FormFor(savedHook)
    BY <1>2 DEF FormInv, OpenOK
  <2>3. savedHook.events # {} /\ Renders(savedHook.body, savedHook.type, savedHook.events)
        /\ (~savedHook.path => savedHook.value = "none")
    BY <1>2 DEF FormInv, SavedOK
  <2>4. PICK one \in HookRows : one = savedHook
    BY <2>1
  <2>5. one.value \in SuccessValues /\ ParseValue(ShowValue(one.value)) = one.value
    BY ShownIsParsed DEF HookRows
  <2>6. PICK value : value = IF one.path THEN one.value ELSE "none"
    OBVIOUS
  <2>7. value = one.value
    BY <2>3, <2>4, <2>6
  <2>8. Input(form) = [edits |-> 0, preset |-> one.preset, url |-> 0, headers |-> "keep", secret |-> "keep",
          type |-> one.type, body |-> one.body, signing |-> one.signing, path |-> one.path,
          text |-> value, events |-> one.events, enabled |-> one.enabled]
    BY <2>2, <2>4, <2>5, <2>6 DEF Input, FormFor
  <2>12. Input(form).events = one.events /\ Input(form).body = one.body /\ Input(form).type = one.type
    BY <2>8
  <2>9. FormValid(Input(form), FALSE)
    BY <2>3, <2>4, <2>12 DEF FormValid
  <2>10. FormWritten(Input(form), savedHook) =
           [preset |-> one.preset, url |-> one.url, headers |-> one.headers, secret |-> one.secret,
            type |-> one.type, body |-> one.body, signing |-> one.signing,
            path |-> one.path, value |-> one.value, events |-> one.events, enabled |-> one.enabled]
    BY <2>4, <2>6, <2>7, <2>8 DEF FormWritten
  <2>11. one = [preset |-> one.preset, url |-> one.url, headers |-> one.headers, secret |-> one.secret,
            type |-> one.type, body |-> one.body, signing |-> one.signing,
            path |-> one.path, value |-> one.value, events |-> one.events, enabled |-> one.enabled]
    BY DEF HookRows
  <2> QED
    BY <2>4, <2>9, <2>10, <2>11
<1>3. UntouchedKeeps
  BY <1>2 DEF UntouchedKeeps
<1> QED
  BY <1>1, <1>3 DEF FormInv, FormSafe

\* Forms keep the invariant (WebhooksPage.tsx).
LEMMA FormInvariance == HookFormSpec => []FormInv
<1> QED
  BY FormStart, FormStep, PTL DEF HookFormSpec

\* A form gives back what it was given, and saves what can be sent (WebhooksPage.tsx).
THEOREM FormsAreSafe == HookFormSpec => [](HookFormTypeOK /\ FormSafe)
<1>1. FormInv => HookFormTypeOK /\ FormSafe
  BY FormInvSafe
<1> QED
  BY <1>1, FormInvariance, PTL

-----------------------------------------------------------------------------
(* The Webhooks page (WebhookConsole). *)

\* The table and what it had: every address and secret is issued once.
TableOK ==
  /\ held \in [HookNo -> Kept \cup {NoHookYet, HookGone}] /\ had \in [HookNo -> SUBSET Kept]
  /\ token \in Issuable /\ issued \in Issuable /\ token <= issued
  /\ \A h \in HookNo : held[h] = NoHookYet => had[h] = {}
  /\ \A h \in HookNo : held[h] \in Kept =>
       /\ held[h] \in had[h]
       /\ \A one \in had[h] : /\ one.url <= held[h].url
                              /\ held[h].secret = 0 \/ one.secret <= held[h].secret
  /\ \A h \in HookNo : \A one \in had[h] : one.url # 0 /\ one.url <= issued /\ one.secret <= issued
  /\ \A h, g \in HookNo : h # g => \A one \in had[h], other \in had[g] : one.url # other.url

\* What is asked of the server is about rows it had.
OrderOK ==
  order # NoOrder =>
    /\ order \in HookOrders
    /\ order.kind = "rotate" => order.of = NewOne
    /\ order.kind = "remove" => order.of # NewOne
    /\ order.kind = "save" /\ order.of = NewOne /\ order.step \in {"sent", "checked"} =>
         order.url /\ order.mode # "remove"
    /\ order.secret # 0 =>
         /\ order.step \in {"stored", "answered"}
         /\ IF order.kind = "rotate" THEN order.secret <= token
            ELSE order.of # NewOne /\ \E one \in had[order.of] : one.secret = order.secret

\* What is revealed was stored as that.
RevealOK ==
  reveal # NothingShown =>
    /\ reveal \in Reveals
    /\ IF reveal.of = NewOne THEN reveal.value \in 1 .. token
       ELSE \E one \in had[reveal.of] : one.secret = reveal.value

\* What is tested was stored as that.
TrialOK ==
  trial # NoTrial =>
    /\ trial \in Trials
    /\ trial.result # NothingShown => trial.result \in had[trial.of]
    /\ trial.step = "sent" => trial.with \in had[trial.of]

\* The dialog is busy with what was asked.
EditorOK ==
  /\ right \in {"manage", "sign in", "nothing"}
  /\ editor \in [open : BOOLEAN, of : {NewOne} \cup HookNo, busy : BOOLEAN]
  /\ editor.busy => order # NoOrder /\ order.heard /\ order.kind \in {"save", "remove"}

\* The inductive invariant.
ConsoleInv == TableOK /\ OrderOK /\ RevealOK /\ TrialOK /\ EditorOK

\* What has been stored stays in the history, and the endpoint's tokens are counted up.
Grows == (\A h \in HookNo : had[h] \subseteq had'[h]) /\ token <= token' /\ token' \in Nat

\* The bounds of the page, and its marks.
LEMMA ConsoleNumbers ==
  /\ NumHooks \in Nat \ {0} /\ MaxIssued \in Nat /\ HookNo \subseteq Nat \ {0} /\ NewOne = 0 /\ NewOne \notin HookNo
  /\ NoHookYet \notin Kept /\ HookGone \notin Kept /\ NoHookYet # HookGone
  /\ NothingShown \notin Kept /\ NoOrder \notin HookOrders /\ NoTrial \notin Trials /\ NothingShown \notin Reveals
  /\ Issuable \subseteq Nat
<1>1. NumHooks \in Nat \ {0} /\ MaxIssued \in Nat
  BY ConsoleAssumption
<1>2. HookNo \subseteq Nat \ {0} /\ NewOne = 0 /\ NewOne \notin HookNo /\ Issuable \subseteq Nat
  BY <1>1 DEF HookNo, NewOne, Issuable
<1>3. NoHookYet \notin Kept /\ HookGone \notin Kept /\ NoHookYet # HookGone
  BY DEF NoHookYet, HookGone, Kept
<1>4. NothingShown \notin Kept /\ NoOrder \notin HookOrders /\ NoTrial \notin Trials /\ NothingShown \notin Reveals
  BY DEF NothingShown, Kept, NoOrder, HookOrders, NoTrial, Trials, Reveals
<1> QED
  BY <1>1, <1>2, <1>3, <1>4

\* The page has nothing at first.
LEMMA ConsoleStart == ConsoleInit => ConsoleInv
<1> SUFFICES ASSUME ConsoleInit PROVE ConsoleInv
  OBVIOUS
<1>1. 0 \in Issuable
  BY ConsoleNumbers DEF Issuable
<1>2. TableOK
  BY <1>1, ConsoleNumbers DEF ConsoleInit, TableOK
<1>3. EditorOK
  BY DEF ConsoleInit, EditorOK, Shut
<1> QED
  BY <1>2, <1>3 DEF ConsoleInit, ConsoleInv, OrderOK, RevealOK, TrialOK

\* The invariant has the types and what the page promises.
LEMMA ConsoleInvSafe == ConsoleInv => ConsoleTypeOK /\ ConsoleSafe
<1> SUFFICES ASSUME ConsoleInv PROVE ConsoleTypeOK /\ ConsoleSafe
  OBVIOUS
<1>1. ConsoleTypeOK
  BY DEF ConsoleInv, TableOK, OrderOK, RevealOK, TrialOK, EditorOK, ConsoleTypeOK
<1>2. \A h \in Standing : held[h] \in Kept /\ h \in HookNo
  BY DEF ConsoleInv, TableOK, Standing
<1>3. ASSUME NEW h \in Standing
      PROVE  /\ held[h].url # 0
             /\ \A one \in had[h] :
                  /\ one.url <= held[h].url
                  /\ held[h].secret \in {0} \cup {v \in Issuable : one.secret <= v}
             /\ \A g \in HookNo \ {h} : \A one \in had[g] : one.url # held[h].url
  BY <1>2 DEF ConsoleInv, TableOK, Kept
<1> QED
  BY <1>1, <1>3 DEF ConsoleInv, OrderOK, RevealOK, TrialOK, EditorOK, ConsoleSafe

\* What a saving puts into the table.
LEMMA PutStep ==
  ASSUME NEW h \in HookNo, NEW one \in Kept, TableOK, Put(h, one), token' = token,
         held[h] \in Kept \cup {NoHookYet}, issued + 2 <= MaxIssued,
         one.url = issued + 1 \/ (held[h] \in Kept /\ one.url = held[h].url),
         one.secret \in {0, issued + 2} \/ (held[h] \in Kept /\ one.secret = held[h].secret)
  PROVE  TableOK' /\ Grows /\ one \in had'[h]
<1>t. /\ held \in [HookNo -> Kept \cup {NoHookYet, HookGone}] /\ had \in [HookNo -> SUBSET Kept]
      /\ token \in Issuable /\ issued \in Issuable /\ token <= issued /\ issued \in Nat /\ token \in Nat
      /\ MaxIssued \in Nat /\ \A r \in Kept : r.url \in Nat /\ r.secret \in Nat
  BY ConsoleNumbers DEF TableOK, Kept
<1>1. /\ held' = [held EXCEPT ![h] = one]
      /\ had' = [had EXCEPT ![h] = @ \cup {one}]
      /\ issued' = CHOOSE v \in {issued, one.url, one.secret} :
                     \A w \in {issued, one.url, one.secret} : w <= v
  BY DEF Put
<1>2. \E v \in {issued, one.url, one.secret} : \A w \in {issued, one.url, one.secret} : w <= v
  <2>1. issued \in Nat /\ one.url \in Nat /\ one.secret \in Nat
    BY <1>t
  <2> QED
    BY <2>1
<1>3. issued' \in {issued, one.url, one.secret} /\ issued <= issued' /\ one.url <= issued' /\ one.secret <= issued'
  BY <1>1, <1>2
<1>4. issued' \in Issuable /\ issued' \in Nat
  BY <1>3, <1>t DEF Kept
<1>5. held'[h] = one /\ had'[h] = had[h] \cup {one}
      /\ \A g \in HookNo \ {h} : held'[g] = held[g] /\ had'[g] = had[g]
  BY <1>1, <1>t
<1>6. held' \in [HookNo -> Kept \cup {NoHookYet, HookGone}] /\ had' \in [HookNo -> SUBSET Kept]
  BY <1>1, <1>t
<1>7. \A g \in HookNo : \A r \in had[g] : r \in Kept /\ r.url # 0 /\ r.url <= issued /\ r.secret <= issued
                                        /\ r.url \in Nat /\ r.secret \in Nat
  BY <1>t DEF TableOK
<1>8. \A g \in HookNo : held[g] \in Kept =>
        /\ held[g] \in had[g]
        /\ \A r \in had[g] : r.url <= held[g].url /\ (held[g].secret = 0 \/ r.secret <= held[g].secret)
  BY DEF TableOK
<1>9. held[h] \notin Kept => had[h] = {}
  BY DEF TableOK
<1>10. one.url # 0 /\ one.url \in Nat /\ one.secret \in Nat
  BY <1>t, <1>7, <1>8
<1>11. \A r \in had[h] : r.url <= one.url /\ (one.secret = 0 \/ r.secret <= one.secret)
  <2> TAKE r \in had[h]
  <2>1. held[h] \in Kept
    BY <1>9
  <2>2. r.url <= issued /\ r.secret <= issued /\ r.url \in Nat /\ r.secret \in Nat
    BY <1>7
  <2>3. r.url <= held[h].url /\ (held[h].secret = 0 \/ r.secret <= held[h].secret)
    BY <1>8, <2>1
  <2> QED
    BY <2>2, <2>3, <1>t, <1>10
<1>12. \A g \in HookNo \ {h} : \A r \in had[g] : r.url # one.url
  <2> TAKE g \in HookNo \ {h}
  <2> TAKE r \in had[g]
  <2>1. CASE one.url = issued + 1
    BY <2>1, <1>7, <1>t
  <2>2. CASE held[h] \in Kept /\ one.url = held[h].url
    BY <2>2, <1>8 DEF TableOK
  <2> QED
    BY <2>1, <2>2
<1>13. \A g \in HookNo : held'[g] \in Kept =>
        /\ held'[g] \in had'[g]
        /\ \A r \in had'[g] : r.url <= held'[g].url /\ (held'[g].secret = 0 \/ r.secret <= held'[g].secret)
  <2> TAKE g \in HookNo
  <2>1. CASE g = h
    BY <2>1, <1>5, <1>10, <1>11
  <2>2. CASE g # h
    BY <2>2, <1>5, <1>8
  <2> QED
    BY <2>1, <2>2
<1>14. \A g \in HookNo : \A r \in had'[g] : r.url # 0 /\ r.url <= issued' /\ r.secret <= issued'
  <2> TAKE g \in HookNo
  <2> TAKE r \in had'[g]
  <2>1. CASE r \in had[g]
    BY <2>1, <1>3, <1>4, <1>7, <1>t
  <2>2. CASE r = one
    BY <2>2, <1>3, <1>10
  <2> QED
    BY <2>1, <2>2, <1>5
<1>15. \A g \in HookNo : held'[g] = NoHookYet => had'[g] = {}
  BY <1>5, ConsoleNumbers DEF TableOK
<1>16. \A f, g \in HookNo : f # g => \A r \in had'[f], q \in had'[g] : r.url # q.url
  BY <1>5, <1>12 DEF TableOK
<1>17. token' \in Issuable /\ token' <= issued'
  BY <1>3, <1>4, <1>t
<1>18. TableOK'
  BY <1>4, <1>6, <1>13, <1>14, <1>15, <1>16, <1>17 DEF TableOK
<1> QED
  BY <1>5, <1>18, <1>t DEF Grows

\* A table that grows keeps what has been asked of it.
LEMMA GrowsKeeps ==
  ASSUME ConsoleInv, Grows
  PROVE  /\ UNCHANGED order => OrderOK'
         /\ UNCHANGED reveal => RevealOK'
         /\ UNCHANGED trial => TrialOK'
<1>t. token \in Nat /\ token' \in Nat /\ token <= token'
  BY ConsoleNumbers DEF ConsoleInv, TableOK, Grows
<1>1. UNCHANGED order => OrderOK'
  <2> HAVE UNCHANGED order
  <2>1. order # NoOrder => order \in HookOrders /\ order.secret \in Nat /\ order.of \in {NewOne} \cup HookNo
    BY ConsoleNumbers DEF ConsoleInv, OrderOK, HookOrders
  <2> QED
    BY <1>t, <2>1 DEF ConsoleInv, OrderOK, Grows
<1>2. UNCHANGED reveal => RevealOK'
  <2> HAVE UNCHANGED reveal
  <2>1. reveal # NothingShown => reveal.of \in {NewOne} \cup HookNo
    BY DEF ConsoleInv, RevealOK, Reveals
  <2> QED
    BY <1>t, <2>1 DEF ConsoleInv, RevealOK, Grows
<1>3. UNCHANGED trial => TrialOK'
  <2> HAVE UNCHANGED trial
  <2>1. trial # NoTrial => trial.of \in HookNo
    BY DEF ConsoleInv, TrialOK, Trials
  <2> QED
    BY <2>1 DEF ConsoleInv, TrialOK, Grows
<1> QED
  BY <1>1, <1>2, <1>3

\* Every step of the page and of the table.
LEMMA ConsoleStep == ConsoleInv /\ [ConsoleNext]_consoleVars => ConsoleInv'
<1> SUFFICES ASSUME ConsoleInv, [ConsoleNext]_consoleVars PROVE ConsoleInv'
  OBVIOUS
<1> USE ConsoleNumbers
<1>t. token \in Nat /\ issued \in Nat /\ token <= issued /\ issued <= MaxIssued
  BY DEF ConsoleInv, TableOK, Issuable
<1>z. 0 \in Issuable
  BY DEF Issuable
<1>q. order # NoOrder => order \in HookOrders
  BY DEF ConsoleInv, OrderOK
<1>p. NoOrder.step = "none" /\ \A o \in HookOrders : o.step # "none"
  BY DEF NoOrder, HookOrders
<1>s. UNCHANGED <<held, had, token>> => Grows
  BY <1>t DEF Grows
<1>k. UNCHANGED hookTable => TableOK' /\ Grows
  BY <1>t DEF hookTable, ConsoleInv, TableOK, Grows
<1>e. UNCHANGED <<right, editor, order>> => EditorOK'
  BY DEF ConsoleInv, EditorOK
\* A dialog's step.
<1>d. ASSUME UNCHANGED hookTable, OrderOK', RevealOK', TrialOK', EditorOK'
      PROVE  ConsoleInv'
  BY <1>d, <1>k DEF ConsoleInv
<1>w. \A h \in Standing : held[h] \in Kept /\ h \in HookNo
  BY DEF ConsoleInv, TableOK, Standing
<1>x. \A h \in HookNo \ Standing : held[h] \notin Kept
  BY DEF Standing
\* A refusal.
<1>r. ASSUME RefuseOrder, order # NoOrder, Grows
      PROVE  OrderOK' /\ (UNCHANGED <<right, editor>> => EditorOK')
  <2>1. CASE ~order.heard
    BY <1>r, <2>1 DEF RefuseOrder, OrderOK, ConsoleInv, EditorOK
  <2>2. CASE order.heard
    <3>1. PICK o \in HookOrders : o = [order EXCEPT !.step = "failed", !.url = FALSE, !.mode = "keep", !.secret = 0]
      BY <1>r, <1>q, <1>z DEF HookOrders, SecretModes
    <3>2. order' = o
      BY <1>r, <2>2, <3>1 DEF RefuseOrder
    <3>3. o.step = "failed" /\ o.secret = 0 /\ o.kind = order.kind /\ o.of = order.of /\ o.heard = order.heard
      BY <1>r, <1>q, <3>1 DEF HookOrders
    <3>4. o # NoOrder
      OBVIOUS
    <3>5. OrderOK'
      BY <1>r, <3>2, <3>3 DEF OrderOK, ConsoleInv
    <3> QED
      BY <1>r, <3>2, <3>3, <3>4, <3>5 DEF ConsoleInv, EditorOK
  <2> QED
    BY <2>1, <2>2
\* An order that moves on, with what it is about as it was.
<1>a. ASSUME NEW step \in {"checked", "answered"}, Advance(step), order # NoOrder, Grows,
             step = "checked" => order.step = "sent",
             step = "answered" => (order.secret # 0 => order.step = "stored")
      PROVE  OrderOK' /\ (UNCHANGED <<right, editor>> => EditorOK')
  <2>1. PICK o \in HookOrders : o = [order EXCEPT !.step = step]
    BY <1>a, <1>q DEF HookOrders
  <2>2. order' = o /\ o # NoOrder
    BY <1>a, <2>1 DEF Advance
  <2>3. /\ o.step = step /\ o.secret = order.secret /\ o.kind = order.kind /\ o.of = order.of
        /\ o.heard = order.heard /\ o.url = order.url /\ o.mode = order.mode
    BY <1>a, <1>q, <2>1 DEF HookOrders
  <2>4. order.secret \in Nat /\ order.of \in {NewOne} \cup HookNo
    BY <1>a, <1>q DEF HookOrders
  <2>5. o.secret # 0 =>
          /\ o.step \in {"stored", "answered"}
          /\ IF o.kind = "rotate" THEN o.secret <= token'
             ELSE o.of # NewOne /\ \E one \in had'[o.of] : one.secret = o.secret
    <3> HAVE o.secret # 0
    <3>1. /\ order.step = "stored" \/ order.step = "answered"
          /\ IF order.kind = "rotate" THEN order.secret <= token
             ELSE order.of # NewOne /\ \E one \in had[order.of] : one.secret = order.secret
      BY <1>a, <2>3 DEF ConsoleInv, OrderOK
    <3>2. o.step = "answered"
      BY <1>a, <2>3, <3>1
    <3>3. CASE order.kind = "rotate"
      BY <1>a, <1>t, <2>3, <2>4, <3>1, <3>2, <3>3 DEF Grows
    <3>4. CASE order.kind # "rotate"
      <4>1. PICK one \in had[order.of] : one.secret = order.secret
        BY <3>1, <3>4
      <4>2. one \in had'[order.of] /\ order.of # NewOne
        BY <1>a, <2>4, <3>1, <3>4, <4>1 DEF Grows
      <4> QED
        BY <2>3, <3>2, <3>4, <4>1, <4>2
    <3> QED
      BY <3>3, <3>4
  <2>6. OrderOK'
    BY <1>a, <2>2, <2>3, <2>5 DEF ConsoleInv, OrderOK
  <2> QED
    BY <1>a, <2>2, <2>3, <2>6 DEF ConsoleInv, EditorOK
<1>1. CASE LoseRight
  <2>1. UNCHANGED hookTable /\ UNCHANGED <<editor, reveal, trial, order>> /\ right' \in {"sign in", "nothing"}
    BY <1>1 DEF LoseRight, dialogs
  <2>2. EditorOK'
    BY <2>1 DEF ConsoleInv, EditorOK
  <2> QED
    BY <2>1, <2>2, <1>d, <1>k, GrowsKeeps
<1>2. ASSUME NEW h \in {NewOne} \cup HookNo, OpenEditor(h) PROVE ConsoleInv'
  <2>1. UNCHANGED hookTable /\ UNCHANGED <<right, reveal, trial, order>>
        /\ editor' = [open |-> TRUE, of |-> h, busy |-> FALSE]
    BY <1>2 DEF OpenEditor
  <2>2. EditorOK'
    BY <2>1 DEF ConsoleInv, EditorOK
  <2> QED
    BY <2>1, <2>2, <1>d, <1>k, GrowsKeeps
<1>3. CASE CloseEditor
  <2>1. UNCHANGED hookTable /\ UNCHANGED <<right, reveal, trial, order>> /\ editor' = Shut
    BY <1>3 DEF CloseEditor
  <2>2. EditorOK'
    BY <2>1 DEF ConsoleInv, EditorOK, Shut
  <2> QED
    BY <2>1, <2>2, <1>d, <1>k, GrowsKeeps
\* A change is asked for.
<1>o. ASSUME NEW kind \in {"save", "remove", "rotate"}, NEW h \in {NewOne} \cup HookNo,
             NEW url \in BOOLEAN, NEW mode \in SecretModes, Ordered(kind, h, url, mode),
             kind = "rotate" => h = NewOne, kind = "remove" => h # NewOne,
             kind = "save" /\ h = NewOne => url /\ mode # "remove"
      PROVE  OrderOK' /\ order'.heard /\ order'.kind = kind /\ order' # NoOrder
  <2>1. PICK o \in HookOrders :
          o = [step |-> "sent", kind |-> kind, of |-> h, url |-> url, mode |-> mode,
               secret |-> 0, heard |-> TRUE]
    BY <1>z DEF HookOrders
  <2>2. order' = o
    BY <1>o, <2>1 DEF Ordered
  <2>3. o.step = "sent" /\ o.kind = kind /\ o.of = h /\ o.url = url /\ o.mode = mode /\ o.secret = 0 /\ o.heard
    BY <2>1
  <2> QED
    BY <1>o, <2>2, <2>3 DEF OrderOK
<1>b. ASSUME editor' = [editor EXCEPT !.busy = TRUE], UNCHANGED right, order' # NoOrder, order'.heard,
             order'.kind \in {"save", "remove"}
      PROVE  EditorOK'
  BY <1>b DEF ConsoleInv, EditorOK
<1>4. ASSUME NEW url \in BOOLEAN, NEW mode \in SecretModes, SubmitForm(url, mode) PROVE ConsoleInv'
  <2>1. /\ Ordered("save", editor.of, url, mode) /\ (editor.of = NewOne => url /\ mode # "remove")
        /\ editor' = [editor EXCEPT !.busy = TRUE] /\ UNCHANGED hookTable /\ UNCHANGED <<right, reveal, trial>>
    BY <1>4 DEF SubmitForm
  <2>2. editor.of \in {NewOne} \cup HookNo
    BY DEF ConsoleInv, EditorOK
  <2>3. OrderOK' /\ order'.heard /\ order'.kind = "save" /\ order' # NoOrder
    BY <2>1, <2>2, <1>o
  <2>4. EditorOK'
    BY <2>1, <2>3, <1>b
  <2> QED
    BY <2>1, <2>3, <2>4, <1>d, <1>k, GrowsKeeps
<1>5. CASE SubmitDelete
  <2>1. /\ Ordered("remove", editor.of, FALSE, "keep") /\ editor.of # NewOne
        /\ editor' = [editor EXCEPT !.busy = TRUE] /\ UNCHANGED hookTable /\ UNCHANGED <<right, reveal, trial>>
    BY <1>5 DEF SubmitDelete
  <2>2. editor.of \in {NewOne} \cup HookNo /\ "keep" \in SecretModes
    BY DEF ConsoleInv, EditorOK, SecretModes
  <2>3. OrderOK' /\ order'.heard /\ order'.kind = "remove" /\ order' # NoOrder
    BY <2>1, <2>2, <1>o
  <2>4. EditorOK'
    BY <2>1, <2>3, <1>b
  <2> QED
    BY <2>1, <2>3, <2>4, <1>d, <1>k, GrowsKeeps
<1>6. CASE SubmitRotate
  <2>1. /\ Ordered("rotate", NewOne, FALSE, "keep") /\ order = NoOrder
        /\ UNCHANGED hookTable /\ UNCHANGED <<right, editor, reveal, trial>>
    BY <1>6 DEF SubmitRotate, dialogs
  <2>2. "keep" \in SecretModes
    BY DEF SecretModes
  <2>3. OrderOK'
    BY <2>1, <2>2, <1>o
  <2>4. EditorOK'
    BY <2>1 DEF ConsoleInv, EditorOK
  <2> QED
    BY <2>1, <2>3, <2>4, <1>d, <1>k, GrowsKeeps
<1>7. CASE Dismiss
  <2>1. UNCHANGED hookTable /\ UNCHANGED <<right, editor, trial, order>> /\ reveal' = NothingShown
    BY <1>7 DEF Dismiss
  <2>2. RevealOK'
    BY <2>1 DEF RevealOK
  <2> QED
    BY <2>1, <2>2, <1>d, <1>e, <1>k, GrowsKeeps
<1>8. CASE CheckRight
  <2>1. order.step = "sent" /\ UNCHANGED hookTable /\ UNCHANGED <<right, editor, reveal, trial>> /\ order # NoOrder
    BY <1>8, <1>p DEF CheckRight, dialogs
  <2>2. Grows
    BY <2>1, <1>k
  <2>3. CASE right = "manage"
    <3>1. Advance("checked")
      BY <1>8, <2>3 DEF CheckRight
    <3>2. OrderOK' /\ EditorOK'
      BY <2>1, <2>2, <3>1, <1>a
    <3> QED
      BY <2>1, <2>2, <3>2, <1>d, GrowsKeeps
  <2>4. CASE right # "manage"
    <3>1. RefuseOrder
      BY <1>8, <2>4 DEF CheckRight
    <3>2. OrderOK' /\ EditorOK'
      BY <2>1, <2>2, <3>1, <1>r
    <3> QED
      BY <2>1, <2>2, <3>2, <1>d, GrowsKeeps
  <2> QED
    BY <2>3, <2>4
\* The tab's own save is stored.
<1>v. ASSUME NEW h \in HookNo, NEW one \in Kept, Write(h, one), order # NoOrder, order.kind = "save",
             TableOK', Grows, one \in had'[h]
      PROVE  OrderOK' /\ (UNCHANGED <<right, editor>> => EditorOK')
  <2>1. PICK secret \in Issuable : secret = IF order.mode = "generate" THEN one.secret ELSE 0
    BY <1>z DEF Kept
  <2>2. PICK o \in HookOrders :
          o = [order EXCEPT !.step = "stored", !.of = h, !.url = FALSE, !.mode = "keep", !.secret = secret]
    BY <1>v, <1>q DEF HookOrders, SecretModes
  <2>3. order' = o
    BY <1>v, <2>1, <2>2 DEF Write
  <2>4. o.step = "stored" /\ o.of = h /\ o.secret = secret /\ o.kind = "save" /\ o.heard = order.heard
    BY <1>v, <1>q, <2>2 DEF HookOrders
  <2>5. secret # 0 => secret = one.secret
    BY <2>1
  <2>6. o # NoOrder /\ h # NewOne
    OBVIOUS
  <2>7. OrderOK'
    BY <1>v, <2>3, <2>4, <2>5, <2>6 DEF OrderOK
  <2> QED
    BY <1>v, <2>3, <2>4, <2>6, <2>7 DEF ConsoleInv, EditorOK
<1>m. ASSUME NEW old \in Kept, NEW o, o.url \in BOOLEAN, issued + 2 <= MaxIssued
      PROVE  /\ MergedRow(old, o) \in Kept
             /\ MergedRow(old, o).url = (IF o.url THEN issued + 1 ELSE old.url)
             /\ MergedRow(old, o).secret \in {0, issued + 2} \/ MergedRow(old, o).secret = old.secret
             /\ o.mode = "keep" => MergedRow(old, o).secret = old.secret
  <2>1. PICK url \in Issuable : url = IF o.url THEN issued + 1 ELSE old.url
    <3>1. issued + 1 \in Issuable
      BY <1>m, <1>t DEF Issuable
    <3> QED
      BY <3>1 DEF Kept
  <2>2. PICK secret \in Issuable : /\ secret = IF o.mode = "keep" THEN old.secret ELSE NewSecret(o)
                                   /\ secret \in {0, issued + 2} \/ secret = old.secret
    <3>1. issued + 2 \in Issuable
      BY <1>m, <1>t DEF Issuable
    <3> QED
      BY <3>1, <1>z DEF Kept, NewSecret
  <2>3. MergedRow(old, o) = [url |-> url, secret |-> secret]
    BY <2>1, <2>2 DEF MergedRow
  <2> QED
    BY <2>1, <2>2, <2>3 DEF Kept
<1>n. NothingKept \in Kept /\ NothingKept.url = 0 /\ NothingKept.secret = 0
  BY <1>z DEF NothingKept, Kept
<1>f. NoHookYet \in {held[h] : h \in HookNo} => FirstFree \in HookNo /\ held[FirstFree] = NoHookYet
  <2> HAVE NoHookYet \in {held[h] : h \in HookNo}
  <2>1. {h \in HookNo : held[h] = NoHookYet} # {} /\ {h \in HookNo : held[h] = NoHookYet} \subseteq Nat
    OBVIOUS
  <2>2. \E h \in {h \in HookNo : held[h] = NoHookYet} : \A g \in {x \in HookNo : held[x] = NoHookYet} : h <= g
    BY <2>1, LeastOne
  <2>3. \E h \in HookNo : held[h] = NoHookYet /\ \A g \in HookNo : held[g] = NoHookYet => h <= g
    BY <2>2
  <2> QED
    BY <2>3 DEF FirstFree
\* A new webhook, and a change of one that stands.
<1>c. ASSUME NEW o, o.url, o.url \in BOOLEAN, issued + 2 <= MaxIssued, NoHookYet \in {held[h] : h \in HookNo},
             Put(FirstFree, MergedRow(NothingKept, o)), UNCHANGED token
      PROVE  TableOK' /\ Grows /\ MergedRow(NothingKept, o) \in Kept
             /\ FirstFree \in HookNo /\ MergedRow(NothingKept, o) \in had'[FirstFree]
  <2>1. PICK h \in HookNo : h = FirstFree /\ held[h] = NoHookYet
    BY <1>c, <1>f
  <2>5. PICK old \in Kept : old = NothingKept /\ old.secret = 0
    BY <1>n
  <2>6. o.url \in BOOLEAN /\ issued + 2 <= MaxIssued
    BY <1>c
  <2>7. /\ MergedRow(old, o) \in Kept
        /\ MergedRow(old, o).url = (IF o.url THEN issued + 1 ELSE old.url)
        /\ MergedRow(old, o).secret \in {0, issued + 2} \/ MergedRow(old, o).secret = old.secret
    BY <1>m, <2>6
  <2>2. PICK one \in Kept : one = MergedRow(NothingKept, o) /\ one.url = issued + 1 /\ one.secret \in {0, issued + 2}
    BY <1>c, <2>5, <2>7
  <2>3. Put(h, one) /\ TableOK
    BY <1>c, <2>1, <2>2 DEF ConsoleInv
  <2>4. TableOK' /\ Grows /\ one \in had'[h]
    BY <1>c, <2>1, <2>2, <2>3, PutStep
  <2> QED
    BY <2>1, <2>2, <2>4
<1>g. ASSUME NEW h \in Standing, NEW o, o.url \in BOOLEAN, issued + 2 <= MaxIssued,
             Put(h, MergedRow(held[h], o)), UNCHANGED token
      PROVE  TableOK' /\ Grows /\ MergedRow(held[h], o) \in Kept /\ MergedRow(held[h], o) \in had'[h]
  <2>1. h \in HookNo /\ held[h] \in Kept
    BY <1>w
  <2>2. PICK one \in Kept : /\ one = MergedRow(held[h], o)
                            /\ one.url = issued + 1 \/ one.url = held[h].url
                            /\ one.secret \in {0, issued + 2} \/ one.secret = held[h].secret
    BY <1>g, <1>m, <2>1
  <2>3. Put(h, one) /\ TableOK
    BY <1>g, <2>2 DEF ConsoleInv
  <2>4. one.url = issued + 1 \/ (held[h] \in Kept /\ one.url = held[h].url)
    BY <2>1, <2>2
  <2>5. one.secret \in {0, issued + 2} \/ (held[h] \in Kept /\ one.secret = held[h].secret)
    BY <2>1, <2>2
  <2>6. held[h] \in Kept \cup {NoHookYet} /\ token' = token
    BY <2>1, <1>g
  <2>7. TableOK' /\ Grows /\ one \in had'[h]
    BY <1>g, <2>1, <2>3, <2>4, <2>5, <2>6, PutStep
  <2> QED
    BY <2>2, <2>7
<1>9. CASE StoreNew
  <2>1. /\ order.step = "checked" /\ order.kind = "save" /\ order.of = NewOne /\ order # NoOrder
        /\ issued + 2 <= MaxIssued /\ NoHookYet \in {held[h] : h \in HookNo}
        /\ Write(FirstFree, MergedRow(NothingKept, order))
        /\ UNCHANGED <<token, right, editor, reveal, trial>>
    BY <1>9, <1>p DEF StoreNew, dialogs
  <2>2. order.url /\ order.url \in BOOLEAN
    BY <2>1, <1>q DEF ConsoleInv, OrderOK, HookOrders
  <2>3. Put(FirstFree, MergedRow(NothingKept, order))
    BY <2>1 DEF Write
  <2>4. TableOK' /\ Grows /\ MergedRow(NothingKept, order) \in Kept
             /\ FirstFree \in HookNo /\ MergedRow(NothingKept, order) \in had'[FirstFree]
    BY <2>1, <2>2, <2>3, <1>c
  <2>5. OrderOK' /\ EditorOK'
    BY <2>1, <2>4, <1>v
  <2> QED
    BY <2>1, <2>4, <2>5, GrowsKeeps DEF ConsoleInv
<1>10. CASE StoreChange
  <2>1. /\ order.step = "checked" /\ order.kind = "save" /\ order # NoOrder
        /\ issued + 2 <= MaxIssued /\ UNCHANGED <<token, right, editor, reveal, trial>>
    BY <1>10, <1>p DEF StoreChange, dialogs
  <2>2. order.url \in BOOLEAN
    BY <2>1, <1>q DEF HookOrders
  <2>3. CASE order.of \in Standing
    <3>1. Write(order.of, MergedRow(held[order.of], order))
      BY <1>10, <2>3 DEF StoreChange
    <3>2. Put(order.of, MergedRow(held[order.of], order))
      BY <3>1 DEF Write
    <3>3. TableOK' /\ Grows /\ MergedRow(held[order.of], order) \in Kept /\ MergedRow(held[order.of], order) \in had'[order.of]
      BY <2>1, <2>2, <2>3, <3>2, <1>g
    <3>4. order.of \in HookNo
      BY <2>3, <1>w
    <3>5. OrderOK' /\ EditorOK'
      BY <2>1, <3>1, <3>3, <3>4, <1>v
    <3> QED
      BY <2>1, <3>3, <3>5, GrowsKeeps DEF ConsoleInv
  <2>4. CASE order.of \notin Standing
    <3>1. RefuseOrder /\ UNCHANGED <<held, had, issued>>
      BY <1>10, <2>4 DEF StoreChange
    <3>2. UNCHANGED hookTable /\ Grows
      BY <2>1, <3>1, <1>s DEF hookTable
    <3>3. OrderOK' /\ EditorOK'
      BY <2>1, <3>1, <3>2, <1>r
    <3> QED
      BY <2>1, <3>2, <3>3, <1>d, GrowsKeeps
  <2> QED
    BY <2>3, <2>4
\* A webhook that is removed keeps its history.
<1>y. ASSUME NEW h \in Standing, held' = [held EXCEPT ![h] = HookGone], UNCHANGED <<token, issued, had>>
      PROVE  TableOK' /\ Grows
  <2>1. h \in HookNo /\ held[h] \in Kept
    BY <1>w
  <2>2. held' \in [HookNo -> Kept \cup {NoHookYet, HookGone}] /\ held'[h] = HookGone
        /\ \A g \in HookNo \ {h} : held'[g] = held[g]
    BY <1>y, <2>1 DEF ConsoleInv, TableOK
  <2>3. Grows
    BY <1>y, <1>t DEF Grows
  <2>4. \A g \in HookNo : held'[g] \in Kept => held'[g] = held[g]
    BY <2>2
  <2>5. \A g \in HookNo : held'[g] = NoHookYet => held[g] = NoHookYet
    BY <2>2
  <2> QED
    BY <1>y, <2>2, <2>3, <2>4, <2>5 DEF ConsoleInv, TableOK
<1>11. CASE Unstore
  <2>1. /\ order.step = "checked" /\ order.kind = "remove" /\ order # NoOrder
        /\ UNCHANGED <<token, issued, had, right, editor, reveal, trial>>
    BY <1>11, <1>p DEF Unstore, dialogs
  <2>2. CASE order.of \in Standing
    <3>1. held' = [held EXCEPT ![order.of] = HookGone] /\ Advance("answered")
      BY <1>11, <2>2 DEF Unstore
    <3>2. TableOK' /\ Grows
      BY <2>1, <2>2, <3>1, <1>y
    <3>3. order.secret = 0
      BY <2>1 DEF ConsoleInv, OrderOK
    <3>4. OrderOK' /\ EditorOK'
      BY <2>1, <3>1, <3>2, <3>3, <1>a
    <3> QED
      BY <2>1, <3>2, <3>4, GrowsKeeps DEF ConsoleInv
  <2>3. CASE order.of \notin Standing
    <3>1. RefuseOrder /\ UNCHANGED held
      BY <1>11, <2>3 DEF Unstore
    <3>2. UNCHANGED hookTable /\ Grows
      BY <2>1, <3>1, <1>s DEF hookTable
    <3>3. OrderOK' /\ EditorOK'
      BY <2>1, <3>1, <3>2, <1>r
    <3> QED
      BY <2>1, <3>2, <3>3, <1>d, GrowsKeeps
  <2> QED
    BY <2>2, <2>3
<1>12. CASE RotateToken
  <2>1. /\ order.step = "checked" /\ order.kind = "rotate" /\ order # NoOrder /\ issued + 1 <= MaxIssued
        /\ token' = issued + 1 /\ issued' = issued + 1
        /\ order' = [order EXCEPT !.step = "stored", !.secret = issued + 1]
        /\ UNCHANGED <<held, had, right, editor, reveal, trial>>
    BY <1>12, <1>p DEF RotateToken, dialogs
  <2>2. PICK next \in Issuable : next = issued + 1
    BY <2>1, <1>t DEF Issuable
  <2>3. PICK o \in HookOrders : o = [order EXCEPT !.step = "stored", !.secret = next]
    BY <2>1, <1>q DEF HookOrders
  <2>4. order' = o /\ o # NoOrder
    BY <2>1, <2>2, <2>3
  <2>5. o.step = "stored" /\ o.secret = next /\ o.kind = "rotate" /\ o.of = order.of /\ o.heard = order.heard
    BY <2>1, <2>3, <1>q DEF HookOrders
  <2>6. Grows
    BY <2>1, <1>t DEF Grows
  <2>7. token' = next /\ issued' = next /\ next <= next /\ next \in Nat
    BY <2>1, <2>2
  <2>8. OrderOK'
    BY <2>1, <2>4, <2>5, <2>7 DEF ConsoleInv, OrderOK
  <2>9. EditorOK'
    BY <2>1, <2>4, <2>5 DEF ConsoleInv, EditorOK
  <2>10. \A h \in HookNo : \A one \in had[h] : one.url # 0 /\ one.url <= issued' /\ one.secret <= issued'
    <3> TAKE h \in HookNo
    <3> TAKE one \in had[h]
    <3>1. one \in Kept /\ one.url # 0 /\ one.url <= issued /\ one.secret <= issued
      BY DEF ConsoleInv, TableOK
    <3>2. one.url \in Nat /\ one.secret \in Nat
      BY <3>1 DEF Kept
    <3> QED
      BY <2>1, <3>1, <3>2, <1>t
  <2>11. TableOK'
    BY <2>1, <2>2, <2>7, <2>10 DEF ConsoleInv, TableOK
  <2> QED
    BY <2>1, <2>6, <2>8, <2>9, <2>11, GrowsKeeps DEF ConsoleInv
<1>13. ASSUME NEW mode \in SecretModes, OthersCreate(mode) PROVE ConsoleInv'
  <2>1. PICK o : o = [url |-> TRUE, mode |-> mode]
    OBVIOUS
  <2>2. /\ o.url /\ o.url \in BOOLEAN /\ issued + 2 <= MaxIssued /\ NoHookYet \in {held[h] : h \in HookNo}
        /\ Put(FirstFree, MergedRow(NothingKept, o)) /\ UNCHANGED <<token, right, editor, reveal, trial, order>>
    BY <1>13, <2>1 DEF OthersCreate, dialogs
  <2>3. TableOK' /\ Grows
    BY <2>2, <1>c
  <2> QED
    BY <2>2, <2>3, <1>e, GrowsKeeps DEF ConsoleInv
<1>14. ASSUME NEW h \in HookNo, NEW url \in BOOLEAN, NEW mode \in SecretModes, OthersSave(h, url, mode) PROVE ConsoleInv'
  <2>1. PICK o : o = [url |-> url, mode |-> mode]
    OBVIOUS
  <2>2. /\ o.url \in BOOLEAN /\ issued + 2 <= MaxIssued /\ h \in Standing
        /\ Put(h, MergedRow(held[h], o)) /\ UNCHANGED <<token, right, editor, reveal, trial, order>>
    BY <1>14, <2>1 DEF OthersSave, dialogs
  <2>3. TableOK' /\ Grows
    BY <2>2, <1>g
  <2> QED
    BY <2>2, <2>3, <1>e, GrowsKeeps DEF ConsoleInv
<1>15. ASSUME NEW h \in HookNo, OthersRemove(h) PROVE ConsoleInv'
  <2>1. h \in Standing /\ held' = [held EXCEPT ![h] = HookGone]
        /\ UNCHANGED <<token, issued, had, right, editor, reveal, trial, order>>
    BY <1>15 DEF OthersRemove, dialogs
  <2>2. TableOK' /\ Grows
    BY <2>1, <1>y
  <2> QED
    BY <2>1, <2>2, <1>e, GrowsKeeps DEF ConsoleInv
<1>16. CASE AnswerChange
  <2>1. order.step = "stored" /\ order # NoOrder /\ UNCHANGED hookTable /\ UNCHANGED <<right, editor, reveal, trial>>
    BY <1>16, <1>p DEF AnswerChange, dialogs
  <2>2. Grows
    BY <2>1, <1>k
  <2>3. CASE ActiveSession /\ (order.kind = "save" => order.of \in Standing)
    <3>1. Advance("answered")
      BY <1>16, <2>3 DEF AnswerChange
    <3>2. OrderOK' /\ EditorOK'
      BY <2>1, <2>2, <3>1, <1>a
    <3> QED
      BY <2>1, <2>2, <3>2, <1>d, GrowsKeeps
  <2>4. CASE ~(ActiveSession /\ (order.kind = "save" => order.of \in Standing))
    <3>1. RefuseOrder
      BY <1>16, <2>4 DEF AnswerChange
    <3>2. OrderOK' /\ EditorOK'
      BY <2>1, <2>2, <3>1, <1>r
    <3> QED
      BY <2>1, <2>2, <3>2, <1>d, GrowsKeeps
  <2> QED
    BY <2>3, <2>4
<1>17. CASE ShowDone
  <2>1. /\ order.step = "answered" /\ order.heard /\ order # NoOrder
        /\ editor' = (IF order.kind = "rotate" THEN editor ELSE Shut)
        /\ reveal' = (IF order.secret = 0 THEN reveal ELSE [of |-> order.of, value |-> order.secret])
        /\ order' = NoOrder /\ UNCHANGED hookTable /\ UNCHANGED <<right, trial>>
    BY <1>17, <1>p DEF ShowDone, OrderOver
  <2>2. Grows /\ UNCHANGED <<held, token, issued, had>>
    BY <2>1, <1>k DEF hookTable
  <2>3. OrderOK'
    BY <2>1 DEF OrderOK
  <2>4. EditorOK'
    BY <2>1 DEF ConsoleInv, EditorOK, Shut
  <2>5. RevealOK'
    <3>1. CASE order.secret = 0
      BY <2>1, <2>2, <3>1, GrowsKeeps
    <3>2. CASE order.secret # 0
      <4>1. PICK r \in Reveals : r = [of |-> order.of, value |-> order.secret]
        BY <2>1, <1>q DEF Reveals, HookOrders
      <4>2. reveal' = r /\ r.of = order.of /\ r.value = order.secret
        BY <2>1, <3>2, <4>1
      <4>3. order.secret \in Nat \ {0}
        BY <2>1, <3>2, <1>q DEF HookOrders
      <4>4. IF order.kind = "rotate" THEN order.of = NewOne /\ order.secret <= token
            ELSE order.of # NewOne /\ \E one \in had[order.of] : one.secret = order.secret
        BY <2>1, <3>2 DEF ConsoleInv, OrderOK
      <4>5. IF r.of = NewOne THEN r.value \in 1 .. token
            ELSE \E one \in had[r.of] : one.secret = r.value
        BY <4>2, <4>3, <4>4, <1>t
      <4> QED
        BY <2>2, <4>2, <4>5 DEF RevealOK
    <3> QED
      BY <3>1, <3>2
  <2> QED
    BY <2>1, <2>2, <2>3, <2>4, <2>5, <1>d, GrowsKeeps
<1>18. CASE ShowFailed
  <2>1. /\ order # NoOrder /\ order.heard /\ editor' = [editor EXCEPT !.busy = FALSE]
        /\ order' = (IF order.step = "failed" THEN NoOrder ELSE [order EXCEPT !.heard = FALSE])
        /\ UNCHANGED hookTable /\ UNCHANGED <<right, reveal, trial>>
    BY <1>18 DEF ShowFailed
  <2>2. Grows /\ UNCHANGED <<held, token, issued, had>>
    BY <2>1, <1>k DEF hookTable
  <2>3. EditorOK'
    BY <2>1 DEF ConsoleInv, EditorOK
  <2>4. OrderOK'
    <3>1. CASE order.step = "failed"
      BY <2>1, <3>1 DEF OrderOK
    <3>2. CASE order.step # "failed"
      <4>1. PICK o \in HookOrders : o = [order EXCEPT !.heard = FALSE]
        BY <2>1, <1>q DEF HookOrders
      <4>2. order' = o
        BY <2>1, <3>2, <4>1
      <4>3. /\ o.step = order.step /\ o.secret = order.secret /\ o.kind = order.kind /\ o.of = order.of
            /\ o.url = order.url /\ o.mode = order.mode
        BY <2>1, <4>1, <1>q DEF HookOrders
      <4> QED
        BY <2>1, <2>2, <4>2, <4>3 DEF ConsoleInv, OrderOK
    <3> QED
      BY <3>1, <3>2
  <2> QED
    BY <2>1, <2>2, <2>3, <2>4, <1>d, GrowsKeeps
<1>19. CASE Unheard
  <2>1. ~order.heard /\ order' = NoOrder /\ UNCHANGED hookTable /\ UNCHANGED <<right, editor, reveal, trial>>
    BY <1>19 DEF Unheard, OrderOver, dialogs
  <2>2. EditorOK'
    BY <2>1 DEF ConsoleInv, EditorOK
  <2>3. OrderOK'
    BY <2>1 DEF OrderOK
  <2> QED
    BY <2>1, <2>2, <2>3, <1>d, <1>k, GrowsKeeps
<1>i. trial # NoTrial => trial \in Trials
  BY DEF ConsoleInv, TrialOK
<1>j. NoTrial.step = "closed"
  BY DEF NoTrial
\* A step of the deliveries dialog.
<1>h. ASSUME NEW step \in {"idle", "asked", "sent"}, NEW h \in HookNo, NEW with \in Kept, NEW result \in Kept \cup {NothingShown},
             trial' = [step |-> step, of |-> h, with |-> with, result |-> result],
             result # NothingShown => result \in had[h], step = "sent" => with \in had[h],
             UNCHANGED hookTable, UNCHANGED <<right, editor, order, reveal>>
      PROVE  ConsoleInv'
  <2>1. PICK t \in Trials : t = [step |-> step, of |-> h, with |-> with, result |-> result]
    BY DEF Trials
  <2>2. trial' = t /\ t.step = step /\ t.of = h /\ t.with = with /\ t.result = result /\ had' = had
    BY <1>h, <2>1 DEF hookTable
  <2>3. TrialOK'
    BY <1>h, <2>2 DEF TrialOK
  <2> QED
    BY <1>h, <2>3, <1>d, <1>e, <1>k, GrowsKeeps
<1>20. ASSUME NEW h \in HookNo, OpenLog(h) PROVE ConsoleInv'
  <2>1. trial' = [step |-> "idle", of |-> h, with |-> NothingKept, result |-> NothingShown]
        /\ UNCHANGED hookTable /\ UNCHANGED <<right, editor, order, reveal>>
    BY <1>20 DEF OpenLog
  <2>2. NothingShown # NothingShown => NothingShown \in had[h]
    OBVIOUS
  <2> QED
    BY <2>1, <2>2, <1>h, <1>n
<1>21. CASE CloseLog
  <2>1. UNCHANGED hookTable /\ UNCHANGED <<right, editor, order, reveal>> /\ trial' = NoTrial
    BY <1>21 DEF CloseLog
  <2>2. TrialOK'
    BY <2>1 DEF TrialOK
  <2> QED
    BY <2>1, <2>2, <1>d, <1>e, <1>k, GrowsKeeps
<1>l. ASSUME trial # NoTrial
      PROVE  /\ trial = [step |-> trial.step, of |-> trial.of, with |-> trial.with, result |-> trial.result]
             /\ trial.of \in HookNo /\ trial.with \in Kept /\ trial.result \in Kept \cup {NothingShown}
             /\ trial.result # NothingShown => trial.result \in had[trial.of]
             /\ trial.step = "sent" => trial.with \in had[trial.of]
  BY <1>l, <1>i DEF Trials, ConsoleInv, TrialOK
<1>22. CASE AskTest
  <2>1. trial # NoTrial /\ trial' = [trial EXCEPT !.step = "asked", !.result = NothingShown]
        /\ UNCHANGED hookTable /\ UNCHANGED <<right, editor, order, reveal>>
    BY <1>22, <1>j DEF AskTest
  <2>2. trial' = [step |-> "asked", of |-> trial.of, with |-> trial.with, result |-> NothingShown]
    BY <2>1, <1>l
  <2>3. NothingShown # NothingShown => NothingShown \in had[trial.of]
    OBVIOUS
  <2> QED
    BY <2>1, <2>2, <2>3, <1>h, <1>l
<1>23. CASE SendTest
  <2>1. trial # NoTrial /\ trial' = [trial EXCEPT !.step = "sent", !.with = held[trial.of]] /\ trial.of \in Standing
        /\ UNCHANGED hookTable /\ UNCHANGED <<right, editor, order, reveal>>
    BY <1>23, <1>j DEF SendTest
  <2>2. held[trial.of] \in Kept /\ held[trial.of] \in had[trial.of]
    BY <2>1, <1>w DEF ConsoleInv, TableOK
  <2>3. trial' = [step |-> "sent", of |-> trial.of, with |-> held[trial.of], result |-> trial.result]
    BY <2>1, <1>l
  <2> QED
    BY <2>1, <2>2, <2>3, <1>h, <1>l
<1>24. CASE ShowTest
  <2>1. trial # NoTrial /\ UNCHANGED hookTable /\ UNCHANGED <<right, editor, order, reveal>>
    BY <1>24, <1>j DEF ShowTest
  <2>2. CASE trial.step = "sent" /\ trial' = [trial EXCEPT !.step = "idle", !.result = trial.with]
    <3>1. trial' = [step |-> "idle", of |-> trial.of, with |-> trial.with, result |-> trial.with]
      BY <2>1, <2>2, <1>l
    <3>2. trial.with # NothingShown => trial.with \in had[trial.of]
      BY <2>1, <2>2, <1>l
    <3> QED
      BY <2>1, <3>1, <3>2, <1>h, <1>l
  <2>3. CASE trial' = [trial EXCEPT !.step = "idle"]
    <3>1. trial' = [step |-> "idle", of |-> trial.of, with |-> trial.with, result |-> trial.result]
      BY <2>1, <2>3, <1>l
    <3> QED
      BY <2>1, <3>1, <1>h, <1>l
  <2> QED
    BY <1>24, <2>2, <2>3 DEF ShowTest
<1>25. CASE UNCHANGED consoleVars
  <2>1. UNCHANGED hookTable /\ UNCHANGED <<right, editor, order, reveal, trial>>
    BY <1>25 DEF consoleVars, hookTable
  <2> QED
    BY <2>1, <1>d, <1>e, <1>k, GrowsKeeps
<1>26. (\E h \in {NewOne} \cup HookNo : OpenEditor(h)) => ConsoleInv'
  BY <1>2
<1>27. (\E h \in HookNo : OpenLog(h) \/ OthersRemove(h)) => ConsoleInv'
  BY <1>15, <1>20
<1>28. (\E url \in BOOLEAN, mode \in SecretModes :
       SubmitForm(url, mode) \/ OthersCreate(mode) \/ \E h \in HookNo : OthersSave(h, url, mode)) => ConsoleInv'
  BY <1>4, <1>13, <1>14
<1> QED
  BY <1>1, <1>3, <1>5, <1>6, <1>7, <1>8, <1>9, <1>10, <1>11, <1>12, <1>16, <1>17, <1>18, <1>19,
     <1>21, <1>22, <1>23, <1>24, <1>25, <1>26, <1>27, <1>28 DEF ConsoleNext

\* The page keeps the invariant (WebhooksPage.tsx, webhook-store.ts).
LEMMA ConsoleInvariance == ConsoleSpec => []ConsoleInv
<1> QED
  BY ConsoleStart, ConsoleStep, PTL DEF ConsoleSpec

\* What is revealed and tested is what was stored, and an old form brings nothing back that was
\* replaced (WebhooksPage.tsx, webhook-store.ts).
THEOREM ConsoleIsSafe == ConsoleSpec => [](ConsoleTypeOK /\ ConsoleSafe)
<1>1. ConsoleInv => ConsoleTypeOK /\ ConsoleSafe
  BY ConsoleInvSafe
<1> QED
  BY <1>1, ConsoleInvariance, PTL
=============================================================================
