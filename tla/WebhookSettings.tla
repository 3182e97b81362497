---------------------------- MODULE WebhookSettings ----------------------------
(***************************************************************************)
(* The settings of a workspace's outbound webhooks (webhook-store.ts and   *)
(* webhook-app.ts): members who create, save and remove them at the same   *)
(* time, while their access changes and the worker pauses a webhook.       *)
(*                                                                         *)
(* A request makes one SQL statement after another, without a transaction; *)
(* a server that stops leaves the later ones out.                          *)
(***************************************************************************)
EXTENDS Naturals, FiniteSets

CONSTANTS
  Member,                \* people who manage the webhooks
  Pinnable,              \* repositories of the workspace
  Hook,                  \* ids of webhooks that may be created
  Saving,                \* their requests under way
  MaxHooks               \* MAX_WEBHOOKS (20)

ASSUME WebhookSettingsAssumption == MaxHooks \in Nat \ {0} /\ IsFiniteSet(Saving)

VARIABLES
  readable,    \* the repositories each member may read
  hadRead,     \* history: the repositories each member ever could
  hook,        \* ship_live_webhooks
  saving       \* requests of members

settingsVars == <<readable, hadRead, hook, saving>>

-----------------------------------------------------------------------------
NoRow == [is |-> "none"]
Deleted == [is |-> "deleted"]   \* ids are never given out again

\* What the properties tell of a saved webhook: its owner, its repositories and its state.
Webhooks == [owner : Member, pins : SUBSET Pinnable, enabled : BOOLEAN, paused : BOOLEAN]

\* What a valid form may say; anything else is refused before the first statement.
Forms == [enabled : BOOLEAN]

Savings == [is : {"checked", "counted"}, by : Member, repos : SUBSET Pinnable]

SettingsTypeOK ==
  /\ readable \in [Member -> SUBSET Pinnable] /\ hadRead \in [Member -> SUBSET Pinnable]
  /\ hook \in [Hook -> Webhooks \cup {NoRow, Deleted}]
  /\ saving \in [Saving -> Savings \cup {NoRow}]

SettingsInit ==
  /\ readable \in [Member -> SUBSET Pinnable]
  /\ hadRead = readable
  /\ hook = [h \in Hook |-> NoRow]
  /\ saving = [c \in Saving |-> NoRow]

people == <<readable, hadRead>>

Configured == {h \in Hook : hook[h] \notin {NoRow, Deleted}}

-----------------------------------------------------------------------------
(* Outbound webhooks. *)

\* A refresh of access, a narrowing or a selection.
ReadableTurns(m) ==
  /\ readable' \in [Member -> SUBSET Pinnable]
  /\ \A n \in Member : (readable'[n] # readable[n]) <=> (n = m)
  /\ hadRead' = [hadRead EXCEPT ![m] = @ \cup readable'[m]]
  /\ UNCHANGED <<hook, saving>>

\* requireMutation and the viewer: the repositories the save will pin.
CheckMember(c, m) ==
  /\ saving[c] = NoRow
  /\ saving' = [saving EXCEPT ![c] = [is |-> "checked", by |-> m, repos |-> readable[m]]]
  /\ UNCHANGED <<people, hook>>

SavingAt(c, step) == saving[c] # NoRow /\ saving[c].is = step

SavingOver(c) == saving' = [saving EXCEPT ![c] = NoRow]

\* The count is a statement of its own, before the insert.
CountHooks(c) ==
  /\ SavingAt(c, "checked")
  /\ IF Cardinality(Configured) >= MaxHooks
     THEN SavingOver(c) ELSE saving' = [saving EXCEPT ![c].is = "counted"]
  /\ UNCHANGED <<people, hook>>

CreateHook(c, h, form) ==
  /\ SavingAt(c, "counted")
  /\ hook[h] = NoRow
  /\ hook' = [hook EXCEPT ![h] = [owner |-> saving[c].by, pins |-> saving[c].repos,
                                  enabled |-> form.enabled, paused |-> FALSE]]
  /\ SavingOver(c)
  /\ UNCHANGED people

\* The saved row keeps who made it.
UpdatedByMaker(old, c, form) ==
  [owner |-> old.owner, pins |-> saving[c].repos, enabled |-> form.enabled,
   paused |-> old.paused /\ ~form.enabled]

\* Saving makes the editor the owner; enabling ends a pause.
Updated(old, c, form) ==
  [owner |-> saving[c].by, pins |-> saving[c].repos, enabled |-> form.enabled,
   paused |-> old.paused /\ ~form.enabled]

SaveHook(c, h, form) ==
  /\ SavingAt(c, "checked")
  /\ IF h \notin Configured THEN UNCHANGED hook
     ELSE hook' = [hook EXCEPT ![h] = Updated(hook[h], c, form)]
  /\ SavingOver(c)
  /\ UNCHANGED people

RemoveHook(c, h) ==
  /\ SavingAt(c, "checked")
  /\ h \in Configured
  /\ hook' = [hook EXCEPT ![h] = Deleted]
  /\ SavingOver(c)
  /\ UNCHANGED people

\* The worker pauses a webhook whose receiver is gone.
HookPauses(h) ==
  /\ h \in Configured /\ hook[h].enabled
  /\ hook' = [hook EXCEPT ![h] = [@ EXCEPT !.enabled = FALSE, !.paused = TRUE]]
  /\ UNCHANGED <<people, saving>>

\* The process stops, or the request fails.
SavingBreaks(c) ==
  /\ saving[c] # NoRow
  /\ SavingOver(c)
  /\ UNCHANGED <<people, hook>>

-----------------------------------------------------------------------------
SettingsNext ==
  \/ \E m \in Member : ReadableTurns(m)
  \/ \E c \in Saving :
       \/ (\E m \in Member : CheckMember(c, m)) \/ CountHooks(c) \/ SavingBreaks(c)
       \/ (\E h \in Hook, form \in Forms : CreateHook(c, h, form) \/ SaveHook(c, h, form))
       \/ (\E h \in Hook : RemoveHook(c, h))
  \/ \E h \in Hook : HookPauses(h)

SettingsSpec == SettingsInit /\ [][SettingsNext]_settingsVars

-----------------------------------------------------------------------------
(* However saves of several members meet, what a webhook may tell of is what its own owner *)
(* could read: the repositories it pins were never taken from another member's view.       *)
PinsAreTheOwners ==
  \A h \in Configured : hook[h].pins \subseteq hadRead[hook[h].owner]

(* The cap is counted before the insert: with n requests at once it is passed by at most   *)
(* n - 1 webhooks.  A webhook that sends is not shown as paused.                           *)
RoomHolds ==
  /\ Cardinality(Configured) <= MaxHooks + Cardinality(Saving) - 1
  /\ \A h \in Configured : hook[h].paused => ~hook[h].enabled

\* Webhooks as their members left them.
SettingsSafe == PinsAreTheOwners /\ RoomHolds
=============================================================================
