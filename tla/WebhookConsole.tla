----------------------------- MODULE WebhookConsole -----------------------------
(***************************************************************************)
(* The page of a workspace's webhooks (src/pages/WebhooksPage.tsx, the     *)
(* dialogs it opens, and hooks/useWebhooks.ts) with what the server keeps  *)
(* secret: the address and the signing secret of a webhook leave it only   *)
(* in the requests it sends, and a new secret once, in the answer to the   *)
(* save that made it.  One tab is followed step by step; of the others only  *)
(* their changes matter to it.  Whose repositories a webhook has, and      *)
(* whether it is paused, is in WebhookSettings.                            *)
(***************************************************************************)
EXTENDS Naturals, FiniteSets

CONSTANTS
  NumHooks,    \* bound: webhooks that are ever created
  MaxIssued    \* bound: addresses, secrets and endpoints ever made

ASSUME ConsoleAssumption == NumHooks \in Nat \ {0} /\ MaxIssued \in Nat

VARIABLES
  held,        \* what the table keeps of each webhook
  token,       \* the endpoint's token, of an inbound webhook
  issued,      \* history: values made so far; each is new
  had,         \* history: what each webhook ever kept, together
  right,       \* what the person may: manage the webhooks, only sign in, or nothing
  editor,      \* the dialog that edits one
  order,       \* the change a tab asked for
  reveal,      \* what is shown once
  trial        \* the dialog of a webhook's deliveries, and its test

consoleVars == <<held, token, issued, had, right, editor, order, reveal, trial>>

-----------------------------------------------------------------------------
HookNo == 1 .. NumHooks
NewOne == 0                 \* the form for a webhook that is not there yet
Issuable == 0 .. MaxIssued    \* 0: none

Kept == [url : Issuable, secret : Issuable]
NoHookYet == [is |-> "never"]
HookGone == [is |-> "removed"]     \* ids are never given out again

NoOrder == [step |-> "none"]
NoTrial == [step |-> "closed"]
NothingShown == [is |-> "nothing"]
NothingKept == [url |-> 0, secret |-> 0]

SecretModes == {"keep", "generate", "custom", "remove"}

HookOrders ==
  [step : {"sent", "checked", "stored", "answered", "failed"},
   kind : {"save", "remove", "rotate"}, of : {NewOne} \cup HookNo,
   url : BOOLEAN, mode : SecretModes, secret : Issuable, heard : BOOLEAN]

\* What is revealed is a webhook's secret, or the endpoint of the inbound one (NewOne).
Reveals == [of : {NewOne} \cup HookNo, value : Issuable]

\* The result of a test is kept until the next one.
Trials ==
  [step : {"idle", "asked", "sent"}, of : HookNo, with : Kept,
   result : Kept \cup {NothingShown}]

ConsoleTypeOK ==
  /\ \A h \in HookNo : held[h] \in {NoHookYet, HookGone} \/ held[h] \in Kept
  /\ token \in Issuable /\ issued \in Issuable
  /\ had \in [HookNo -> SUBSET Kept]
  /\ right \in {"manage", "sign in", "nothing"}
  /\ editor \in [open : BOOLEAN, of : {NewOne} \cup HookNo, busy : BOOLEAN]
  /\ order = NoOrder \/ order \in HookOrders
  /\ reveal = NothingShown \/ reveal \in Reveals
  /\ trial = NoTrial \/ trial \in Trials

Shut == [open |-> FALSE, of |-> NewOne, busy |-> FALSE]

ConsoleInit ==
  /\ held = [h \in HookNo |-> NoHookYet] /\ token = 0 /\ issued = 0
  /\ had = [h \in HookNo |-> {}]
  /\ right = "manage"
  /\ editor = Shut
  /\ order = NoOrder
  /\ reveal = NothingShown
  /\ trial = NoTrial

hookTable == <<held, token, issued, had>>
dialogs == <<editor, reveal, trial>>

Standing == {h \in HookNo : held[h] \notin {NoHookYet, HookGone}}

ActiveSession == right # "nothing"

-----------------------------------------------------------------------------
(* Access ends elsewhere. *)

LoseRight ==
  /\ \/ right = "manage" /\ right' = "sign in"
     \/ ActiveSession /\ right' = "nothing"
  /\ UNCHANGED <<hookTable, dialogs, order>>

-----------------------------------------------------------------------------
(* The page. *)

\* refresh: on mounting, every 15 seconds and after each change.  Answers carry no version
\* and may come in any order, so a page may list any webhook that has ever stood.
OnPage == {h \in HookNo : held[h] # NoHookYet}

\* A dialog covers the page.
Uncovered == ~editor.open /\ trial = NoTrial

OpenEditor(h) ==
  /\ Uncovered /\ h \in OnPage \cup {NewOne}
  /\ editor' = [open |-> TRUE, of |-> h, busy |-> FALSE]
  /\ UNCHANGED <<hookTable, right, order, reveal, trial>>

\* Also while a save is under way, which goes on.
CloseEditor ==
  /\ editor.open
  /\ editor' = Shut
  /\ UNCHANGED <<hookTable, right, order, reveal, trial>>

Ordered(kind, h, url, mode) ==
  order' = [step |-> "sent", kind |-> kind, of |-> h, url |-> url, mode |-> mode,
            secret |-> 0, heard |-> TRUE]

\* The form never holds what is stored: an address left empty and a secret left alone are
\* not sent.  A new webhook needs an address, and has no secret to remove.
SubmitForm(url, mode) ==
  /\ editor.open /\ ~editor.busy
  /\ order = NoOrder                       \* bound: one change of the tab under way
  /\ editor.of = NewOne => url /\ mode # "remove"
  /\ Ordered("save", editor.of, url, mode)
  /\ editor' = [editor EXCEPT !.busy = TRUE]
  /\ UNCHANGED <<hookTable, right, reveal, trial>>

SubmitDelete ==
  /\ editor.open /\ ~editor.busy /\ editor.of # NewOne
  /\ order = NoOrder
  /\ Ordered("remove", editor.of, FALSE, "keep")
  /\ editor' = [editor EXCEPT !.busy = TRUE]
  /\ UNCHANGED <<hookTable, right, reveal, trial>>

\* A new URL for the inbound webhook: no dialog.
SubmitRotate ==
  /\ Uncovered /\ order = NoOrder
  /\ Ordered("rotate", NewOne, FALSE, "keep")
  /\ UNCHANGED <<hookTable, right, dialogs>>

Dismiss ==
  /\ Uncovered /\ reveal # NothingShown
  /\ reveal' = NothingShown
  /\ UNCHANGED <<hookTable, right, editor, order, trial>>

-----------------------------------------------------------------------------
(* The server. *)

Advance(step) == order' = [order EXCEPT !.step = step]

\* A refusal that nobody waits for is the end.
RefuseOrder ==
  order' = IF ~order.heard THEN NoOrder
           ELSE [order EXCEPT !.step = "failed", !.url = FALSE, !.mode = "keep", !.secret = 0]

\* requireMutation and the workspace's viewer.
CheckRight ==
  /\ order.step = "sent"
  /\ IF right = "manage" THEN Advance("checked") ELSE RefuseOrder
  /\ UNCHANGED <<hookTable, right, dialogs>>

FirstFree == CHOOSE h \in HookNo :
  held[h] = NoHookYet /\ \A g \in HookNo : held[g] = NoHookYet => h <= g

NewSecret(o) == IF o.mode \in {"generate", "custom"} THEN issued + 2 ELSE 0

\* One statement writes the address and the secret; coalesce and CASE keep the stored ones.
MergedRow(old, o) ==
  [url |-> IF o.url THEN issued + 1 ELSE old.url,
   secret |-> IF o.mode = "keep" THEN old.secret ELSE NewSecret(o)]

\* What the row was and is, of the tab's own save or another's.
Put(h, row) ==
  /\ held' = [held EXCEPT ![h] = row]
  /\ had' = [had EXCEPT ![h] = @ \cup {row}]
  /\ issued' = CHOOSE v \in {issued, row.url, row.secret} :
                 \A w \in {issued, row.url, row.secret} : w <= v

Write(h, row) ==
  /\ Put(h, row)
  /\ order' = [order EXCEPT !.step = "stored", !.of = h, !.url = FALSE, !.mode = "keep",
                            !.secret = IF order.mode = "generate" THEN row.secret ELSE 0]

StoreNew ==
  /\ order.step = "checked" /\ order.kind = "save" /\ order.of = NewOne
  /\ issued + 2 <= MaxIssued /\ NoHookYet \in {held[h] : h \in HookNo}
  /\ Write(FirstFree, MergedRow(NothingKept, order))
  /\ UNCHANGED <<token, right, dialogs>>

StoreChange ==
  /\ order.step = "checked" /\ order.kind = "save" /\ order.of # NewOne
  /\ issued + 2 <= MaxIssued
  /\ IF order.of \in Standing
     THEN Write(order.of, MergedRow(held[order.of], order))
     ELSE RefuseOrder /\ UNCHANGED <<held, had, issued>>
  /\ UNCHANGED <<token, right, dialogs>>

Unstore ==
  /\ order.step = "checked" /\ order.kind = "remove"
  /\ IF order.of \in Standing
     THEN /\ held' = [held EXCEPT ![order.of] = HookGone]
          /\ Advance("answered")
     ELSE RefuseOrder /\ UNCHANGED held
  /\ UNCHANGED <<token, issued, had, right, dialogs>>

RotateToken ==
  /\ order.step = "checked" /\ order.kind = "rotate"
  /\ issued + 1 <= MaxIssued
  /\ token' = issued + 1 /\ issued' = issued + 1
  /\ order' = [order EXCEPT !.step = "stored", !.secret = issued + 1]
  /\ UNCHANGED <<held, had, right, dialogs>>

\* Other tabs' changes, from their checks to their answers: what this tab can tell of them.
OthersCreate(mode) ==
  /\ mode # "remove" /\ NoHookYet \in {held[h] : h \in HookNo} /\ issued + 2 <= MaxIssued
  /\ Put(FirstFree, MergedRow(NothingKept, [url |-> TRUE, mode |-> mode]))
  /\ UNCHANGED <<token, right, dialogs, order>>

OthersSave(h, url, mode) ==
  /\ h \in Standing /\ issued + 2 <= MaxIssued
  /\ Put(h, MergedRow(held[h], [url |-> url, mode |-> mode]))
  /\ UNCHANGED <<token, right, dialogs, order>>

OthersRemove(h) ==
  /\ h \in Standing
  /\ held' = [held EXCEPT ![h] = HookGone]
  /\ UNCHANGED <<token, issued, had, right, dialogs, order>>

\* The saved webhook is read again for the answer, and the session checked once more: a
\* webhook removed meanwhile, or a session that ended, and the new secret is never told.
AnswerChange ==
  /\ order.step = "stored"
  /\ IF ActiveSession /\ (order.kind = "save" => order.of \in Standing)
     THEN Advance("answered") ELSE RefuseOrder
  /\ UNCHANGED <<hookTable, right, dialogs>>

-----------------------------------------------------------------------------
(* The page again. *)

OrderOver == order' = NoOrder

\* The list is asked for again first, which cannot fail the change.  The end of a save or a
\* deletion closes the editor, be it another one by now.
ShowDone ==
  /\ order.step = "answered" /\ order.heard
  /\ editor' = IF order.kind = "rotate" THEN editor ELSE Shut
  /\ reveal' = IF order.secret = 0 THEN reveal
               ELSE [of |-> order.of, value |-> order.secret]
  /\ OrderOver
  /\ UNCHANGED <<hookTable, right, trial>>

\* A refusal, or an answer that is lost: the server may have done it, or still do it.  Only
\* a form that still waits for it is told; a failed rotation shows nothing.
ShowFailed ==
  /\ order # NoOrder /\ order.heard
  /\ editor' = [editor EXCEPT !.busy = FALSE]
  /\ order' = IF order.step = "failed" THEN NoOrder ELSE [order EXCEPT !.heard = FALSE]
  /\ UNCHANGED <<hookTable, right, reveal, trial>>

\* Nobody waits for the answer any more.
Unheard ==
  /\ order.step = "answered" /\ ~order.heard
  /\ OrderOver
  /\ UNCHANGED <<hookTable, right, dialogs>>

-----------------------------------------------------------------------------
(* A test from the deliveries dialog, with the settings as they are stored. *)

OpenLog(h) ==
  /\ Uncovered /\ h \in OnPage
  /\ trial' = [step |-> "idle", of |-> h, with |-> NothingKept, result |-> NothingShown]
  /\ UNCHANGED <<hookTable, right, editor, order, reveal>>

CloseLog ==
  /\ trial # NoTrial
  /\ trial' = NoTrial
  /\ UNCHANGED <<hookTable, right, editor, order, reveal>>

AskTest ==
  /\ trial.step = "idle"
  /\ trial' = [trial EXCEPT !.step = "asked", !.result = NothingShown]
  /\ UNCHANGED <<hookTable, right, editor, order, reveal>>

\* targetById reads the row once: the request goes to its address, signed with its secret.
SendTest ==
  /\ trial.step = "asked" /\ right = "manage" /\ trial.of \in Standing
  /\ trial' = [trial EXCEPT !.step = "sent", !.with = held[trial.of]]
  /\ UNCHANGED <<hookTable, right, editor, order, reveal>>

\* The receiver's answer, if the session still stands; else, and when anything fails, an error.
ShowTest ==
  /\ trial.step \in {"asked", "sent"}
  /\ \/ trial.step = "sent" /\ ActiveSession
        /\ trial' = [trial EXCEPT !.step = "idle", !.result = trial.with]
     \/ trial' = [trial EXCEPT !.step = "idle"]
  /\ UNCHANGED <<hookTable, right, editor, order, reveal>>

ConsoleNext ==
  \/ LoseRight \/ CloseEditor \/ SubmitDelete \/ SubmitRotate \/ Dismiss \/ CheckRight
  \/ StoreNew \/ StoreChange \/ Unstore \/ RotateToken \/ AnswerChange
  \/ ShowDone \/ ShowFailed \/ Unheard \/ CloseLog \/ AskTest \/ SendTest \/ ShowTest
  \/ \E h \in {NewOne} \cup HookNo : OpenEditor(h)
  \/ \E h \in HookNo : OpenLog(h) \/ OthersRemove(h)
  \/ \E url \in BOOLEAN, mode \in SecretModes :
       SubmitForm(url, mode) \/ OthersCreate(mode) \/ \E h \in HookNo : OthersSave(h, url, mode)

ConsoleSpec == ConsoleInit /\ [][ConsoleNext]_consoleVars

-----------------------------------------------------------------------------
(***************************************************************************)
(* However saves, removals and lost answers interleave: what is revealed   *)
(* as a webhook's secret or as the endpoint was stored as that; a test     *)
(* went to an address of the dialog's webhook, with the secret it had at   *)
(* that address; an old form brings back no address and no secret that was *)
(* replaced since it was opened; and a form is busy only while the change  *)
(* it waits for is under way.                                              *)
(* (WebhooksPage.tsx reveal, webhook-store.ts update, targetById)          *)
(***************************************************************************)
ConsoleSafe ==
  /\ reveal # NothingShown =>
       IF reveal.of = NewOne THEN reveal.value \in 1 .. token
       ELSE \E row \in had[reveal.of] : row.secret = reveal.value
  /\ trial # NoTrial /\ trial.result # NothingShown => trial.result \in had[trial.of]
  /\ editor.busy => order # NoOrder /\ order.heard /\ order.kind \in {"save", "remove"}
  /\ \A h \in Standing :
       /\ held[h].url # 0
       /\ \A row \in had[h] :
            /\ row.url <= held[h].url
            /\ held[h].secret \in {0} \cup {v \in Issuable : row.secret <= v}
       /\ \A g \in HookNo \ {h} : \A row \in had[g] : row.url # held[h].url
=============================================================================
