------------------------------- MODULE HookForm -------------------------------
(***************************************************************************)
(* The contents of the form that edits an outbound webhook                 *)
(* (WebhookEditor.tsx), what validateWebhook lets through and what the     *)
(* statements of webhook-store.ts make of it.  The form never gets the     *)
(* address, the headers or the secret back: left alone they are not sent,  *)
(* and kept.                                                               *)
(*                                                                         *)
(* Who may save, requests that overlap and what the page does with the     *)
(* answers are in WebhookSettings and WebhookConsole.  Name, method,       *)
(* filters and cooldown go through the form like its other plain fields    *)
(* and are left out.                                                       *)
(***************************************************************************)
EXTENDS Naturals

CONSTANTS
  EventType,   \* event types that may be subscribed to
  Narrow,      \* the only one that a template written for one event renders
  MaxUrl,      \* bound: addresses
  MaxFormEdits \* bound: changes made in one form

ASSUME HookFormAssumption ==
  Narrow \in EventType /\ MaxUrl \in Nat \ {0} /\ MaxFormEdits \in Nat

VARIABLES
  savedHook,   \* the row of ship_live_webhooks
  form,        \* the form, if it is open
  formOf       \* history: the row that the form was opened with

formVars == <<savedHook, form, formOf>>

-----------------------------------------------------------------------------
NoHook == [preset |-> "none"]
NoForm == [edits |-> 0, preset |-> "none"]

Presets == {"slack", "lark", "custom"}
ContentTypes == {"json", "text"}
\* Templates: those of the presets, one that is no JSON, one for a single event.
Bodies == {"preset", "plain", "narrow"}
\* Success values: none, the number 0, and the texts "0" and "ok".
SuccessValues == {"none", "zero", "zero text", "ok text"}
\* What the field may say.
FieldTexts == {"", "0", "quoted 0", "ok", "quoted ok"}

HookRows ==
  [preset : Presets, url : 1 .. MaxUrl, headers : {0, 1}, secret : {0, 1}, type : ContentTypes,
   body : Bodies, signing : {"ship", "lark"}, path : BOOLEAN, value : SuccessValues,
   events : SUBSET EventType, enabled : BOOLEAN]

HookForms ==
  [edits : 0 .. MaxFormEdits, preset : Presets, url : 0 .. MaxUrl, headers : {"keep", "none", "some"},
   secret : {"keep", "none", "new", "remove"}, type : ContentTypes, body : Bodies,
   signing : {"ship", "lark"}, path : BOOLEAN, text : FieldTexts, events : SUBSET EventType,
   enabled : BOOLEAN]

HookFormTypeOK ==
  /\ savedHook \in HookRows \cup {NoHook} /\ formOf \in HookRows \cup {NoHook}
  /\ form \in HookForms \cup {NoForm}

HookFormInit == savedHook = NoHook /\ form = NoForm /\ formOf = NoHook

-----------------------------------------------------------------------------
(* The field of the success value. *)

\* Texts as they are.
ShowPlain(value) ==
  CASE value = "none" -> "" [] value \in {"zero", "zero text"} -> "0" [] value = "ok text" -> "ok"

\* What is there is shown as JSON.
ShowValue(value) ==
  CASE value = "none" -> "" [] value = "zero" -> "0"
    [] value = "zero text" -> "quoted 0" [] value = "ok text" -> "quoted ok"

\* parseValue.
ParseValue(text) ==
  CASE text = "" -> "none" [] text = "0" -> "zero"
    [] text = "quoted 0" -> "zero text" [] text \in {"ok", "quoted ok"} -> "ok text"

-----------------------------------------------------------------------------
(* The form. *)

NewForm ==
  [edits |-> 0, preset |-> "slack", url |-> 0, headers |-> "none", secret |-> "none",
   type |-> "json", body |-> "preset", signing |-> "ship", path |-> FALSE, text |-> "",
   events |-> EventType, enabled |-> TRUE]

FormFor(row) ==
  [edits |-> 0, preset |-> row.preset, url |-> 0, headers |-> "keep", secret |-> "keep",
   type |-> row.type, body |-> row.body, signing |-> row.signing, path |-> row.path,
   text |-> ShowValue(row.value), events |-> row.events, enabled |-> row.enabled]

OpenForm ==
  /\ form = NoForm
  /\ form' = IF savedHook = NoHook THEN NewForm ELSE FormFor(savedHook)
  /\ formOf' = savedHook
  /\ UNCHANGED savedHook

Edited(f) ==
  /\ form # NoForm /\ form.edits < MaxFormEdits
  /\ form' = [f EXCEPT !.edits = @ + 1]
  /\ UNCHANGED <<savedHook, formOf>>

\* A preset sets what it is made of; "custom" leaves everything as it is.
ChoosePreset(p) ==
  Edited(IF p = "custom" THEN [form EXCEPT !.preset = p]
         ELSE [form EXCEPT !.preset = p, !.type = "json", !.body = "preset",
                           !.signing = IF p = "lark" THEN "lark" ELSE "ship",
                           !.path = (p = "lark"), !.text = IF p = "lark" THEN "0" ELSE "",
                           !.secret = IF formOf = NoHook THEN "none" ELSE @])

\* A template that is not the preset's makes it a custom webhook.
EditBody(b) == Edited([form EXCEPT !.body = b, !.preset = IF b = "preset" THEN @ ELSE "custom"])
EditType(t) == Edited([form EXCEPT !.type = t])
EditUrl(u) == Edited([form EXCEPT !.url = u])
EditHeaders(h) == Edited([form EXCEPT !.headers = h])
EditSecret(s) ==
  /\ s \in (IF formOf = NoHook THEN {"none", "new"}
            ELSE {"keep", "new"} \cup (IF formOf.secret # 0 THEN {"remove"} ELSE {}))
  /\ Edited([form EXCEPT !.secret = s])
EditPath(on) == Edited([form EXCEPT !.path = on])
\* The field is disabled without a path.
EditValue(text) == form # NoForm /\ form.path /\ Edited([form EXCEPT !.text = text])
Toggle(type) ==
  Edited([form EXCEPT !.events = IF type \in @ THEN @ \ {type} ELSE @ \cup {type}])
EditEnabled(on) == Edited([form EXCEPT !.enabled = on])

CancelForm ==
  /\ form # NoForm
  /\ form' = NoForm /\ formOf' = NoHook
  /\ UNCHANGED savedHook

-----------------------------------------------------------------------------
(* The save. *)

\* compileTemplate, and the sample of each subscribed event rendered with it.
Renders(body, type, events) ==
  CASE body = "preset" -> TRUE
    [] body = "plain"  -> type = "text"
    [] body = "narrow" -> events \subseteq {Narrow}

\* What the dialog sends; absent fields are "absent".
Input(f) ==
  [f EXCEPT !.text = IF f.path THEN ParseValue(f.text) ELSE "none"]

\* A template that is tried with one event only.
ValidForOne(input, creating) ==
  /\ creating => input.url # 0
  /\ input.events # {}
  /\ \E e \in input.events : Renders(input.body, input.type, {e})

\* validateWebhook.
FormValid(input, creating) ==
  /\ creating => input.url # 0
  /\ input.events # {}
  /\ Renders(input.body, input.type, input.events)

\* A statement that writes the address as it was sent.
WrittenAsSent(input, old) ==
  [preset |-> input.preset, url |-> input.url,
   headers |-> IF input.headers = "some" THEN 1 ELSE 0,
   secret |-> IF input.secret = "new" THEN 1 ELSE 0,
   type |-> input.type, body |-> input.body, signing |-> input.signing,
   path |-> input.path, value |-> input.text,
   events |-> input.events, enabled |-> input.enabled]

\* WebhookStore.create and update.
FormWritten(input, old) ==
  [preset |-> input.preset,
   url |-> IF input.url # 0 THEN input.url ELSE old.url,
   headers |-> IF input.headers = "keep" THEN old.headers
               ELSE IF input.headers = "some" THEN 1 ELSE 0,
   secret |-> IF input.secret = "keep" THEN old.secret
              ELSE IF input.secret = "new" THEN 1 ELSE 0,
   type |-> input.type, body |-> input.body, signing |-> input.signing,
   path |-> input.path, value |-> IF input.path THEN input.text ELSE "none",
   events |-> input.events, enabled |-> input.enabled]

\* A refused save leaves the form open.  The button is off while the preview of an event of
\* the user's choice fails, which any other choice may end.
SaveForm ==
  LET input == Input(form) IN
  /\ form # NoForm
  /\ FormValid(input, formOf = NoHook)
  /\ savedHook' = FormWritten(input, savedHook)
  /\ form' = NoForm /\ formOf' = NoHook

\* The worker pauses it, also while the form is open.
ReceiverGone ==
  /\ savedHook # NoHook /\ savedHook.enabled
  /\ savedHook' = [savedHook EXCEPT !.enabled = FALSE]
  /\ UNCHANGED <<form, formOf>>

HookFormNext ==
  \/ OpenForm \/ CancelForm \/ SaveForm \/ ReceiverGone
  \/ \E p \in Presets : ChoosePreset(p)
  \/ \E b \in Bodies : EditBody(b)
  \/ \E t \in ContentTypes : EditType(t)
  \/ \E u \in 1 .. MaxUrl : EditUrl(u)
  \/ \E h \in {"none", "some"} : EditHeaders(h)
  \/ \E s \in {"new", "keep", "none", "remove"} : EditSecret(s)
  \/ \E on \in BOOLEAN : EditPath(on) \/ EditEnabled(on)
  \/ \E text \in FieldTexts : EditValue(text)
  \/ \E e \in EventType : Toggle(e)

HookFormSpec == HookFormInit /\ [][HookFormNext]_formVars

-----------------------------------------------------------------------------
(* Properties. *)

\* A form that was opened and left alone is accepted and changes nothing: what the page
\* shows of a webhook is enough to save it again.
UntouchedKeeps ==
  form # NoForm /\ form.edits = 0 /\ savedHook # NoHook /\ formOf = savedHook =>
    FormValid(Input(form), FALSE) /\ FormWritten(Input(form), savedHook) = savedHook

\* What is saved can be rendered for every event it is sent, whatever was changed first.
SavedRenders ==
  savedHook # NoHook => Renders(savedHook.body, savedHook.type, savedHook.events)

\* A webhook's form gives back what it was given, and saves what can be sent.
FormSafe == UntouchedKeeps /\ SavedRenders
=============================================================================
