----------------------------- MODULE SavedViews -----------------------------
(***************************************************************************)
(* A person's saved views (server/saved-views.ts) and the dialogs that     *)
(* show and change them, each in a tab of its own                          *)
(* (src/components/SavedViews.tsx).  Addresses are in Links.               *)
(***************************************************************************)
EXTENDS Naturals, FiniteSets

CONSTANTS
  MaxViews,     \* bound: views that are ever saved
  ViewSpace,    \* workspaces, one address in each
  NoSpaceYet,   \* a view that is not there
  Dialog,       \* dialogs
  NoDialog,     \* nobody
  ViewCap       \* the limit of a person's views

ASSUME SavedViewAssumption ==
  NoSpaceYet \notin ViewSpace /\ NoDialog \notin Dialog /\ ViewCap \in Nat /\ MaxViews \in Nat

VARIABLES
  views,      \* the table: the workspace of each view's address
  made,       \* views that were ever there
  may,        \* what this person may: see the workspaces, only sign in, or nothing
  ownerRow,   \* who holds the lock on the person's row
  dialog,     \* what a dialog shows
  change,     \* the change it asked for
  load        \* the list it asked for when it was opened, or tried again

savedVars == <<views, made, may, ownerRow, dialog, change, load>>

-----------------------------------------------------------------------------
\* An update brings a new name, or the address of the page on show.
Kinds == {"create", "update", "delete"}

ViewId == 1 .. MaxViews

NoChange == [step |-> "none"]

\* A list is whole until a change its dialog waits for is stored after the list was read.
SavedTypeOK ==
  /\ views \in [ViewId -> ViewSpace \cup {NoSpaceYet}] /\ made \in 0 .. MaxViews
  /\ may \in {"see", "sign in", "nothing"} /\ ownerRow \in Dialog \cup {NoDialog}
  /\ dialog \in [Dialog ->
       [open : BOOLEAN, list : {"none", "whole", "old"}, busy : BOOLEAN, error : BOOLEAN]]
  /\ \A d \in Dialog : change[d] = NoChange \/ change[d] \in
       [step : {"sent", "found", "allowed", "counted", "stored", "input", "failed",
                "listed"},
        kind : Kinds, id : 0 .. MaxViews, href : ViewSpace, heard : BOOLEAN]
  /\ load \in [Dialog -> {"none", "asked", "read", "superseded"}]

Closed == [open |-> FALSE, list |-> "none", busy |-> FALSE, error |-> FALSE]

SavedInit ==
  /\ views = [i \in ViewId |-> NoSpaceYet] /\ made = 0
  /\ may = "see" /\ ownerRow = NoDialog
  /\ dialog = [d \in Dialog |-> Closed]
  /\ change = [d \in Dialog |-> NoChange]
  /\ load = [d \in Dialog |-> "none"]

viewTable == <<views, made, ownerRow>>

viewPage == <<dialog, load>>

Saved == {i \in ViewId : views[i] # NoSpaceYet}

SignedOn == may # "nothing"

-----------------------------------------------------------------------------
(* What happens elsewhere. *)

LoseWorkspaces ==
  /\ may = "see" /\ may' = "sign in"
  /\ UNCHANGED <<viewTable, viewPage, change>>

EndSession ==
  /\ SignedOn /\ may' = "nothing"
  /\ UNCHANGED <<viewTable, viewPage, change>>

-----------------------------------------------------------------------------
(* A dialog. *)

\* load: the list goes, and only the newest request may bring one.
Loading(d) == [load EXCEPT ![d] = "asked"]

Superseded(d) == [load EXCEPT ![d] = IF @ = "none" THEN @ ELSE "superseded"]

OpenDialog(d) ==
  /\ ~dialog[d].open /\ change[d] = NoChange
  /\ dialog' = [dialog EXCEPT ![d] = [Closed EXCEPT !.open = TRUE]]
  /\ load' = Loading(d)
  /\ UNCHANGED <<viewTable, may, change>>

\* Unmounting drops what was asked; the server may go on with it.
CloseDialog(d) ==
  /\ dialog[d].open
  /\ dialog' = [dialog EXCEPT ![d] = Closed]
  /\ load' = [load EXCEPT ![d] = "none"]
  /\ change' = [change EXCEPT ![d] = IF @ = NoChange THEN @ ELSE [@ EXCEPT !.heard = FALSE]]
  /\ UNCHANGED <<viewTable, may>>

MayRetry(d) == dialog[d].open /\ dialog[d].error /\ ~dialog[d].busy

RetryLoad(d) ==
  /\ MayRetry(d)
  /\ dialog' = [dialog EXCEPT ![d].list = "none", ![d].error = FALSE]
  /\ load' = Loading(d)
  /\ UNCHANGED <<viewTable, may, change>>

\* The list is read, and the session checked once more.
ReadViews(d) ==
  /\ load[d] = "asked" /\ SignedOn
  /\ load' = [load EXCEPT ![d] = "read"]
  /\ UNCHANGED <<viewTable, may, dialog, change>>

\* requestVersion: an answer to an older request is dropped.
ShownList(d) ==
  IF load[d] = "read" THEN [dialog EXCEPT ![d].list = "whole"] ELSE dialog

ShowViews(d) ==
  /\ load[d] \in {"read", "superseded"}
  /\ dialog' = ShownList(d)
  /\ load' = [load EXCEPT ![d] = "none"]
  /\ UNCHANGED <<viewTable, may, change>>

\* Refused, or lost on the way.
LoadFails(d) ==
  /\ load[d] \in {"asked", "read"}
  /\ load' = [load EXCEPT ![d] = "none"]
  /\ dialog' = [dialog EXCEPT ![d].error = TRUE]
  /\ UNCHANGED <<viewTable, may, change>>

\* A form is refused on the page itself: the list stays, a load under way is given up.
RefuseHere(d) ==
  /\ dialog[d].open /\ ~dialog[d].busy
  /\ dialog' = [dialog EXCEPT ![d].error = TRUE]
  /\ load' = Superseded(d)
  /\ UNCHANGED <<viewTable, may, change>>

\* mutate: what is not in the list cannot be changed, but a view can be saved before the
\* list is there.
ChangeView(d, kind, id, href) ==
  /\ dialog[d].open /\ ~dialog[d].busy
  /\ change[d] = NoChange                  \* bound: one change of each dialog under way
  /\ IF kind = "create" THEN id = 0 ELSE dialog[d].list # "none" /\ id \in 1 .. made
  /\ change' = [change EXCEPT ![d] =
       [step |-> "sent", kind |-> kind, id |-> id, href |-> href, heard |-> TRUE]]
  /\ dialog' = [dialog EXCEPT ![d].busy = TRUE, ![d].error = FALSE]
  /\ load' = Superseded(d)
  /\ UNCHANGED <<viewTable, may>>

-----------------------------------------------------------------------------
(* The server. *)

To(d, step) == [change EXCEPT ![d].step = step]

\* authenticate, existing: a new name is stored with the address the view has now.
Find(d) ==
  /\ change[d].step = "sent"
  /\ IF ~SignedOn \/ (change[d].kind # "create" /\ change[d].id \notin Saved)
     THEN change' = To(d, "failed")
     ELSE \E href \in {change[d].href} \cup
                     IF change[d].kind = "update" THEN {views[change[d].id]} ELSE {} :
            change' = [To(d, "found") EXCEPT ![d].href = href]
  /\ UNCHANGED <<viewTable, may, viewPage>>

\* viewer: deleting a view needs no access to its workspace.
Allow(d) ==
  /\ change[d].step = "found"
  /\ change' = To(d, IF change[d].kind # "delete" /\ may # "see"
                     THEN "failed" ELSE "allowed")
  /\ UNCHANGED <<viewTable, may, viewPage>>

\* The person's row is locked while views are counted, until the new one is committed.
CountViews(d) ==
  /\ change[d].step = "allowed" /\ change[d].kind = "create"
  /\ ownerRow = NoDialog
  /\ IF Cardinality(Saved) >= ViewCap
     THEN change' = To(d, "input") /\ UNCHANGED ownerRow
     ELSE change' = To(d, "counted") /\ ownerRow' = d
  /\ UNCHANGED <<views, made, may, viewPage>>

\* What the dialog has read before no longer holds its change.  A change it gave up may be
\* stored at any later time, and no page could know: that does not count.
NoLongerWhole(d) ==
  dialog' = IF change[d].heard /\ dialog[d].list # "none"
            THEN [dialog EXCEPT ![d].list = "old"] ELSE dialog

InsertView(d) ==
  /\ change[d].step = "counted" /\ made < MaxViews
  /\ made' = made + 1
  /\ views' = [views EXCEPT ![made + 1] = change[d].href]
  /\ ownerRow' = NoDialog
  /\ NoLongerWhole(d)
  /\ change' = To(d, "stored")
  /\ UNCHANGED <<may, load>>

\* The transaction is rolled back.
InsertFails(d) ==
  /\ change[d].step = "counted"
  /\ ownerRow' = NoDialog
  /\ change' = To(d, "failed")
  /\ UNCHANGED <<views, made, may, viewPage>>

\* Another tab may have deleted the view: there is no row to change then, nor to delete.
WriteView(d) ==
  /\ change[d].step = "allowed" /\ change[d].kind # "create"
  /\ IF change[d].id \in Saved
     THEN /\ views' = [views EXCEPT ![change[d].id] =
                         IF change[d].kind = "delete" THEN NoSpaceYet ELSE change[d].href]
          /\ NoLongerWhole(d)
          /\ change' = To(d, "stored")
     ELSE /\ change' = To(d, IF change[d].kind = "delete" THEN "stored" ELSE "failed")
          /\ UNCHANGED <<views, dialog>>
  /\ UNCHANGED <<made, ownerRow, may, load>>

-----------------------------------------------------------------------------
(* The page again. *)

\* Nobody waits for the answer any more.
Forget(d) ==
  /\ change[d].step \in {"stored", "input", "failed", "listed"} /\ ~change[d].heard
  /\ change' = [change EXCEPT ![d] = NoChange]
  /\ UNCHANGED <<viewTable, may, viewPage>>

\* Before a change is answered the session is checked, for a new view also its workspace,
\* and nothing for a deletion; then the page asks for the list.
Answers(d) ==
  \/ change[d].kind = "delete" \/ may = "see"
  \/ change[d].kind = "update" /\ SignedOn

ReadAfter(d) ==
  /\ change[d].step = "stored" /\ change[d].heard
  /\ Answers(d) /\ SignedOn
  /\ change' = To(d, "listed")
  /\ UNCHANGED <<viewTable, may, viewPage>>

ShowChanged(d) ==
  /\ change[d].step = "listed" /\ change[d].heard
  /\ dialog' = [dialog EXCEPT ![d].list = "whole", ![d].busy = FALSE]
  /\ change' = [change EXCEPT ![d] = NoChange]
  /\ UNCHANGED <<viewTable, may, load>>

\* The last list stays only if what was refused cannot have changed anything.
ChangeRefused(d) ==
  /\ change[d].step = "input" /\ change[d].heard
  /\ dialog' = [dialog EXCEPT ![d].error = TRUE, ![d].busy = FALSE]
  /\ change' = [change EXCEPT ![d] = NoChange]
  /\ UNCHANGED <<viewTable, may, load>>

\* Any other answer, one that is lost included: the server may have done it, or still do it.
ChangeFails(d) ==
  /\ change[d] # NoChange /\ change[d].heard
  /\ dialog' = [dialog EXCEPT ![d].list = "none", ![d].error = TRUE, ![d].busy = FALSE]
  /\ change' = [change EXCEPT ![d].heard = FALSE]
  /\ UNCHANGED <<viewTable, may, load>>

SavedNext ==
  \/ LoseWorkspaces \/ EndSession
  \/ \E d \in Dialog :
       \/ OpenDialog(d) \/ CloseDialog(d) \/ RetryLoad(d) \/ ReadViews(d) \/ ShowViews(d)
       \/ LoadFails(d) \/ RefuseHere(d) \/ Find(d) \/ Allow(d) \/ CountViews(d) \/ InsertView(d)
       \/ InsertFails(d) \/ WriteView(d) \/ Forget(d) \/ ReadAfter(d)
       \/ ShowChanged(d) \/ ChangeRefused(d) \/ ChangeFails(d)
       \/ \E kind \in Kinds, id \in 0 .. MaxViews, href \in ViewSpace :
            ChangeView(d, kind, id, href)

SavedSpec == SavedInit /\ [][SavedNext]_savedVars

-----------------------------------------------------------------------------
(***************************************************************************)
(* A person never has more views than the limit, however many tabs save at *)
(* once; a list on show holds every change that its dialog waited for, and *)
(* none from before is left when the answer is lost (the server may still  *)
(* store that change after the next list was read); and a dialog is never  *)
(* left busy, or waiting for a list, with nothing under way that would end *)
(* it.  (saved-views.ts, SavedViews.tsx mutate, load)                      *)
(***************************************************************************)
SavedViewsSafe ==
  /\ Cardinality(Saved) <= ViewCap
  /\ \A d \in Dialog :
       /\ dialog[d].open /\ ~dialog[d].busy => dialog[d].list # "old"
       /\ dialog[d].busy => change[d] # NoChange /\ change[d].heard
       /\ dialog[d].open /\ ~dialog[d].busy /\ dialog[d].list = "none" /\ ~dialog[d].error =>
            load[d] \in {"asked", "read"}
=============================================================================
