---------------------------- MODULE ReviewClaims ----------------------------
(***************************************************************************)
(* Who looks at a pull request: claims of teammates and snoozes of one     *)
(* viewer, bound to the state of the pull request they were made on        *)
(* (review-followthrough-store.ts, review-followthrough.ts) and the page   *)
(* that shows and changes them (useReviewFollowthrough.ts).  A change of   *)
(* the pull request is stored by the engineering wall under a lock that a  *)
(* claim takes too.                                                        *)
(*                                                                         *)
(* One pull request; its fingerprint is the number of its last change.     *)
(***************************************************************************)
EXTENDS Naturals

CONSTANTS
  Reviewer, NoReviewer,
  Watched,           \* the reviewers whose page is modelled; the others act on any state
  MaxRevisions,      \* bound: changes of the pull request
  MaxCommits         \* bound: changes of the pull request, the claim and the snoozes

ASSUME ReviewAssumption ==
  /\ NoReviewer \notin Reviewer /\ Watched \subseteq Reviewer
  /\ MaxRevisions \in Nat \ {0} /\ MaxCommits \in Nat

VARIABLES
  pull,        \* its revision, and whether anything calls for a reviewer
  claim,       \* ship_live_review_claims
  snooze,      \* ship_live_review_snoozes
  wallLock,    \* the advisory lock of the pull request's repository
  commits,
  post,        \* each reviewer's action on its way
  glance,      \* each page's refresh on its way
  view         \* what each page shows: the state after so many commits, or nothing

reviewVars == <<pull, claim, snooze, wallLock, commits, post, glance, view>>

-----------------------------------------------------------------------------
Revision == 1 .. MaxRevisions
Action   == {"claim", "release", "snooze", "unsnooze"}
Unclaimed == [by |-> NoReviewer, on |-> 0, live |-> FALSE]
Awake     == [on |-> 0, live |-> FALSE]
NoPost    == [step |-> "none"]
NoGlance  == [step |-> "none"]
Nothing   == [version |-> 0, fingerprint |-> 0]

ReviewTypeOK ==
  /\ pull \in [revision : Revision, actionable : BOOLEAN]
  /\ claim \in [by : Reviewer \cup {NoReviewer}, on : 0 .. MaxRevisions, live : BOOLEAN]
  /\ snooze \in [Reviewer -> [on : 0 .. MaxRevisions, live : BOOLEAN]]
  /\ wallLock \in Reviewer \cup {NoReviewer}
  /\ commits \in 1 .. MaxCommits + 1
  /\ post \in [Reviewer -> [step : {"current", "lock", "recheck", "write", "reread", "saved", "conflict", "failed"},
                            action : Action, fingerprint : Revision,
                            fresh : BOOLEAN, version : 0 .. MaxCommits + 1] \cup {NoPost}]
  /\ glance \in [Reviewer -> [step : {"sent", "read"}, fresh : BOOLEAN,
                              version : 0 .. MaxCommits + 1,
                              fingerprint : 0 .. MaxRevisions] \cup {NoGlance}]
  /\ view \in [Reviewer -> [version : 0 .. MaxCommits + 1, fingerprint : 0 .. MaxRevisions]]

ReviewInit ==
  /\ pull = [revision |-> 1, actionable |-> TRUE]
  /\ claim = Unclaimed
  /\ snooze = [u \in Reviewer |-> Awake]
  /\ wallLock = NoReviewer
  /\ commits = 1
  /\ post = [u \in Reviewer |-> NoPost]
  /\ glance = [u \in Reviewer |-> NoGlance]
  /\ view = [u \in Reviewer |-> Nothing]

rows == <<pull, claim, snooze>>
Commit == commits <= MaxCommits /\ commits' = commits + 1

-----------------------------------------------------------------------------
(* The wall stores what GitHub reports of the pull request, its reviews and its checks. *)

Ingest ==
  /\ wallLock = NoReviewer
  /\ pull.revision < MaxRevisions /\ Commit
  /\ \E b \in BOOLEAN : pull' = [revision |-> pull.revision + 1, actionable |-> b]
  /\ UNCHANGED <<claim, snooze, wallLock, post, glance, view>>

ClaimExpires ==
  /\ claim.live
  /\ claim' = [claim EXCEPT !.live = FALSE]
  /\ UNCHANGED <<pull, snooze, wallLock, commits, post, glance, view>>

SnoozeExpires(u) ==
  /\ snooze[u].live
  /\ snooze' = [snooze EXCEPT ![u].live = FALSE]
  /\ UNCHANGED <<pull, claim, wallLock, commits, post, glance, view>>

-----------------------------------------------------------------------------
(* The action: POST review-followthrough and mutate. *)

AtStep(u, s) == post[u] # NoPost /\ post[u].step = s

\* A request ends with an answer for its page, if it has one.
Step(u, s) == IF u \notin Watched /\ s \in {"saved", "conflict", "failed"} THEN NoPost
              ELSE [post[u] EXCEPT !.step = s]

Goes(u, s) ==
  /\ post' = [post EXCEPT ![u] = Step(u, s)]
  /\ UNCHANGED <<rows, commits, glance, view>>

Valid(u) == pull.actionable /\ pull.revision = post[u].fingerprint

CheckCurrent(u) ==
  /\ AtStep(u, "current")
  /\ Goes(u, IF Valid(u) THEN "lock" ELSE "conflict")
  /\ UNCHANGED wallLock

TakeLock(u) ==
  /\ AtStep(u, "lock") /\ wallLock = NoReviewer
  /\ wallLock' = u
  /\ Goes(u, "recheck")

LockIsEnough(u) == AtStep(u, "recheck") /\ Goes(u, "write") /\ UNCHANGED wallLock
\* What the caller read before it waited for the lock may have changed.
RecheckLatest(u) ==
  /\ AtStep(u, "recheck")
  /\ Goes(u, IF Valid(u) THEN "write" ELSE "conflict")
  /\ wallLock' = IF Valid(u) THEN u ELSE NoReviewer

\* The rows are unique per pull request (claims) and per viewer (snoozes).
Claimable(u) == \/ claim.by \in {u, NoReviewer}
                \/ claim.on # post[u].fingerprint
                \/ ~claim.live

Written(u) ==
  LET mine == [on |-> post[u].fingerprint, live |-> TRUE] IN
  CASE post[u].action = "claim" ->
         /\ Claimable(u)
         /\ claim' = [by |-> u, on |-> post[u].fingerprint, live |-> TRUE]
         /\ UNCHANGED snooze
    [] post[u].action = "release" ->
         /\ claim.by = u /\ claim.on = post[u].fingerprint
         /\ claim' = Unclaimed /\ UNCHANGED snooze
    [] post[u].action = "snooze" -> snooze' = [snooze EXCEPT ![u] = mine] /\ UNCHANGED claim
    [] post[u].action = "unsnooze" ->
         /\ snooze' = [snooze EXCEPT ![u] = IF @.on = post[u].fingerprint THEN Awake ELSE @]
         /\ UNCHANGED claim

Refused(u) ==
  \/ post[u].action = "claim" /\ ~Claimable(u)
  \/ post[u].action = "release" /\ (claim.by # u \/ claim.on # post[u].fingerprint)

WriteAction(u) ==
  /\ AtStep(u, "write")
  /\ wallLock' = NoReviewer
  /\ IF Refused(u)
     THEN post' = [post EXCEPT ![u] = Step(u, "conflict")] /\ UNCHANGED <<claim, snooze, commits>>
     ELSE Written(u) /\ Commit /\ post' = [post EXCEPT ![u].step = "reread"]
  /\ UNCHANGED <<pull, glance, view>>

\* The answer is what the rows say now, or that the pull request changed meanwhile.
Reread(u) ==
  /\ AtStep(u, "reread")
  /\ post' = [post EXCEPT ![u] =
       IF u \notin Watched THEN NoPost
       ELSE [@ EXCEPT !.version = commits,
                      !.step = IF pull.revision = post[u].fingerprint THEN "saved" ELSE "conflict"]]
  /\ UNCHANGED <<rows, wallLock, commits, glance, view>>

\* The session or access is gone, or the connection breaks; a transaction rolls back.
Breaks(u) ==
  /\ post[u] # NoPost /\ post[u].step \in {"current", "lock", "recheck", "write", "reread"}
  /\ wallLock' = IF wallLock = u THEN NoReviewer ELSE wallLock
  /\ Goes(u, "failed")

-----------------------------------------------------------------------------
(* The page: one request at a time is the latest, and only its answer counts. *)

Outrun(u) == [glance EXCEPT ![u] = IF @ = NoGlance THEN NoGlance ELSE [@ EXCEPT !.fresh = FALSE]]

\* act is a no-op while another action of this page is under way.
Act(u, a) ==
  /\ post[u] = NoPost
  /\ \E f \in IF u \in Watched THEN {view[u].fingerprint} \ {0} ELSE 1 .. pull.revision :
       post' = [post EXCEPT ![u] = [step |-> "current", action |-> a, fresh |-> u \in Watched,
                                    version |-> 0, fingerprint |-> f]]
  /\ glance' = Outrun(u)
  /\ UNCHANGED <<rows, wallLock, commits, view>>

\* Every 30 seconds and at every change of the wall.
Glance(u) ==
  /\ u \in Watched /\ glance[u] = NoGlance /\ post[u] = NoPost
  /\ glance' = [glance EXCEPT ![u] = [step |-> "sent", fresh |-> TRUE, version |-> 0, fingerprint |-> 0]]
  /\ UNCHANGED <<rows, wallLock, commits, post, view>>

\* GET review-followthrough: the pull request, then its claims and snoozes.
ReadState(u) ==
  /\ glance[u] # NoGlance /\ glance[u].step = "sent"
  /\ glance' = [glance EXCEPT ![u].step = "read", ![u].version = commits,
                              ![u].fingerprint = pull.revision]
  /\ UNCHANGED <<rows, wallLock, commits, post, view>>

AnyAnswer(x) == TRUE
Latest(x)    == x.fresh

Shows(u) ==
  /\ glance[u] # NoGlance /\ glance[u].step = "read"
  /\ view' = IF Latest(glance[u])
             THEN [view EXCEPT ![u] = [version |-> glance[u].version, fingerprint |-> glance[u].fingerprint]]
             ELSE view
  /\ glance' = [glance EXCEPT ![u] = NoGlance]
  /\ UNCHANGED <<rows, wallLock, commits, post>>

\* A refresh that fails shows nothing.
GlanceFails(u) ==
  /\ glance[u] # NoGlance
  /\ view' = IF Latest(glance[u]) THEN [view EXCEPT ![u] = Nothing] ELSE view
  /\ glance' = [glance EXCEPT ![u] = NoGlance]
  /\ UNCHANGED <<rows, wallLock, commits, post>>

\* A conflict loads the list again; the saved item replaces the one shown.
Answered(u) ==
  /\ post[u] # NoPost /\ post[u].step \in {"saved", "conflict", "failed"}
  /\ view' = [view EXCEPT ![u] =
       CASE ~Latest(post[u]) -> @
         [] Latest(post[u]) /\ post[u].step = "saved" ->
              [version |-> post[u].version, fingerprint |-> post[u].fingerprint]
         [] OTHER -> Nothing]
  /\ post' = [post EXCEPT ![u] = NoPost]
  /\ glance' = IF post[u].step = "conflict" THEN [glance EXCEPT ![u] = NoGlance] ELSE glance
  /\ UNCHANGED <<rows, wallLock, commits>>

\* Another workspace, user, scope or list: the requests of the former one are dropped.
OtherList(u) ==
  /\ u \in Watched
  /\ view' = [view EXCEPT ![u] = Nothing]
  /\ glance' = [glance EXCEPT ![u] = NoGlance]
  /\ post' = [post EXCEPT ![u] = IF @ = NoPost THEN NoPost ELSE [@ EXCEPT !.fresh = FALSE]]
  /\ UNCHANGED <<rows, wallLock, commits>>

ReviewNext ==
  \/ Ingest \/ ClaimExpires
  \/ \E u \in Reviewer :
       \/ SnoozeExpires(u) \/ CheckCurrent(u) \/ TakeLock(u) \/ RecheckLatest(u)
       \/ WriteAction(u) \/ Reread(u) \/ Breaks(u)
       \/ Glance(u) \/ ReadState(u) \/ Shows(u) \/ GlanceFails(u) \/ Answered(u) \/ OtherList(u)
       \/ \E a \in Action : Act(u, a)

ReviewSpec == ReviewInit /\ [][ReviewNext]_reviewVars

-----------------------------------------------------------------------------
(* Properties. *)

\* A live claim on the pull request as it stands is ended by nobody but its owner, or
\* by a change of the pull request: a teammate who acts on an older state of it, with
\* a request that was valid when it came in, does not take the claim over.
ClaimsHold ==
  [][(claim.live /\ claim.on = pull.revision /\ claim'.live /\ claim'.by # claim.by)
     => FALSE]_reviewVars

\* A page never goes back to an older state of the list: an answer read before the
\* page's own action was saved does not replace the answer to that action.
PageMovesOn ==
  [][\A u \in Reviewer : view'[u] # Nothing => view'[u].version >= view[u].version]_reviewVars

\* Claims, and the pages that show them.
ReviewsSafe == ClaimsHold /\ PageMovesOn
=============================================================================
