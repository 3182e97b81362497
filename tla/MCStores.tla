--------------------------- MODULE MCStores ---------------------------
(* The stores behind a workspace's pages on small instances, one after the other: they
   share no state, so a run of one leaves the others where they start.                *)
EXTENDS Sessions, SyncRuns, Shares, ReviewClaims, Activity, Workspaces, WallSignals

VARIABLE part   \* which of them runs

storesVars == <<part, sessionVars, syncVars, shareVars, reviewVars, activityVars,
                workspaceVars, wallVars, reportVars, idVars>>

Parts == {"sessions", "imports", "shares", "reviews", "activity", "workspaces",
          "wall", "reports", "ids"}

StoresInit ==
  /\ part \in Parts
  /\ SessionInit
  /\ SyncInit
  /\ ShareInit
  /\ ReviewInit
  /\ ActivityInit
  /\ part # "activity" => told = [d \in Delivery |-> CHOOSE r \in Report : TRUE]
  /\ WorkspaceInit
  /\ part # "workspaces" => installed = {}
  /\ WallInit
  /\ part # "wall" => report = [d \in WallHook |-> CHOOSE u \in Update(CHOOSE k \in Kind : TRUE) : TRUE]
  /\ WallReportsInit
  /\ EventIdsInit

StoresNext ==
  \/ /\ part = "sessions" /\ SessionNext
     /\ UNCHANGED <<part, syncVars, shareVars, reviewVars, activityVars,
                   workspaceVars, wallVars, reportVars, idVars>>
  \/ /\ part = "imports" /\ SyncNext
     /\ UNCHANGED <<part, sessionVars, shareVars, reviewVars, activityVars,
                   workspaceVars, wallVars, reportVars, idVars>>
  \/ /\ part = "shares" /\ ShareNext
     /\ UNCHANGED <<part, sessionVars, syncVars, reviewVars, activityVars,
                   workspaceVars, wallVars, reportVars, idVars>>
  \/ /\ part = "reviews" /\ ReviewNext
     /\ UNCHANGED <<part, sessionVars, syncVars, shareVars, activityVars,
                   workspaceVars, wallVars, reportVars, idVars>>
  \/ /\ part = "activity" /\ ActivityNext
     /\ UNCHANGED <<part, sessionVars, syncVars, shareVars, reviewVars,
                   workspaceVars, wallVars, reportVars, idVars>>
  \/ /\ part = "workspaces" /\ WorkspaceNext
     /\ UNCHANGED <<part, sessionVars, syncVars, shareVars, reviewVars,
                   activityVars, wallVars, reportVars, idVars>>
  \/ /\ part = "wall" /\ WallNext
     /\ UNCHANGED <<part, sessionVars, syncVars, shareVars, reviewVars,
                   activityVars, workspaceVars, reportVars, idVars>>
  \/ /\ part = "reports" /\ WallReportsNext
     /\ UNCHANGED <<part, sessionVars, syncVars, shareVars, reviewVars,
                   activityVars, workspaceVars, wallVars, idVars>>
  \/ /\ part = "ids" /\ EventIdsNext
     /\ UNCHANGED <<part, sessionVars, syncVars, shareVars, reviewVars,
                   activityVars, workspaceVars, wallVars, reportVars>>

StoresSpec == StoresInit /\ [][StoresNext]_storesVars

\* Every variable of the part that runs has its type.
StoresTypeOK ==
  /\ part = "sessions" => SessionTypeOK
  /\ part = "imports" => SyncTypeOK
  /\ part = "shares" => ShareTypeOK
  /\ part = "reviews" => ReviewTypeOK
  /\ part = "activity" => ActivityTypeOK
  /\ part = "workspaces" => WorkspaceTypeOK
  /\ part = "wall" => WallTypeOK
  /\ part = "reports" => WallReportsTypeOK
  /\ part = "ids" => EventIdsTypeOK

\* Who signs in, connects and joins, and what their pages show.
AccountsSafe == SessionsSafe /\ [](part = "workspaces" => WorkspacesSafe)

\* What GitHub reports is one event and announced once, and the latest of it stands.
EventsSafe ==
  /\ ActivitySafe /\ WallSafe
  /\ [](part = "reports" => LastWordStands)
  /\ [](part = "ids" => OneIdEach)

=============================================================================
