--------------------------- MODULE MCBrowser ---------------------------
(* A browser and what it asks on small instances, one after the other: the page with its
   stream, the tab's identity, the answers to its requests, its addresses, saved views,
   and its Review Radar beside the other places that judge a pull request. They share
   no state, so a run of one leaves the others where they start.                       *)
EXTENDS TLC, LiveFeed, PageIdentity, Principals, Links, SavedViews, Radar

VARIABLE part   \* which of them runs

Parts == {"stream", "identity", "answers", "links", "saved", "radar"}

BrowserInit ==
  /\ part \in Parts
  /\ Init
  /\ part # "stream" => granted = [w \in Workspace |-> NoAccess]
  /\ PageInit
  /\ part # "identity" => cookie = (CHOOSE u \in User : TRUE) /\ mine = [u \in User |-> {}]
  /\ PrincipalInit
  /\ LinkInit
  /\ part # "links" => address.path = "/" /\ thisDay = (CHOOSE d \in LinkDays : TRUE)
  /\ SavedInit
  /\ RadarInit

BrowserNext ==
  \/ /\ part = "stream" /\ Next
     /\ UNCHANGED <<part, pageVars, principalVars, linkVars, savedVars, radarVars>>
  \/ /\ part = "identity" /\ PageNext
     /\ UNCHANGED <<part, vars, principalVars, linkVars, savedVars, radarVars>>
  \/ /\ part = "answers" /\ PrincipalNext
     /\ UNCHANGED <<part, vars, pageVars, linkVars, savedVars, radarVars>>
  \/ /\ part = "links" /\ LinkNext
     /\ UNCHANGED <<part, vars, pageVars, principalVars, savedVars, radarVars>>
  \/ /\ part = "saved" /\ SavedNext
     /\ UNCHANGED <<part, vars, pageVars, principalVars, linkVars, radarVars>>
  \/ /\ part = "radar" /\ RadarNext
     /\ UNCHANGED <<part, vars, pageVars, principalVars, linkVars, savedVars>>

browserVars ==
  <<part, vars, pageVars, principalVars, linkVars, savedVars, radarVars>>

BrowserSpec == BrowserInit /\ [][BrowserNext]_browserVars

\* Every variable of the part that runs has its type.
BrowserTypeOK ==
  /\ part = "stream" => TypeOK
  /\ part = "identity" => PageTypeOK
  /\ part = "answers" => PrincipalTypeOK
  /\ part = "links" => LinkTypeOK
  /\ part = "saved" => SavedTypeOK
  /\ part = "radar" => RadarTypeOK

\* What a request brings back belongs to the workspace and to the person it was asked for,
\* and a page's address and a saved view to what was on show; the Review Radar says what others say.
AnswersSafe ==
  /\ AnswersBelong /\ PrincipalsSafe /\ SavedViewsSafe
  /\ part = "links" => LinksSafe
  /\ part = "radar" => RadarSafe

\* Request, Call, Asking, Dialog and HeadSha have the same members, Workspace and
\* RadarReviewer too.
Alike == Permutations(Request) \cup Permutations(Workspace)

=============================================================================
