-------------------------------- MODULE Radar --------------------------------
(***************************************************************************)
(* What a team is told of one pull request.  Three programs judge it from  *)
(* the same rows of ship_live_wall_signals: the page's Review Radar        *)
(* (engineering-wall.ts), the SQL of the weekly digest (digest-store.ts)   *)
(* and the reasons shown for a follow-through (review-followthrough.ts).   *)
(*                                                                         *)
(* One repository of one installation.  A queued check counts as running   *)
(* and a cancelled one as neutral, a dismissed review as a comment, in all *)
(* three.  The order of keys stands for the order of signal_key.           *)
(***************************************************************************)
EXTENDS Naturals, FiniteSets

CONSTANTS
  RadarReviewer,   \* people who review
  RadarCheck,      \* providers and names of checks
  HeadSha,         \* commits
  MaxReviewRows, MaxCheckRows,   \* bounds: rows
  MaxStamp         \* bound: times at which they are observed

ASSUME RadarAssumption ==
  MaxReviewRows \in Nat /\ MaxCheckRows \in Nat /\ MaxStamp \in Nat \ {0}

VARIABLES
  onRadar,      \* the row of the pull request
  reviewRow,    \* the rows of its reviews
  checkRow      \* the rows of pipelines

radarVars == <<onRadar, reviewRow, checkRow>>

-----------------------------------------------------------------------------
Stamp == 1 .. MaxStamp
NotYet == [at |-> 0]
NoPull == [is |-> "unknown"]

ReviewStates == [at : Stamp, reviewer : RadarReviewer,
                 decision : {"approved", "changes_requested", "commented"}]
PipelineStates == [at : Stamp, check : RadarCheck, head : HeadSha,
                   status : {"running", "passing", "failing", "neutral"}]
PullStates == [is : {"open", "draft", "closed"}, head : HeadSha, mergeable : {"unknown", "no"}]

RadarTypeOK ==
  /\ onRadar \in PullStates \cup {NoPull}
  /\ reviewRow \in [1 .. MaxReviewRows -> ReviewStates \cup {NotYet}]
  /\ checkRow \in [1 .. MaxCheckRows -> PipelineStates \cup {NotYet}]

RadarInit ==
  /\ onRadar = NoPull
  /\ reviewRow = [k \in 1 .. MaxReviewRows |-> NotYet]
  /\ checkRow = [k \in 1 .. MaxCheckRows |-> NotYet]

-----------------------------------------------------------------------------
(* Signals come in, in any order of their times (see WallSignals). *)

ReviewSignal(k, r) ==
  /\ reviewRow[k] = NotYet /\ \A i \in 1 .. k - 1 : reviewRow[i] # NotYet
  /\ reviewRow' = [reviewRow EXCEPT ![k] = r]
  /\ UNCHANGED <<onRadar, checkRow>>

\* A run keeps its check and its commit.
CheckSignal(k, c) ==
  /\ \A i \in 1 .. k - 1 : checkRow[i] # NotYet
  /\ checkRow[k] # NotYet => /\ c.check = checkRow[k].check /\ c.head = checkRow[k].head
                             /\ c.at > checkRow[k].at
  /\ checkRow' = [checkRow EXCEPT ![k] = c]
  /\ UNCHANGED <<onRadar, reviewRow>>

\* A push, a draft made ready, a conflict, a merge; a webhook that tells of several is
\* several steps.
PullSignal(p) ==
  /\ onRadar # p
  /\ onRadar = NoPull \/ \E f \in DOMAIN p : p = [onRadar EXCEPT ![f] = p[f]]
  /\ onRadar' = p
  /\ UNCHANGED <<reviewRow, checkRow>>

RadarNext ==
  \/ \E k \in 1 .. MaxReviewRows, r \in ReviewStates : ReviewSignal(k, r)
  \/ \E k \in 1 .. MaxCheckRows, c \in PipelineStates : CheckSignal(k, c)
  \/ \E p \in PullStates : PullSignal(p)

RadarSpec == RadarInit /\ [][RadarNext]_radarVars

-----------------------------------------------------------------------------
(* The rows by key, with what they are about and when; of several rows about one thing, *)
(* the newest counts.                                                                   *)

ReviewsThere ==
  [k \in {k \in 1 .. MaxReviewRows : reviewRow[k] # NotYet} |->
     [of |-> reviewRow[k].reviewer, at |-> reviewRow[k].at]]
ChecksThere ==
  [k \in {k \in 1 .. MaxCheckRows : checkRow[k] # NotYet} |->
     [of |-> checkRow[k].check, at |-> checkRow[k].at]]
ChecksOf(head) == [k \in {k \in DOMAIN ChecksThere : checkRow[k].head = head} |-> ChecksThere[k]]

Rivals(rows, k) == {i \in DOMAIN rows \ {k} : rows[i].of = rows[k].of}

\* Each choice of one row for each thing, among those not older than another.
OneForEach(rows) ==
  {c \in SUBSET {k \in DOMAIN rows : \A i \in Rivals(rows, k) : rows[i].at <= rows[k].at} :
     \A k \in DOMAIN rows : Cardinality({i \in c : rows[i].of = rows[k].of}) = 1}

\* DISTINCT ON ... ORDER BY time DESC, signal_key.
LowestOf(rows) ==
  {k \in DOMAIN rows : \A i \in Rivals(rows, k) :
     rows[i].at < rows[k].at \/ (rows[i].at = rows[k].at /\ k < i)}

\* DISTINCT ON ... ORDER BY time DESC, signal_key DESC.
HighestOf(rows) ==
  {k \in DOMAIN rows : \A i \in Rivals(rows, k) :
     rows[i].at < rows[k].at \/ (rows[i].at = rows[k].at /\ i < k)}

-----------------------------------------------------------------------------
(* The state of a pull request. *)

Decided(rs, d) == \E k \in rs : reviewRow[k].decision = d
Runs(cs, s)    == \E k \in cs : checkRow[k].status = s

PullState(rs, cs) ==
  CASE Runs(cs, "failing") -> "failing"
    [] ~Runs(cs, "failing") /\ Runs(cs, "running") -> "running"
    [] /\ cs # {} /\ \A k \in cs : checkRow[k].status = "passing"
       /\ Decided(rs, "approved") /\ ~Decided(rs, "changes_requested")
       /\ onRadar.mergeable # "no" -> "ready"
    [] OTHER -> "waiting"

\* getReviewRadar: rows of one time come in any order, and the last of them is taken.
PageRadar ==
  IF onRadar.is # "open" THEN {}
  ELSE UNION {{PullState(rs, cs) : rs \in OneForEach(ReviewsThere)} :
                cs \in OneForEach(ChecksOf(onRadar.head))}

\* With the checks of whatever commit.
DigestOfAnyHead ==
  IF onRadar.is # "open" THEN {}
  ELSE {PullState(LowestOf(ReviewsThere),
                  LowestOf(ChecksThere))}

\* readDigestSummary.
DigestRadar ==
  IF onRadar.is # "open" THEN {}
  ELSE {PullState(LowestOf(ReviewsThere),
                  LowestOf(ChecksOf(onRadar.head)))}

\* reviewFollowthrough, of the rows that current() reads.
Reasons ==
  LET rs == HighestOf(ReviewsThere)
      cs == HighestOf(ChecksOf(onRadar.head))
  IN  (IF Runs(cs, "failing") THEN {"failing"} ELSE {})
      \cup (IF Decided(rs, "changes_requested") THEN {"changes"}
            ELSE IF Decided(rs, "approved") THEN {} ELSE {"approval"})
      \cup (IF onRadar.mergeable = "no" THEN {"conflict"} ELSE {})
      \cup (IF cs = {} THEN {"unavailable"}
            ELSE IF Runs(cs, "running") THEN {"running"}
            ELSE IF Runs(cs, "neutral") THEN {"attention"} ELSE {})

Followed == onRadar.is = "open"

\* getAttention, while no service is down and no deployment failed: a failed check of the
\* latest ones of an open pull request, drafts too.
CiAttention ==
  /\ onRadar.is \in {"open", "draft"}
  /\ \E cs \in OneForEach(ChecksOf(onRadar.head)) : Runs(cs, "failing")

-----------------------------------------------------------------------------
(* Properties. *)

Untied(rows) == \A k \in DOMAIN rows : \A i \in Rivals(rows, k) : rows[i].at # rows[k].at
\* The weekly digest says of a pull request what the page may say; when no two rows about
\* one thing have the same time, the page says it too, and a pull request is ready exactly
\* when nothing is left to follow.
RadarsAgree ==
  /\ DigestRadar \subseteq PageRadar
  /\ Followed /\ Untied(ReviewsThere) /\ Untied(ChecksOf(onRadar.head)) =>
       /\ PageRadar = DigestRadar
       /\ DigestRadar = {"ready"} <=> Reasons = {}

\* The wall interrupts for a failed check only for a pull request that the radar may show
\* as failing, or that is still a draft.
AttentionExplained == CiAttention => onRadar.is = "draft" \/ "failing" \in PageRadar

\* What the page, the digest and the follow-through say of a pull request.
RadarSafe == RadarsAgree /\ AttentionExplained
=============================================================================
