------------------------------- MODULE Links -------------------------------
(***************************************************************************)
(* The addresses of the private pages: what a page reads from one          *)
(* (src/lib/routes.ts parseRoute), the address it writes for itself        *)
(* (routeHref), and what of it a saved view keeps (shared/saved-views.ts). *)
(* A parameter is one of a few texts that the code tells apart, or a day;  *)
(* 0 is a text that is not a day.                                          *)
(***************************************************************************)
EXTENDS Integers, FiniteSets, Functions

CONSTANTS
  LinkDays,      \* days of the calendar; every seventh is a Monday
  RangeLimit,    \* days of the longest range
  MaxParams      \* bound: parameters of an address, besides those of a period

ASSUME LinkAssumption == LinkDays \subseteq Nat \ {0} /\ RangeLimit \in Nat /\ MaxParams \in Nat

VARIABLES
  address,     \* the address of the page: its path and parameters
  thisDay      \* the current day

linkVars == <<address, thisDay>>

-----------------------------------------------------------------------------
\* Team, milestones and webhooks are like health; "/x" is any other path.
PagePaths == {"/", "/feed", "/health", "/recap"}

Presets == {"today", "7d", "30d", "month", "custom"}

FeedPeriods == {"24h", "7d", "30d"}

\* odd: a text with control characters; long: over a limit; spaced: with spaces around.
ParamValues ==
  [workspace  |-> {"mine", "unknown"},
   scene      |-> {"scene", "other"},
   env        |-> {"plain", "long", "odd"},
   repo       |-> {"plain", "spaced", "long", "odd"},
   type       |-> {"kind", "other"},
   tag        |-> {"plain", "upper", "long", "other"},
   q          |-> {"spaced", "cut", "long", "odd"},
   period     |-> Presets \cup FeedPeriods \cup {"other"},
   from       |-> LinkDays \cup {0},
   to         |-> LinkDays \cup {0},
   week       |-> LinkDays \cup {0},
   person     |-> {"login", "other"},
   repository |-> {"name", "other"}]

OfPeriod == {"period", "from", "to"}

\* resolvePulseRange: from the first day to the last, or none.
NoRange == <<>>

DayRange(first, last, now) ==
  IF last > now \/ first > last \/ last - first + 1 > RangeLimit THEN NoRange
  ELSE <<first, last>>

CustomRange(search, now) ==
  IF /\ {"from", "to"} \subseteq DOMAIN search
     /\ search.from # 0 /\ search.to # 0
  THEN DayRange(search.from, search.to, now) ELSE NoRange

MonthStart(now) == now - (now % 31)

\* A week starts on a Monday.
IsWeek(day, now) == day # 0 /\ day <= now /\ day % 7 = 0

RangeOf(period, search, now) ==
  CASE period = "today"  -> <<now, now>>
    [] period = "24h"    -> <<now - 1, now>>
    [] period = "7d"     -> <<now - 6, now>>
    [] period = "30d"    -> <<now - 29, now>>
    [] period = "month"  -> <<MonthStart(now), now>>
    [] period = "custom" -> CustomRange(search, now)

-----------------------------------------------------------------------------
(* Routes: the page, and what the address says about it. *)

\* parseRoute: the parameters that a page reads.
Understands(page, key, search) ==
  LET value == search[key]
  IN CASE key = "workspace"          -> TRUE
       [] key = "week"               -> page = "/recap"
       [] key = "scene"              -> page = "/" /\ value = "scene"
       [] key = "env"                -> page = "/" /\ value = "plain"
       [] key \in {"repo", "tag"}    -> page = "/feed" /\ value \notin {"other"} \cup
                                          IF key = "repo" THEN {"long"} ELSE {}
       [] key = "type"               -> page = "/feed" /\ value = "kind"
       [] key = "q"                  -> page = "/feed"
       [] key = "period"             -> \/ page = "/feed" /\ value \in FeedPeriods \ {"24h"}
                                        \/ page = "/" /\ value \in Presets \ {"7d"}
       [] key \in {"from", "to"}     ->
            \/ page = "/feed"
            \/ page = "/" /\ "period" \in DOMAIN search /\ search.period = "custom"
       [] key = "person"             -> value = "login"
       [] key = "repository"         -> value = "name"

\* A repository is trimmed, a tag in lower case, a query cut at its limit.
AsRead(key, value) ==
  CASE key = "repo" /\ value = "spaced" -> "plain"
    [] key = "tag" /\ value = "upper"   -> "plain"
    [] key = "q" /\ value = "long"      -> "cut"
    [] OTHER                            -> value

ParseRoute(a) ==
  LET page == IF a.path \in PagePaths THEN a.path ELSE "/"
      keys == {k \in DOMAIN a.search : Understands(page, k, a.search)}
  IN [page |-> page, of |-> [k \in keys |-> AsRead(k, a.search[k])]]

\* routeHref: a page writes only what is its own, and no default.
Writes(route, key) ==
  CASE key \in {"workspace", "person", "repository"} -> TRUE
    [] key = "week"                         -> route.page = "/recap"
    [] key \in {"scene", "env"}             -> route.page = "/"
    [] key \in {"repo", "type", "tag", "q"} -> route.page = "/feed"
    [] key = "period"                       ->
         \/ route.page = "/feed" /\ route.of.period # "24h"
         \/ route.page = "/" /\ route.of.period # "7d"
    [] key \in {"from", "to"}               ->
         \/ route.page = "/feed"
         \/ route.page = "/" /\ "period" \in DOMAIN route.of /\ route.of.period = "custom"

RouteHref(route) ==
  [path |-> route.page,
   search |-> Restrict(route.of, {k \in DOMAIN route.of : Writes(route, k)})]

With(f, key, value) == [k \in DOMAIN f \cup {key} |-> IF k = key THEN value ELSE f[k]]

\* The address of the page on show, with its workspace.
CurrentHref(route) == RouteHref([route EXCEPT !.of = With(@, "workspace", "mine")])

-----------------------------------------------------------------------------
(* Saved views. *)

NotSaved == [path |-> "none"]

\* What a saved view keeps besides its period: nothing over a limit or with control characters.
Keeps(path, key, value) ==
  CASE key = "workspace"           -> TRUE
    [] key = "env"                 -> path = "/" /\ value = "plain"
    [] key = "scene"               -> path = "/" /\ value = "scene"
    [] key = "type"                -> path = "/feed" /\ value = "kind"
    [] key \in {"repo", "tag", "q"} -> path = "/feed" /\ value \notin {"long", "odd"}
    [] key = "person"              -> value = "login"
    [] key = "repository"          -> value = "name"
    [] OTHER                       -> FALSE

PeriodIn(search, default) == IF "period" \in DOMAIN search THEN search.period ELSE default

\* The parameters of the period that are kept, or none if it is refused.
PeriodKept(path, search, now) ==
  LET custom == {[from |-> r[1], to |-> r[2]] : r \in {CustomRange(search, now)} \ {NoRange}}
  IN CASE path = "/" ->
            LET period == PeriodIn(search, "7d")
            IN IF period = "custom" THEN {With(c, "period", period) : c \in custom}
               ELSE {[period |-> p] : p \in {period} \cap Presets}
       [] path = "/feed" ->
            IF DOMAIN search \cap {"from", "to"} # {} THEN custom
            ELSE {[period |-> p] : p \in {PeriodIn(search, "24h")} \cap FeedPeriods}
       [] path = "/recap" /\ "week" \in DOMAIN search ->
            IF IsWeek(search.week, now) THEN {[week |-> search.week]} ELSE {}
       [] OTHER -> {<<>>}

\* normalizeSavedView
NormalizeView(a, now) ==
  LET kept   == {k \in DOMAIN a.search : Keeps(a.path, k, a.search[k])}
      period == PeriodKept(a.path, a.search, now)
  IN IF \/ a.path \notin PagePaths
        \/ "workspace" \notin DOMAIN a.search \/ a.search.workspace # "mine"
        \/ period = {}
     THEN NotSaved
     ELSE LET p == CHOOSE p \in period : TRUE
          IN [path |-> a.path,
              search |-> [k \in kept \cup DOMAIN p |->
                            IF k \in DOMAIN p THEN p[k] ELSE a.search[k]]]

\* savedViewPeriodLabel
PeriodLabel(a) ==
  LET period == PeriodIn(a.search, IF a.path = "/" THEN "7d" ELSE "24h")
  IN CASE {"from", "to"} \subseteq DOMAIN a.search -> "fixed"
       [] a.path = "/recap" -> IF "week" \in DOMAIN a.search THEN "fixed" ELSE "rolling"
       [] a.path \in {"/", "/feed"} /\ DOMAIN a.search \cap {"from", "to"} = {} ->
            IF period = "month" THEN "month" ELSE "rolling"
       [] OTHER -> "current view"

-----------------------------------------------------------------------------
LinkTypeOK ==
  /\ address.path \in PagePaths \cup {"/x"}
  /\ \A k \in DOMAIN address.search : address.search[k] \in ParamValues[k]
  /\ thisDay \in LinkDays

LinkInit ==
  /\ address \in [path : PagePaths \cup {"/x"}, search : {<<>>}]
  /\ thisDay \in LinkDays

\* An address is typed, or comes from a link: any parameter may be in it.
TypeAddress(key, value) ==
  /\ key \notin DOMAIN address.search
  /\ key \in OfPeriod \/ Cardinality(DOMAIN address.search \ OfPeriod) < MaxParams
  /\ address' = [address EXCEPT !.search = With(@, key, value)]
  /\ UNCHANGED thisDay

\* Another page is opened with what this one says.
TurnTo(page) ==
  /\ address' = RouteHref([ParseRoute(address) EXCEPT !.page = page])
  /\ UNCHANGED thisDay

\* The page is saved, and the view opened.
OpenSaved ==
  LET saved == NormalizeView(CurrentHref(ParseRoute(address)), thisDay)
  IN /\ saved # NotSaved
     /\ address' = RouteHref(ParseRoute(saved))
     /\ UNCHANGED thisDay

NextDay ==
  /\ thisDay + 1 \in LinkDays
  /\ thisDay' = thisDay + 1
  /\ UNCHANGED address

LinkNext ==
  \/ \E key \in DOMAIN ParamValues : \E value \in ParamValues[key] : TypeAddress(key, value)
  \/ \E page \in PagePaths : TurnTo(page)
  \/ OpenSaved \/ NextDay

LinkSpec == LinkInit /\ [][LinkNext]_linkVars

-----------------------------------------------------------------------------
\* The days that a page shows (usePulseDashboard, PulseHistoryFeed, useRecap).
ShownDays(route, now) ==
  CASE route.page = "/" -> RangeOf(PeriodIn(route.of, "7d"), route.of, now)
    [] route.page = "/feed" ->
         IF DOMAIN route.of \cap {"from", "to"} # {} THEN CustomRange(route.of, now)
         ELSE RangeOf(PeriodIn(route.of, "24h"), route.of, now)
    [] route.page = "/recap" ->
         IF "week" \notin DOMAIN route.of THEN <<now - 7 - (now % 7), now - 1 - (now % 7)>>
         ELSE IF IsWeek(route.of.week, now) THEN <<route.of.week, route.of.week + 6>>
         ELSE NoRange
    [] OTHER -> <<now, now>>

Later == {d \in LinkDays : d >= thisDay}

\* What no saved view keeps: a tag of more than 40 characters, and control characters.
Unkept(key, value) == key \in {"repo", "tag", "q"} /\ value \in {"long", "odd"}

(***************************************************************************)
(* A page's own address opens that page.  A saved view opens the page it   *)
(* was made on, with the same days now and later, until it is changed: it  *)
(* can be renamed on any later day and stays as it is; what its label says *)
(* is fixed stays, and what is rolling goes on; and a page that can be     *)
(* shown can be saved.  (routes.ts, saved-views.ts)                        *)
(***************************************************************************)
LinksSafe ==
  LET route == ParseRoute(address)
      saved == NormalizeView(CurrentHref(route), thisDay)
      opened == ParseRoute(saved)
      ordinary == DOMAIN route.of \ (OfPeriod \cup {"workspace"})
  IN /\ ParseRoute(RouteHref(route)) = route
     /\ ShownDays(route, thisDay) # NoRange => saved # NotSaved
     /\ saved # NotSaved =>
          /\ \A d \in Later :
               /\ NormalizeView(saved, d) = saved
               /\ ShownDays(opened, d) = ShownDays(route, d)
               /\ PeriodLabel(saved) = "fixed" =>
                    ShownDays(opened, d) = ShownDays(opened, thisDay)
               /\ PeriodLabel(saved) = "rolling" /\ opened.page # "/recap" /\ d # thisDay =>
                    ShownDays(opened, d) # ShownDays(opened, thisDay)
          /\ opened.page = route.page /\ opened.of.workspace = "mine"
          /\ \A k \in ordinary :
               Unkept(k, route.of[k]) \/ (k \in DOMAIN opened.of /\ opened.of[k] = route.of[k])
          /\ DOMAIN opened.of \subseteq DOMAIN route.of \cup {"workspace"}
=============================================================================
