---------------------------- MODULE GitHubListings ----------------------------
(***************************************************************************)
(* One access listing read from GitHub page by page (github-app.ts), by a  *)
(* user's token after the list of installations or by an installation's    *)
(* own token, while GitHub's listing changes.                              *)
(***************************************************************************)
EXTENDS Naturals, FiniteSets

CONSTANTS
  Listable,      \* ids GitHub may list, in the order of their numbers
  PageLen,       \* items on a page (100)
  MaxListPages,  \* pages read at most (100)
  MaxListMoves   \* bound: changes at GitHub

ASSUME ListingAssumption ==
  /\ Listable \subseteq Nat /\ IsFiniteSet(Listable)
  /\ {PageLen, MaxListPages} \subseteq Nat \ {0} /\ MaxListMoves \in Nat

VARIABLES
  there,         \* GitHub: what it lists
  suspended,     \* GitHub: the installation is
  listMoves,
  listing,       \* listPages' state
  during         \* listings and suspensions GitHub had since the read began

listingVars == <<there, suspended, listMoves, listing, during>>

-----------------------------------------------------------------------------
Unknown == Cardinality(Listable) + 1

ListingTypeOK ==
  /\ there \subseteq Listable /\ suspended \in BOOLEAN /\ listMoves \in 0 .. MaxListMoves
  /\ listing \in [at : {"none", "look", "token", "page", "accepted", "failed"},
                  by : {"user", "installation"}, page : 1 .. MaxListPages,
                  items : SUBSET Listable, total : 0 .. Unknown]
  /\ during \subseteq [listed : SUBSET Listable, suspended : BOOLEAN]

ListingInit ==
  /\ there \in SUBSET Listable /\ suspended \in BOOLEAN /\ listMoves = 0
  /\ listing \in [at : {"none"}, by : {"user", "installation"}, page : {1}, items : {{}},
                  total : {Unknown}]
  /\ during = {}

\* The same listing is read to the end whatever happens meanwhile.
AtGitHub ==
  /\ listMoves < MaxListMoves /\ listMoves' = listMoves + 1
  /\ \/ /\ \E i \in Listable : there' = IF i \in there THEN there \ {i} ELSE there \cup {i}
        /\ UNCHANGED suspended
     \/ suspended' = ~suspended /\ UNCHANGED there
  /\ during' = during \cup {[listed |-> there', suspended |-> suspended']}
  /\ UNCHANGED listing

-----------------------------------------------------------------------------
(* request: any answer may be an error, or one that is refused. *)

ListingFails ==
  /\ listing.at \in {"look", "token", "page"}
  /\ listing' = [listing EXCEPT !.at = "failed"]
  /\ UNCHANGED <<there, suspended, listMoves, during>>

BeginListing(by) ==
  /\ listing.at \in {"none", "accepted", "failed"}
  /\ listing' = [at |-> "look", by |-> by, page |-> 1, items |-> {}, total |-> Unknown]
  /\ during' = {[listed |-> there, suspended |-> suspended]}
  /\ UNCHANGED <<there, suspended, listMoves>>

\* repositories, installation: a suspended one is not read.
LookAtInstallation ==
  /\ listing.at = "look"
  /\ listing' = [listing EXCEPT !.at = IF suspended THEN "failed"
                                       ELSE IF listing.by = "user" THEN "page" ELSE "token"]
  /\ UNCHANGED <<there, suspended, listMoves, during>>

\* installationToken: GitHub gives none to a suspended installation.
TakeToken ==
  /\ listing.at = "token" /\ ~suspended
  /\ listing' = [listing EXCEPT !.at = "page"]
  /\ UNCHANGED <<there, suspended, listMoves, during>>

PageItems(n) ==
  {i \in there : Cardinality({j \in there : j < i}) \div PageLen = n - 1}

HasNext(n) == Cardinality(there) > n * PageLen

Complete(items, total) == Cardinality(items) = total

\* An answer of the page asked for, whose total and items agree with those before.
Consistent(n) ==
  /\ listing.total \in {Unknown, Cardinality(there)}
  /\ PageItems(n) \cap listing.items = {}

ReadListingPage ==
  /\ listing.at = "page"
  /\ LET n     == listing.page
         items == listing.items \cup PageItems(n)
         read  == [listing EXCEPT !.items = items, !.total = Cardinality(there)]
     IN listing' =
          IF ~Consistent(n) THEN [listing EXCEPT !.at = "failed"]
          ELSE IF ~HasNext(n)
          THEN IF Complete(items, Cardinality(there)) THEN [read EXCEPT !.at = "accepted"]
               ELSE [listing EXCEPT !.at = "failed"]
          ELSE IF Cardinality(items) < Cardinality(there) /\ n < MaxListPages
          THEN [read EXCEPT !.page = n + 1]
          ELSE [listing EXCEPT !.at = "failed"]
  /\ UNCHANGED <<there, suspended, listMoves, during>>

ListingNext ==
  \/ AtGitHub \/ ListingFails
  \/ \E by \in {"user", "installation"} : BeginListing(by)
  \/ LookAtInstallation \/ TakeToken \/ ReadListingPage

ListingSpec == ListingInit /\ [][ListingNext]_listingVars

-----------------------------------------------------------------------------
(* A listing is accepted only complete: everything in it was listed while  *)
(* it was read, as many items as GitHub counted, and, unless GitHub both   *)
(* added and removed some meanwhile, it is one that GitHub had; and never  *)
(* for an installation that was suspended all the time.                    *)
(* (github-app.ts listPages, nextPage, repositories, installationToken)    *)
ListingsSafe ==
  listing.at = "accepted" =>
    LET had == {d.listed : d \in during}
    IN /\ listing.items \subseteq UNION had
       /\ Cardinality(listing.items) = listing.total
       /\ \/ listing.items \in had
          \/ \E a, b \in had : a \ b # {} /\ b \ a # {}
       /\ \E d \in during : ~d.suspended
=============================================================================
