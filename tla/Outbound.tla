------------------------------ MODULE Outbound ------------------------------
(***************************************************************************)
(* One request to an address that a user entered: a health check           *)
(* (health-probe.ts runProbe) or a webhook's delivery (outbound.ts         *)
(* sendOutbound).  The name is looked up once and the connection pinned to *)
(* what was checked; timer, socket and body then race to be the first to   *)
(* finish.                                                                 *)
(***************************************************************************)
EXTENDS Naturals, FiniteSets

CONSTANTS
  Outside, Inside,   \* public addresses, and the others
  BodyLimit,         \* RESPONSE_LIMIT, in chunks
  MaxChunks          \* bound: chunks that a receiver sends

ASSUME OutboundAssumption ==
  /\ Outside \cap Inside = {} /\ "none" \notin Outside
  /\ BodyLimit \in Nat /\ MaxChunks \in Nat

VARIABLES
  target,       \* what is asked
  names,        \* the addresses the name has now
  sending,      \* the request's own state
  reply,        \* what the receiver does
  clock         \* the timer: "off", "on" or "gone off"

outboundVars == <<target, names, sending, reply, clock>>

-----------------------------------------------------------------------------
(* Definitions of probes and headers, as they are accepted. *)

Headers == {"host", "x-key", "X-Key", "bad name"}

HeaderName(h) == IF h = "X-Key" THEN "x-key" ELSE h

Blocked == {"host"}

\* validateHeaders
ValidHeaders(entries) ==
  /\ \A h \in entries : HeaderName(h) \notin Blocked \cup {"bad name"}
  /\ \A h, g \in entries : HeaderName(h) = HeaderName(g) => h = g

\* validateProbe: a HEAD request has no body to check.
ValidProbe(probe) == probe.method = "HEAD" => ~probe.json

\* statuses: what counts as an answer that is all right; slow: maxLatencyMs is set.
Probe ==
  {p \in [method : {"GET", "HEAD"}, json : BOOLEAN, slow : BOOLEAN] : ValidProbe(p)}

Targets ==
  [is : {"probe"}, url : {"name", "inside", "invalid"}, probe : Probe,
   headers : {h \in SUBSET Headers : ValidHeaders(h)}]
  \cup [is : {"webhook"}, url : {"name", "inside", "invalid"}]

Unanswered == [is |-> "none"]

OutboundTypeOK ==
  /\ target \in Targets
  /\ names \in SUBSET (Outside \cup Inside)
  /\ sending \in
       [at : {"start", "lookup", "connect", "open", "done"}, looked : SUBSET (Outside \cup Inside),
        address : Outside \cup Inside \cup {"none"}, socket : BOOLEAN, read : 0 .. MaxChunks,
        outcome : {"none", "passed", "failed", "answered", "no answer"}]
  /\ reply \in [is : {"none"}] \cup
       [is : {"head", "whole", "broken"}, good : BOOLEAN, match : BOOLEAN, late : BOOLEAN,
        chunks : 0 .. MaxChunks]
  /\ clock \in {"off", "on", "over"}

OutboundInit ==
  /\ target \in Targets
  /\ names \in SUBSET (Outside \cup Inside)
  /\ sending = [at |-> "start", looked |-> {}, address |-> "none", socket |-> FALSE,
                read |-> 0, outcome |-> "none"]
  /\ reply = Unanswered
  /\ clock = "off"

-----------------------------------------------------------------------------
IsProbe == target.is = "probe"

Finished == sending.outcome # "none"

\* finish: only the first result counts; the timer is cleared and what is open destroyed.
Finish(outcome) ==
  /\ sending' = IF Finished THEN sending
                ELSE [sending EXCEPT !.outcome = outcome, !.at = "done", !.socket = FALSE]
  /\ clock' = "off"

Failure == IF IsProbe THEN "failed" ELSE "no answer"

\* A name's addresses change whenever its owner says so.
Rename ==
  /\ names' \in SUBSET (Outside \cup Inside) /\ names' # names
  /\ sending.at \in {"start", "lookup"}
  /\ UNCHANGED <<target, sending, reply, clock>>

\* publicHttpUrl, probeUrl: an address in the URL itself is checked at once.
PublicUrl == target.url = "name"

\* A probe's timer covers the lookup, a delivery's does not.
Start ==
  /\ sending.at = "start"
  /\ IF ~PublicUrl /\ ~IsProbe
     THEN Finish(Failure)
     ELSE /\ sending' = [sending EXCEPT !.at = "lookup"]
          /\ clock' = IF IsProbe THEN "on" ELSE "off"
  /\ UNCHANGED <<target, names, reply>>

\* publicAddress
PublicAddress(a) == a \in Outside

\* resolvePublic: every address must be public, and the first of them is used.
LookUp ==
  /\ sending.at = "lookup" /\ ~Finished
  /\ IF ~PublicUrl \/ names = {} \/ \E a \in names : ~PublicAddress(a)
     THEN Finish(Failure)
     ELSE /\ \E a \in names :
               sending' = [sending EXCEPT !.at = "connect", !.looked = names, !.address = a]
          /\ clock' = "on"
  /\ UNCHANGED <<target, names, reply>>

LookupFails ==
  /\ sending.at = "lookup" /\ ~Finished
  /\ Finish(Failure)
  /\ UNCHANGED <<target, names, reply>>

\* The lookup may come back after the timer: then nothing is opened.
ResolvedLate ==
  /\ sending.at = "lookup" /\ Finished
  /\ sending' = [sending EXCEPT !.at = "done"]
  /\ UNCHANGED <<target, names, reply, clock>>

\* The pinned lookup gives the socket the address that was checked.
Connect ==
  /\ sending.at = "connect" /\ ~Finished
  /\ sending' = [sending EXCEPT !.at = "open", !.socket = TRUE]
  /\ UNCHANGED <<target, names, reply, clock>>

\* The connection fails, or ends before an answer.
ConnectionFails ==
  /\ sending.at \in {"connect", "open"} /\ reply = Unanswered /\ ~Finished
  /\ Finish(Failure)
  /\ UNCHANGED <<target, names, reply>>

\* The head of an answer: its status is now known. A redirect is a status like another.
Respond ==
  /\ sending.at = "open" /\ reply = Unanswered
  /\ reply' \in [is : {"head"}, good : BOOLEAN, match : BOOLEAN, late : BOOLEAN, chunks : {0}]
  /\ UNCHANGED <<target, names, sending, clock>>

\* Too much: a probe fails, and a delivery has its status and stops reading.
TooMuch == sending.read + 1 > BodyLimit

Oversized == IF IsProbe THEN "failed" ELSE "answered"

Data ==
  /\ sending.at = "open" /\ reply.is = "head" /\ sending.read < MaxChunks /\ ~Finished
  /\ reply' = [reply EXCEPT !.chunks = @ + 1]
  /\ IF TooMuch
     THEN /\ sending' = [sending EXCEPT !.outcome = Oversized, !.at = "done", !.socket = FALSE]
          /\ clock' = "off"
     ELSE sending' = [sending EXCEPT !.read = @ + 1] /\ UNCHANGED clock
  /\ UNCHANGED <<target, names>>

\* The whole body: a probe passes if status, time and the JSON value are what it wants.
CheckPasses ==
  /\ reply.good
  /\ target.probe.slow => ~reply.late
  /\ target.probe.json => reply.match

EndOfBody ==
  /\ sending.at = "open" /\ reply.is = "head" /\ ~Finished
  /\ reply' = [reply EXCEPT !.is = "whole"]
  /\ Finish(IF ~IsProbe THEN "answered" ELSE IF CheckPasses THEN "passed" ELSE "failed")
  /\ UNCHANGED <<target, names>>

\* An interrupted body fails a probe; a delivery counts by its status.
Interrupted ==
  /\ sending.at = "open" /\ reply.is = "head" /\ ~Finished
  /\ reply' = [reply EXCEPT !.is = "broken"]
  /\ Finish(IF IsProbe THEN "failed" ELSE "answered")
  /\ UNCHANGED <<target, names>>

\* During a lookup the request ends only when that comes back.
TimesOut ==
  /\ clock = "on"
  /\ clock' = "over"
  /\ sending' = IF Finished THEN sending
                ELSE [sending EXCEPT !.outcome = Failure, !.socket = FALSE,
                                     !.at = IF @ = "lookup" THEN @ ELSE "done"]
  /\ UNCHANGED <<target, names, reply>>

OutboundNext ==
  \/ Rename \/ Start \/ LookUp \/ LookupFails \/ ResolvedLate \/ Connect \/ ConnectionFails
  \/ Respond \/ Data \/ EndOfBody \/ Interrupted \/ TimesOut

OutboundSpec == OutboundInit /\ [][OutboundNext]_outboundVars

-----------------------------------------------------------------------------
(***************************************************************************)
(* A socket is only ever opened to an address that was checked, with every *)
(* other one of the same lookup, whatever the name says since; nothing     *)
(* stays open or timed once there is a result; a probe passes only on a    *)
(* whole answer within its limits, and a delivery that times out has no    *)
(* status.  (outbound.ts resolvePublic, sendOutbound; health-probe.ts)     *)
(***************************************************************************)
OutboundSafe ==
  /\ sending.address # "none" =>
       /\ sending.address \in sending.looked /\ sending.looked \subseteq Outside
       /\ target.url = "name"
  /\ sending.socket => sending.address # "none" /\ ~Finished /\ clock = "on"
  /\ Finished => clock # "on"
  /\ sending.outcome = "passed" =>
       /\ IsProbe /\ reply.is = "whole" /\ reply.chunks <= BodyLimit
       /\ reply.good /\ (target.probe.json => reply.match)
       /\ "host" \notin target.headers
  /\ sending.outcome = "answered" => ~IsProbe /\ reply # Unanswered /\ clock # "over"
  /\ sending.read <= BodyLimit
=============================================================================
