-------------------------- MODULE DeliveryPromise --------------------------
(***************************************************************************)
(* What the delivery log promises, whatever the leases, replicas, crashes  *)
(* and retries behind it: a delivery is queued once, ends once, ends as    *)
(* "succeeded" only if the receiver took a request in since it was queued, *)
(* and is reopened only by starting over.                                  *)
(***************************************************************************)
CONSTANT Delivery
VARIABLES
  state,  \* what the log shows of each delivery
  taken   \* whether the receiver took a request in since the delivery was queued

Ended == {"succeeded", "failed", "dead", "skipped"}

Init ==
  /\ state = [d \in Delivery |-> "absent"]
  /\ taken = [d \in Delivery |-> FALSE]

Queue(d) ==
  /\ state[d] = "absent"
  /\ \E s \in {"pending", "skipped"} : state' = [state EXCEPT ![d] = s]
  /\ UNCHANGED taken

\* A request reaches the receiver, perhaps one sent before the delivery ended.
Arrive(d) ==
  /\ taken' = [taken EXCEPT ![d] = TRUE]
  /\ UNCHANGED state

End(d) ==
  /\ state[d] = "pending"
  /\ \E s \in {"succeeded", "failed", "dead"} :
       /\ s = "succeeded" => taken[d]
       /\ state' = [state EXCEPT ![d] = s]
  /\ UNCHANGED taken

StartOver(d) ==
  /\ state[d] \in Ended
  /\ state' = [state EXCEPT ![d] = "pending"]
  /\ taken' = [taken EXCEPT ![d] = FALSE]

\* Deleting a webhook, or retention, removes deliveries.
Remove(D) ==
  /\ state' = [d \in Delivery |-> IF d \in D THEN "removed" ELSE state[d]]
  /\ UNCHANGED taken

Next ==
  \/ \E d \in Delivery : Queue(d) \/ Arrive(d) \/ End(d) \/ StartOver(d)
  \/ \E D \in SUBSET Delivery : Remove(D)

Spec == Init /\ [][Next]_<<state, taken>>
=============================================================================
