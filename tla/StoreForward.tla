---------------------------- MODULE StoreForward ----------------------------
(***************************************************************************)
(* What a store-and-forward stage promises, without its passes, offsets,   *)
(* retries or crashes: an item is forwarded only after it is recorded, it  *)
(* is confirmed only when the other side has received it, and none of the  *)
(* three is ever taken back.  Agent implements it for recordings and the   *)
(* bucket, Delivery for the lines of rollouts.jsonl and the gateway.       *)
(***************************************************************************)
EXTENDS FiniteSets

CONSTANT Recordings

VARIABLES
  recorded,   \* on the robot's disk, under its final name or as a whole line
  received,   \* completely on the other side
  confirmed   \* durably marked as done: the manifest, the checkpoint

Init == recorded = {} /\ received = {} /\ confirmed = {}

Record(r) ==
  /\ r \notin recorded
  /\ recorded' = recorded \cup {r}
  /\ UNCHANGED <<received, confirmed>>

\* One transfer may bring several.
Receive(S) ==
  /\ S \subseteq recorded
  /\ received' = received \cup S
  /\ UNCHANGED <<recorded, confirmed>>

\* One save of the manifest or the checkpoint may confirm several.
Confirm(S) ==
  /\ S \subseteq received
  /\ confirmed' = confirmed \cup S
  /\ UNCHANGED <<recorded, received>>

Next ==
  \/ \E r \in Recordings : Record(r)
  \/ \E S \in SUBSET Recordings : Receive(S) \/ Confirm(S)

vars == <<recorded, received, confirmed>>

Spec == Init /\ [][Next]_vars

EventuallyReceived ==
  \A r \in Recordings : r \in recorded ~> r \in received
=============================================================================
