----------------------------- MODULE Semaphore -----------------------------
(***************************************************************************)
(* What an admission point of the server promises: each gate has at most   *)
(* its limit of users inside, nobody gets in but by asking there, and      *)
(* whoever asks or is inside stays so until it does something about it.    *)
(* The classes of the extraction executor implement it.                    *)
(***************************************************************************)
EXTENDS Integers, FiniteSets

CONSTANTS Gate, User, Limit

VARIABLES asking, inside

Init == asking = [g \in Gate |-> {}] /\ inside = [g \in Gate |-> {}]

Ask(g, u) ==
  /\ u \notin asking[g] \cup inside[g]
  /\ asking' = [asking EXCEPT ![g] = @ \cup {u}]
  /\ UNCHANGED inside

Enter(g, u) ==
  /\ u \in asking[g]
  /\ Cardinality(inside[g]) < Limit[g]
  /\ asking' = [asking EXCEPT ![g] = @ \ {u}]
  /\ inside' = [inside EXCEPT ![g] = @ \cup {u}]

GiveUp(g, u) ==
  /\ u \in asking[g]
  /\ asking' = [asking EXCEPT ![g] = @ \ {u}]
  /\ UNCHANGED inside

Leave(g, u) ==
  /\ u \in inside[g]
  /\ inside' = [inside EXCEPT ![g] = @ \ {u}]
  /\ UNCHANGED asking

Next == \E g \in Gate, u \in User : Ask(g, u) \/ Enter(g, u) \/ GiveUp(g, u) \/ Leave(g, u)

Spec == Init /\ [][Next]_<<asking, inside>>
=============================================================================
