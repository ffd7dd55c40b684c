------------------------------ MODULE PodStart ------------------------------
(***************************************************************************)
(* An ADD from its configuration to running programs, and what is counted  *)
(* from then on: the decision (PodDecision) comes first, and programs are  *)
(* loaded, attached and read (Counters) only if it leads to them.          *)
(***************************************************************************)
EXTENDS PodDecision, Counters

vars == <<decision, counting>>

Init == DecideInit /\ CountersInit

(* CmdAdd goes on to install; the locals of the decision are gone. *)
Install ==
  /\ pc = "loaded" /\ AttachEgress
  /\ conf' = <<>> /\ args' = <<>> /\ res' = <<>> /\ cfg' = NoConfig
  /\ pod6' = <<>> /\ i' = 1 /\ skip' = "" /\ pc' = "running"

(* A later ADD of the same pod decides as the first one did. *)
Next ==
  \/ DecideStep /\ UNCHANGED counting
  \/ Install
  \/ pc = "running" /\ CountersStep /\ UNCHANGED decision

Spec == Init /\ [][Next]_vars
=============================================================================
