----------------------------- MODULE SkbProgram -----------------------------
(***************************************************************************)
(* A program of bpf/clat.c from its checks to its verdict: clat_egress     *)
(* walks the options of a frame that has some (OptionWalk) before the      *)
(* first call that changes the frame (SkbSteps).                           *)
(***************************************************************************)
EXTENDS SkbSteps, OptionWalk

CONSTANTS
  Probe,        \* the frames that carry every list of OptionLists
  FewLists      \* the lists the other frames carry

ASSUME FewAssumption == FewLists \subseteq OptionLists

vars == <<frame, walk>>

(* The option lists that fit a frame; a frame without options has none,    *)
(* and no walk.                                                            *)
ListsOf(f) ==
  IF f.opts = 0 THEN {<<>>}
  ELSE {l \in IF f \in Probe THEN OptionLists ELSE FewLists : Len(l) = 4 * f.opts}

Init ==
  /\ SkbInit
  /\ WalkInit(ListsOf(k), IF k.opts = 0 THEN "none" ELSE "walk")

(* The call returns, and the locals of the walk are gone.                  *)
WalkReturns ==
  /\ at = "done"
  /\ pc' = IF ret THEN "shot" ELSE pc
  /\ o' = <<>> /\ i' = 0 /\ turns' = 0 /\ ret' = FALSE /\ failed' = FALSE /\ at' = "none"
  /\ UNCHANGED <<k, skb, diff, old>>

Next ==
  \/ WalkStep /\ UNCHANGED frame
  \/ WalkReturns
  \/ at = "none" /\ SkbStep /\ UNCHANGED walk

Spec == Init /\ [][Next]_vars
=============================================================================
