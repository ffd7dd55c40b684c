---------------------------- MODULE PluginBinary ----------------------------
(***************************************************************************)
(* What the installer promises of the plugin binary: the runtime finds a   *)
(* whole version or none, a new version replaces it in one step, and a     *)
(* power loss brings back the whole version that is on disk.               *)
(***************************************************************************)
CONSTANTS Versions, Nil

VARIABLES
  bin,  \* the version the runtime finds, Nil if there is none
  disk  \* the version on disk

Init ==
  /\ bin \in Versions \cup {Nil}
  /\ disk = bin

Replace ==
  /\ bin' \in Versions
  /\ UNCHANGED disk

WriteBack ==
  /\ disk' = bin
  /\ UNCHANGED bin

PowerLoss ==
  /\ bin' = disk
  /\ UNCHANGED disk

Next == Replace \/ WriteBack \/ PowerLoss

Spec == Init /\ [][Next]_<<bin, disk>>
=============================================================================
