------------------------------ MODULE MCPlugin ------------------------------
(***************************************************************************)
(* Values for the constants of ClatPlugin.                                 *)
(***************************************************************************)
EXTENDS ClatPlugin

Base == [valid |-> TRUE, gets |-> TRUE, failOpen |-> TRUE,
         pod4 |-> "192.0.0.2/29", gw |-> "192.0.0.1", prefix |-> "P"]

(* One configuration; "10.0.0.1" is the next hop of another owner. *)
MCAddrs == {"192.0.0.2/29"}
MCGateways == {"192.0.0.1", "10.0.0.1"}
FailOpen == {Base}
FailClosed == {[Base EXCEPT !.failOpen = FALSE]}
(* The namespace lists change, or the conflist breaks. *)
Staged == {Base, [Base EXCEPT !.failOpen = FALSE, !.gets = FALSE],
           [Base EXCEPT !.valid = FALSE]}

(* The address plan and the prefix move. *)
MovedAddrs == {"192.0.0.2/29", "192.0.0.10/29"}
MovedGateways == {"192.0.0.1", "192.0.0.9"}
Moved == {Base, [Base EXCEPT !.failOpen = FALSE, !.pod4 = "192.0.0.10/29",
                             !.gw = "192.0.0.9", !.prefix = "Q"]}

MCMacs == {"m1", "m2"}
MCMtus == {1500, 1280}
OneMac == {"m1"}
OneMtu == {1500}
=============================================================================
