------------------------------- MODULE MCSkb --------------------------------
(* Every kind of frame that passes the checks of the programs. *)
EXTENDS SkbProgram

Frags == {"no", "first", "later"}

MCEgress ==
  {f \in [prog: {"egress"}, proto: {"tcp", "udp", "udp0", "echo", "other"}, frag: Frags,
          opts: {0, 1, 2, 10}, inner: {"other"}, infrag: {"no"}, quoted: {0}] :
     f.frag # "no" => f.proto \notin {"echo", "udp0"}}

MCIngress ==
  {f \in [prog: {"ingress"}, proto: {"tcp", "udp", "echo", "other"}, frag: Frags,
          opts: {0}, inner: {"other"}, infrag: {"no"}, quoted: {0}] :
     f.frag # "no" => f.proto # "echo"}
  \cup
  {f \in [prog: {"ingress"}, proto: {"error"}, frag: {"no"}, opts: {0},
          inner: {"tcp", "udp", "echo", "other"}, infrag: Frags, quoted: 0..7] :
     /\ f.quoted <= IF f.infrag = "later" THEN 3 ELSE L4Size(f.inner)
     /\ f.infrag # "no" => f.inner # "echo"}

MCFrames == MCEgress \cup MCIngress

(* Every list of four bytes over an alphabet with each kind of type byte   *)
(* and the lengths around the boundaries, and every list of eight over a   *)
(* smaller one; and the longest there is.                                  *)
NOPs(n) == [j \in 1..n |-> 1]
MCLists ==
  [1..4 -> {0, 1, 2, 3, 4, 131, 137}] \cup [1..8 -> {0, 1, 2, 3, 131}]
  \cup {NOPs(40), [NOPs(40) EXCEPT ![40] = 137]}
MCFewLists == {NOPs(4), NOPs(8), NOPs(40), [NOPs(40) EXCEPT ![40] = 137]}
MCProbe == {f \in MCEgress : f.opts # 10 /\ f.proto = "tcp" /\ f.frag = "no"}
=============================================================================
