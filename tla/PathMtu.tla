------------------------------ MODULE PathMtu -------------------------------
(***************************************************************************)
(* Path MTU discovery of one IPv4 flow through the two programs.  The pod  *)
(* sends with the MTU its stack believes in, first that of the route the   *)
(* plugin installed; clat_egress makes the packets longer; the veth drops  *)
(* what is too long for it without a word; a router drops what is too long *)
(* for the path and sends a Packet Too Big, from which clat_ingress makes  *)
(* the MTU the pod learns.  Errors get lost or come late, the path changes *)
(* and the stack forgets.                                                  *)
(***************************************************************************)
EXTENDS ClatEgress, ClatIngress

CONSTANTS
  LinkMTUs,     \* MTUs of the pod interface
  PathMTUs,     \* MTUs behind it
  Sizes,        \* what the flow wants to send, transport header included
  Flows,        \* "segments": TCP, cut to fit; "datagram": UDP, in fragments
  MaxChanges    \* bound on changes of the path and expiries of the estimate

ASSUME MtuAssumption ==
  /\ \A m \in LinkMTUs \cup PathMTUs : m \in 1280..(U16 - 1)
  /\ Sizes \subseteq Nat \ {0}
  /\ Flows \subseteq {"segments", "datagram"}

VARIABLES
  link, path,  \* the MTU of the pod interface, and of the way behind it
  flow, want,
  pmtu,        \* the MTU the pod's stack believes in
  wire,        \* frames between the pod and the veth: <<length, fragment>>
  errs,        \* Packet Too Big messages under way: <<MTU, about a fragment>>
  low,         \* the narrowest path there was
  changes,
  done         \* everything sent has arrived

mtuvars == <<link, path, flow, want, pmtu, wire, errs, low, changes, done>>

(* netns.go RouteMTU.  Mutant: the link MTU as it is. *)
MutRouteMTU(linkMTU) == linkMTU
RouteMTU(linkMTU) == linkMTU - 20

(* is_skb_forwardable: the veth lets a VLAN tag more through (external). *)
VETH_SLACK == 4

-----------------------------------------------------------------------------
(* What the stack sends with an MTU (external), as <<length, fragment>>:   *)
(* a segment that fits, or a datagram whole if it fits and else cut at     *)
(* multiples of 8.                                                         *)
Sent4(mtu) ==
  LET room == mtu - IP4_HLEN
      cut == 8 * (room \div 8)
  IN IF flow = "segments" THEN {<<IP4_HLEN + Min2(want, room), FALSE>>}
     ELSE IF want <= room THEN {<<IP4_HLEN + want, FALSE>>}
     ELSE {<<IP4_HLEN + cut, TRUE>>}
          \cup (IF want % cut = 0 THEN {} ELSE {<<IP4_HLEN + (want % cut), TRUE>>})

(* What clat_egress makes of it. *)
Length6(f) ==
  IP6_HLEN + Payload6([hl |-> IP4_HLEN, tot_len |-> f[1],
                       frag |-> IF f[2] THEN << "fragment" >> ELSE <<>>])

MtuInit ==
  /\ link \in LinkMTUs /\ path \in PathMTUs
  /\ flow \in Flows /\ want \in Sizes
  /\ pmtu = RouteMTU(link)
  /\ wire = {} /\ errs = {} /\ changes = 0 /\ done = FALSE
  /\ low = path

(* The pod sends, or sends again. *)
Send ==
  /\ wire = {} /\ ~done
  /\ wire' = {<<Length6(f), f[2]>> : f \in Sent4(pmtu)}
  /\ UNCHANGED <<link, path, flow, want, pmtu, errs, low, changes, done>>

(* The frames that pass the veth meet the path, where a router reports its *)
(* MTU (external).                                                         *)
Travel ==
  LET passed == {f \in wire : f[1] <= link + VETH_SLACK}
      stuck == {f \in passed : f[1] > path}
  IN /\ wire # {}
     /\ wire' = {}
     /\ errs' = errs \cup {<<path, f[2]>> : f \in stuck}
     /\ done' = (passed = wire /\ stuck = {})
     /\ UNCHANGED <<link, path, flow, want, pmtu, low, changes>>

(* The pod's stack keeps the smallest MTU it was told. *)
Learn(e) ==
  /\ e \in errs /\ ~done
  /\ pmtu' = Min2(pmtu, Mtu4(e[1], e[2]))
  /\ errs' = errs \ {e}
  /\ UNCHANGED <<link, path, flow, want, wire, low, changes, done>>

Lose(e) ==
  /\ e \in errs /\ ~done
  /\ errs' = errs \ {e}
  /\ UNCHANGED <<link, path, flow, want, pmtu, wire, low, changes, done>>

PathChanges ==
  /\ changes < MaxChanges /\ ~done
  /\ path' \in PathMTUs \ {path}
  /\ low' = Min2(low, path')
  /\ changes' = changes + 1
  /\ UNCHANGED <<link, flow, want, pmtu, wire, errs, done>>

Expire ==
  /\ changes < MaxChanges /\ ~done
  /\ pmtu' = RouteMTU(link) /\ pmtu' # pmtu
  /\ changes' = changes + 1
  /\ UNCHANGED <<link, path, flow, want, wire, errs, low, done>>

AllErrors == PathMTUs \X BOOLEAN

MtuNext ==
  \/ Send \/ Travel \/ PathChanges \/ Expire
  \/ \E e \in errs : Learn(e) \/ Lose(e)

(* The application retries, frames move on, and of the errors the path     *)
(* keeps sending not every one gets lost.                                  *)
MtuFairness ==
  /\ WF_mtuvars(Send) /\ WF_mtuvars(Travel)
  /\ \A e \in AllErrors : SF_mtuvars(Learn(e))

MtuSpec == MtuInit /\ [][MtuNext]_mtuvars /\ MtuFairness

-----------------------------------------------------------------------------
(* Once the path has settled, what the pod sends arrives: "the retry goes  *)
(* through" (hack/netns-test.sh:220).  A datagram in fragments needs the   *)
(* eight bytes of the Fragment header in the MTU clat_ingress reports.     *)
GetsThrough == <>done

(* The MTU the pod believes in is never smaller than translation makes     *)
(* necessary on the narrowest path so far, however many errors arrive,     *)
(* however late: nothing is taken off twice.                               *)
EstimateTight ==
  pmtu >= Min2(RouteMTU(link), low - 20 - (IF flow = "datagram" THEN 8 ELSE 0))

(* "The route MTU of MTU - 20 already keeps segments within the link MTU"  *)
(* (DESIGN.md:230).                                                        *)
SegmentsFitLink == flow = "segments" => \A f \in wire : f[1] <= link
=============================================================================
