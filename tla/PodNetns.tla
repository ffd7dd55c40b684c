------------------------------ MODULE PodNetns ------------------------------
(***************************************************************************)
(* The network state of one pod's network namespace, as far as cilium-clat *)
(* reads or writes it, the netlink calls the plugin makes on it, and the   *)
(* read-only classifications of internal/clat/netns.go and attach.go.      *)
(*                                                                         *)
(* A namespace is a record; a netlink call is a function from records to   *)
(* records.  The netlink calls belong to the Linux kernel: they are        *)
(* modelled from how the plugin and its tests use them.                    *)
(***************************************************************************)
EXTENDS Integers

CONSTANTS
  Addrs,      \* IPv4 prefixes that can sit on the pod interface
  Gateways,   \* IPv4 next hops
  Macs,       \* link-layer addresses
  Mtus,       \* link MTUs
  Prefixes,   \* CLAT prefixes: the .rodata constants a program is loaded with
  Versions,   \* versions of the plugin binary: the instructions it loads
  Nil         \* no entry

Hooks == {"egress", "ingress"}

(* netns.go RouteMTU: the 20 bytes an IPv6 header has more than an IPv4 one *)
RouteMTU(linkMTU) == linkMTU - 20

Routes == [gw: Gateways, mtu: {RouteMTU(m) : m \in Mtus}]
Programs == [ver: Versions, prefix: Prefixes]

ASSUME NetnsAssumption ==
  /\ Mtus \subseteq Int
  /\ Nil \notin Macs
  /\ Nil \notin Routes
  /\ Nil \notin Programs

Netns ==
  [addrs   : SUBSET Addrs,                 \* addresses on the pod interface
   neigh   : [Gateways -> Macs \cup {Nil}],\* permanent neighbour entries
   hosts   : SUBSET Gateways,              \* /32 scope-link routes
   def     : Routes \cup {Nil},            \* the metric-0 default route
   qdisc   : BOOLEAN,                      \* clsact on the pod interface
   filters : [Hooks -> Programs \cup {Nil}],\* filters named clat_*
   tunAddr : BOOLEAN,                      \* an address on another link
   tunRoute: BOOLEAN]                      \* a default route of other metric

EmptyNetns ==
  [addrs |-> {}, neigh |-> [g \in Gateways |-> Nil], hosts |-> {}, def |-> Nil,
   qdisc |-> FALSE, filters |-> [h \in Hooks |-> Nil],
   tunAddr |-> FALSE, tunRoute |-> FALSE]

-----------------------------------------------------------------------------
(* What the plugin installs for configuration c, and what it looks for.    *)

(* Mutant: the link MTU is taken as it is. *)
MutDefaultRoute(c, linkMTU) == [gw |-> c.gw, mtu |-> linkMTU]
DefaultRoute(c, linkMTU) == [gw |-> c.gw, mtu |-> RouteMTU(linkMTU)]
Program(c, v) == [ver |-> v, prefix |-> c.prefix]

-----------------------------------------------------------------------------
(* Netlink calls (external).                                               *)

AddrReplace(n, a) == [n EXCEPT !.addrs = @ \cup {a}]
NeighSet(n, g, m) == [n EXCEPT !.neigh[g] = m]
HostReplace(n, g) == [n EXCEPT !.hosts = @ \cup {g}]

(* The kernel takes a default route only if its next hop is on-link.       *)
DefAccepted(n, r) == r.gw \in n.hosts
DefReplace(n, r) == [n EXCEPT !.def = r]

(* RouteDel names the next hop and the MTU metric, and removes a route     *)
(* that has both.                                                          *)
DefDel(n, r) == [n EXCEPT !.def = IF @ = r THEN Nil ELSE @]
HostDel(n, g) == [n EXCEPT !.hosts = @ \ {g}]
NeighDel(n, g) == [n EXCEPT !.neigh[g] = Nil]

(* With its last IPv4 address the interface loses its IPv4 routes and      *)
(* neighbours (netns_test.go relies on it: "Deleting the address also      *)
(* drops the route").                                                      *)
AddrDel(n, a) ==
  IF a \in n.addrs /\ n.addrs \ {a} = {}
  THEN [n EXCEPT !.addrs = {}, !.hosts = {}, !.def = Nil,
                 !.neigh = [g \in Gateways |-> Nil]]
  ELSE [n EXCEPT !.addrs = @ \ {a}]

QdiscAdd(n) == [n EXCEPT !.qdisc = TRUE]
FilterReplace(n, h, prog) == [n EXCEPT !.filters[h] = prog]
FilterDel(n, h) == [n EXCEPT !.filters[h] = Nil]

(* Deleting the qdisc takes every filter on it along. *)
QdiscDel(n) == [n EXCEPT !.qdisc = FALSE, !.filters = [h \in Hooks |-> Nil]]

-----------------------------------------------------------------------------
(* InspectIPv4 reads the addresses of every link, then the default routes  *)
(* of the main table.                                                      *)

OurAddr(n, c) == c.pod4 \in n.addrs
ForeignAddr(n, c) == n.addrs \ {c.pod4} # {} \/ n.tunAddr
OurRoute(n, c) == n.def # Nil /\ n.def.gw = c.gw
ForeignRoute(n, c) == (n.def # Nil /\ n.def.gw # c.gw) \/ n.tunRoute

(* CheckIPv4 and CheckAttached.  The kernel's program tag identifies the   *)
(* instructions; the constants live in a .rodata map and do not enter it.  *)
Tag(prog) == prog.ver
AddrOK(n, c) == c.pod4 \in n.addrs
NeighOK(n, c, mac) == n.neigh[c.gw] = mac
(* Mutants: the route MTU, the program tag are not compared. *)
MutRoutesOK(n, c, mtu) == c.gw \in n.hosts /\ n.def # Nil /\ n.def.gw = c.gw
RoutesOK(n, c, mtu) == c.gw \in n.hosts /\ n.def = DefaultRoute(c, mtu)
MutFiltersOK(n, v) == \A h \in Hooks : n.filters[h] # Nil
FiltersOK(n, v) == \A h \in Hooks : n.filters[h] # Nil /\ Tag(n.filters[h]) = v

-----------------------------------------------------------------------------
(* Vocabulary of the properties.                                           *)

(* Everything ADD installs is there, with these parameters. *)
Complete(n, c, v, mac, mtu) ==
  /\ c.pod4 \in n.addrs
  /\ n.neigh[c.gw] = mac
  /\ c.gw \in n.hosts
  /\ n.def = [gw |-> c.gw, mtu |-> mtu - 20]
  /\ n.qdisc
  /\ \A h \in Hooks : n.filters[h] = [ver |-> v, prefix |-> c.prefix]

(* Nothing ADD installs is there. *)
Clean(n, c) ==
  /\ ~OurAddr(n, c)
  /\ n.neigh[c.gw] = Nil
  /\ c.gw \notin n.hosts
  /\ ~OurRoute(n, c)
  /\ ~n.qdisc
  /\ \A h \in Hooks : n.filters[h] = Nil

Foreign(n, c) == ForeignAddr(n, c) \/ ForeignRoute(n, c)
=============================================================================
