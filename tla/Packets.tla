------------------------------ MODULE Packets -------------------------------
(***************************************************************************)
(* The frames that pass the two hooks of a pod interface, as far as        *)
(* bpf/clat.c reads or writes them.                                        *)
(*                                                                         *)
(* Lengths and fragment fields are the numbers on the wire.  Addresses,    *)
(* ports, identifiers and payload are names.  A checksum field is a linear *)
(* form over the pieces of the packet it covers (module LinearForms).      *)
(***************************************************************************)
EXTENDS LinearForms, Sequences

CONSTANTS
  Hosts4,      \* IPv4 addresses
  NoMapping,   \* those that are multicast or the limited broadcast
  Pod4,        \* POD_IP4, 192.0.0.2
  Err4,        \* ERR_IP4, 192.0.0.8
  Faults       \* what may go wrong in a kernel helper: "helper" a call fails,
               \* "pull" no memory to linearise, "carry" see EmbeddedField

ASSUME AddressAssumption ==
  /\ NoMapping \subseteq Hosts4
  /\ Pod4 \in Hosts4 \ NoMapping
  /\ Err4 \in Hosts4 \ NoMapping
  /\ Faults \subseteq {"helper", "pull", "carry"}

U16 == 256 * 256

Min2(a, b) == IF a <= b THEN a ELSE b

IP4_HLEN == 20
IP6_HLEN == 40
FRAG_HLEN == 8

-----------------------------------------------------------------------------
(* Addresses.  An IPv6 address is its upper 96 bits and its lower 32.      *)

Mapped(a) == [net |-> "clat", host |-> a]
POD_IP6 == [net |-> "pod", host |-> Pod4]
in_prefix(a) == a.net = "clat"
addr6_eq(a, b) == a = b

-----------------------------------------------------------------------------
(* bpf_l4_csum_replace: a complete field is minus the sum it stands for, a *)
(* CHECKSUM_PARTIAL field is the pseudo-header sum itself.                 *)
bpf_l4_csum_replace(field, part, diff) ==
  IF part THEN Plus(field, diff) ELSE Minus(field, diff)

-----------------------------------------------------------------------------
(* The transport part of a packet:                                         *)
(*   tc    ICMP type and code (<<0, 0>> in TCP and UDP)                    *)
(*   info  the ICMP word after the checksum; ports or identifier           *)
(*   data  a name for the payload                                          *)
(*   n     bytes present in this packet, dlen bytes of the whole datagram  *)
(*   field the checksum field, part whether it is CHECKSUM_PARTIAL         *)
(*   q     the packet an ICMP error quotes, <<>> when there is none        *)

IsTransport(l4) ==
  /\ l4 = [tc |-> l4.tc, info |-> l4.info, data |-> l4.data, n |-> l4.n, dlen |-> l4.dlen,
           field |-> l4.field, part |-> l4.part, q |-> l4.q]
  /\ l4.tc = <<l4.tc[1], l4.tc[2]>> /\ l4.n \in Nat /\ l4.dlen \in Nat
  /\ l4.part \in BOOLEAN /\ IsForm(l4.field)

(* A packet is a fragment with its header in frag = <<[off, mf, id]>>, or  *)
(* a whole one with frag = <<>>.                                           *)
IsFrag(p) == p.frag # <<>>
IsFragment(frag) ==
  frag = <<>> \/ /\ frag = << [off |-> frag[1].off, mf |-> frag[1].mf, id |-> frag[1].id] >>
                 /\ frag[1].off \in Nat /\ frag[1].mf \in BOOLEAN /\ frag[1].id \in 0..(U16 - 1)
First(p) == IsFrag(p) => p.frag[1].off = 0

(* Where the checksum field of a protocol ends; 0 when there is none.      *)
CsumEnd(proto) ==
  CASE proto = "tcp" -> 18 [] proto = "udp" -> 8
    [] proto \in {"icmp", "icmp6"} -> 4 [] OTHER -> 0

HasField(proto, l4) == CsumEnd(proto) # 0 /\ l4.n >= CsumEnd(proto)

Addr4(src, dst) == Sum({<<"a4", src>>, <<"a4", dst>>})
Addr6(src, dst) == Sum({<<"a6", src>>, <<"a6", dst>>})
LenProto(len, proto) == Sum({<<"len", len>>, <<"proto", proto>>})
Pseudo4(src, dst, len, proto) ==
  IF proto = "icmp" THEN Zero ELSE Plus(Addr4(src, dst), LenProto(len, proto))
Pseudo6(src, dst, len, proto) == Plus(Addr6(src, dst), LenProto(len, proto))

(* The bytes of a header, as the ICMP error that quotes it sums them.      *)
Fields4(p) == [len |-> p.tot_len, df |-> p.df, frag |-> p.frag,
               proto |-> p.proto, src |-> p.src, dst |-> p.dst]
Header4(p) == Sum({<<"h4", Fields4(p), p.check>>})
Header6(p) == Sum({<<"h6", [len |-> p.plen, frag |-> p.frag, nh |-> p.nh,
                            src |-> p.src, dst |-> p.dst]>>})
TypeWord(tc) == Sum({<<"tc", tc>>})

(* All transport bytes of the datagram but the checksum field; of a quoted *)
(* packet, those that were quoted.                                         *)
OwnBytes(l4) == Plus(TypeWord(l4.tc), Sum({<<"info", l4.info>>}))
Payload(l4) == Sum({<<"data", l4.data, l4.dlen>>})
QuotedBytes(q) ==
  LET proto == IF q.eth = "ip4" THEN q.proto ELSE q.nh
      inner == Plus(TypeWord(q.l4.tc),
                    Sum({<<"qdata", q.l4.info, q.l4.data, q.l4.n>>}))
      head == IF q.eth = "ip4" THEN Header4(q) ELSE Header6(q)
  IN Plus(Plus(head, inner), IF HasField(proto, q.l4) THEN q.l4.field ELSE Zero)
Bytes(l4) ==
  Plus(OwnBytes(l4), IF l4.q = <<>> THEN Payload(l4) ELSE QuotedBytes(l4.q[1]))

(* The pseudo-header of a packet covers the whole datagram.                *)
Pseudo(p) ==
  IF p.eth = "ip4" THEN Pseudo4(p.src, p.dst, p.l4.dlen, p.proto)
  ELSE Pseudo6(p.src, p.dst, p.l4.dlen, p.nh)

(* The IPv4 header checksum, as the header fields it was computed from.    *)
HeaderAccepted(p) == p.check = Fields4(p)

(* A receiver accepts the transport checksum of p.                         *)
Accepted(p) ==
  IF p.l4.part THEN p.l4.field = Pseudo(p)
  ELSE Plus(p.l4.field, Plus(Pseudo(p), Bytes(p.l4))) = Zero

(* The field a sender writes.                                              *)
FullField(p) == Minus(Zero, Plus(Pseudo(p), Bytes(p.l4)))
PartialField(p) == Pseudo(p)

-----------------------------------------------------------------------------
(* What a program does with a frame: TC_ACT_OK with the frame, changed or  *)
(* not, or TC_ACT_SHOT; and the counter it adds one to.                    *)

Pass(p) == [act |-> "ok", counter |-> "none", pkt |-> <<p>>]
(* A frame let through because ensure_linear could not read it. *)
Unread(p) == [act |-> "ok", counter |-> "none", pkt |-> <<p>>, pulled |-> FALSE]
Translated(c, p) == [act |-> "ok", counter |-> c, pkt |-> <<p>>]
DROP(c) == [act |-> "shot", counter |-> c, pkt |-> <<>>]

(* A chain of early returns: the first check that holds names the counter. *)
FirstDrop(checks) ==
  LET hit == {i \in DOMAIN checks : checks[i][1]}
  IN IF hit = {} THEN "none"
     ELSE checks[CHOOSE i \in hit : \A j \in hit : i <= j][2]
=============================================================================
