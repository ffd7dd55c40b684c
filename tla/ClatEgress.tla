----------------------------- MODULE ClatEgress -----------------------------
(***************************************************************************)
(* clat_egress of bpf/clat.c: the program on the egress hook, IPv4 to      *)
(* IPv6, as the set of outcomes it can have on a frame.  There is more     *)
(* than one because a kernel helper can fail.                              *)
(***************************************************************************)
EXTENDS Packets

CONSTANT
  Folding    \* <<destination, length>> whose IPv4 pseudo-header sum folds to 0

CSUM_CHUNK == 256
CSUM_MAX_CHUNKS == 40

EgressCounters ==
  {"EGRESS_TRANSLATED", "EGRESS_DROP_TRUNCATED", "EGRESS_DROP_BAD_SRC",
   "EGRESS_DROP_MCAST", "EGRESS_DROP_SRCROUTE", "EGRESS_DROP_FRAG_NO_CSUM",
   "EGRESS_DROP_ICMP_UNSUPPORTED", "EGRESS_DROP_TOO_BIG", "EGRESS_DROP_HELPER"}

optlen(p) == p.hl - IP4_HLEN
l4len(p) == p.tot_len - p.hl

(* The checks up to the first call that changes the packet.  has_srcroute  *)
(* is the answer of ip4_has_source_route (module OptionWalk).              *)
HeaderChecks4(p) ==
  << <<p.ver # 4 \/ p.hl < IP4_HLEN, "EGRESS_DROP_TRUNCATED">>,
     <<p.src # Pod4, "EGRESS_DROP_BAD_SRC">>,
     <<p.dst \in NoMapping, "EGRESS_DROP_MCAST">>,
     <<p.tot_len < p.hl, "EGRESS_DROP_TRUNCATED">>,
     <<IsFrag(p) /\ p.proto = "icmp", "EGRESS_DROP_FRAG_NO_CSUM">>,
     <<optlen(p) # 0 /\ p.has_srcroute, "EGRESS_DROP_SRCROUTE">> >>

(* The checks of the transport part, after the header was rewritten.  A    *)
(* load or a checksum update outside the packet fails.                     *)
NoCheck(p) == p.proto = "udp" /\ p.l4.field = Zero
TakenForPartial(p) == NoCheck(p) /\ <<p.dst, l4len(p)>> \in Folding
FullCsum(p) == NoCheck(p) /\ ~TakenForPartial(p)
udp_full_csum_fails(p) ==
  l4len(p) > CSUM_CHUNK * CSUM_MAX_CHUNKS \/ p.l4.n < l4len(p)

EchoTo6(t) == CASE t = 8 -> 128 [] t = 0 -> 129 [] OTHER -> -1

TransportChecks4(p) ==
  IF ~First(p) THEN <<>>
  ELSE CASE p.proto = "tcp" -> << <<p.l4.n < 18, "EGRESS_DROP_HELPER">> >>
         [] p.proto = "udp" ->
              << <<p.l4.n < 8, "EGRESS_DROP_TRUNCATED">>,
                 <<FullCsum(p) /\ IsFrag(p), "EGRESS_DROP_FRAG_NO_CSUM">>,
                 <<FullCsum(p) /\ udp_full_csum_fails(p), "EGRESS_DROP_TOO_BIG">> >>
         [] p.proto = "icmp" ->
              << <<p.l4.n < 2, "EGRESS_DROP_TRUNCATED">>,
                 <<EchoTo6(p.l4.tc[1]) = -1, "EGRESS_DROP_ICMP_UNSUPPORTED">>,
                 <<p.l4.n < 4, "EGRESS_DROP_HELPER">> >>
         [] OTHER -> <<>>

-----------------------------------------------------------------------------
(* TCP, and UDP with a checksum: the addresses are all that changes.       *)
AddressDiff4(p) ==
  bpf_csum_diff(Addr4(p.src, p.dst), Addr6(POD_IP6, Mapped(p.dst)), Zero)

UpdateAddresses4(p) ==
  [p.l4 EXCEPT !.field = bpf_l4_csum_replace(@, p.l4.part, AddressDiff4(p))]

(* UDP without a checksum: sum the whole datagram (module UdpFullCsum).    *)
SumDatagram(p) ==
  LET p6 == Pseudo6(POD_IP6, Mapped(p.dst), l4len(p), "udp")
  IN [p.l4 EXCEPT !.field = Minus(Zero, Plus(p6, Bytes(p.l4)))]

(* ICMP echo: the type changes, and a pseudo-header enters the sum.        *)
(* Mutant: only the type changes. *)
MutEchoToIcmp6(p) ==
  LET tc6 == <<EchoTo6(p.l4.tc[1]), p.l4.tc[2]>>
  IN [p.l4 EXCEPT !.tc = tc6,
                  !.field = bpf_l4_csum_replace(@, p.l4.part,
                              bpf_csum_diff(TypeWord(p.l4.tc), TypeWord(tc6), Zero))]
EchoToIcmp6(p) ==
  LET tc6 == <<EchoTo6(p.l4.tc[1]), p.l4.tc[2]>>
      p6 == Pseudo6(POD_IP6, Mapped(p.dst), l4len(p), "icmp6")
      diff == bpf_csum_diff(TypeWord(p.l4.tc), TypeWord(tc6),
                            bpf_csum_diff(Zero, p6, Zero))
  IN [p.l4 EXCEPT !.tc = tc6, !.field = bpf_l4_csum_replace(@, p.l4.part, diff)]

Transport6Of(p) ==
  CASE First(p) /\ p.proto = "icmp" -> EchoToIcmp6(p)
    [] First(p) /\ FullCsum(p) -> SumDatagram(p)
    [] First(p) /\ p.proto \in {"tcp", "udp"} /\ ~FullCsum(p) -> UpdateAddresses4(p)
    [] OTHER -> p.l4

(* Mutant: the Fragment header is not part of the payload length. *)
MutPayload6(p) == l4len(p) % U16
Payload6(p) == (l4len(p) + (IF IsFrag(p) THEN FRAG_HLEN ELSE 0)) % U16

(* The IPv6 header and Fragment header.  len is what the packet measures   *)
(* after the helpers moved its bytes; plen is what the header says.        *)
Packet6Of(p) ==
  [eth  |-> "ip6", ver |-> 6,
   len  |-> p.len - optlen(p) + (IP6_HLEN - IP4_HLEN)
            + (IF IsFrag(p) THEN FRAG_HLEN ELSE 0),
   plen |-> Payload6(p),
   frag |-> p.frag,
   nh   |-> IF p.proto = "icmp" THEN "icmp6" ELSE p.proto,
   src  |-> POD_IP6,
   dst  |-> Mapped(p.dst),
   l4   |-> Transport6Of(p)]

-----------------------------------------------------------------------------
clat_egress(p) ==
  IF p.eth # "ip4" THEN {Pass(p)}
  ELSE LET drop == FirstDrop(HeaderChecks4(p))
           drop2 == FirstDrop(TransportChecks4(p))
       IN (IF "pull" \in Faults THEN {DROP("EGRESS_DROP_TRUNCATED")} ELSE {})
          \cup
          (IF drop # "none" THEN {DROP(drop)}
           ELSE (IF "helper" \in Faults THEN {DROP("EGRESS_DROP_HELPER")} ELSE {})
                \cup
                {IF drop2 # "none" THEN DROP(drop2)
                 ELSE Translated("EGRESS_TRANSLATED", Packet6Of(p))})
=============================================================================
