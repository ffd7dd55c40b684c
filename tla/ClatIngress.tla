---------------------------- MODULE ClatIngress -----------------------------
(***************************************************************************)
(* clat_ingress of bpf/clat.c: the program on the ingress hook, IPv6 to    *)
(* IPv4, as the set of outcomes it can have on a frame.                    *)
(***************************************************************************)
EXTENDS Packets

IngressCounters ==
  {"INGRESS_TRANSLATED", "INGRESS_DROP_TRUNCATED", "INGRESS_DROP_EXTHDR",
   "INGRESS_DROP_UDP_ZERO_CSUM", "INGRESS_DROP_FRAG_ICMP",
   "INGRESS_DROP_ICMP_UNSUPPORTED", "INGRESS_DROP_ICMP_INNER",
   "INGRESS_DROP_HELPER"}

is_ext_hdr(nh) ==
  nh \in {"hopopts", "routing", "fragment", "dstopts", "ah", "none", "mh", "hip",
          "shim6"}

-----------------------------------------------------------------------------
(* Which frames are the program's business.                                *)

(* Mutant: any packet the pod sent will do. *)
MutQuotesUs(l4) ==
  l4.q # <<>> /\ l4.q[1].ver = 6 /\ addr6_eq(l4.q[1].src, POD_IP6)
QuotesUs(l4) ==
  /\ l4.q # <<>>
  /\ l4.q[1].ver = 6
  /\ addr6_eq(l4.q[1].src, POD_IP6)
  /\ in_prefix(l4.q[1].dst)

(* An ICMPv6 error of a router that quotes a packet of the pod to P.       *)
RouterError(p) ==
  /\ p.nh = "icmp6" /\ ~IsFrag(p)
  /\ p.len >= IP6_HLEN + 8 + IP6_HLEN
  /\ p.l4.tc[1] \in 1..4
  /\ QuotesUs(p.l4)

(* Everything else passes unchanged and uncounted.  The linear part must   *)
(* hold a Fragment header behind the IPv6 header, so a shorter packet      *)
(* passes, too.                                                            *)
ReturnTraffic(p) ==
  /\ p.eth = "ip6"
  /\ p.len >= IP6_HLEN + FRAG_HLEN
  /\ p.ver = 6
  /\ addr6_eq(p.dst, POD_IP6)
  /\ in_prefix(p.src) \/ RouterError(p)

payload_len(p) == p.plen - (IF IsFrag(p) THEN FRAG_HLEN ELSE 0)

HeaderChecks6(p) ==
  << <<IsFrag(p) /\ p.plen < FRAG_HLEN, "INGRESS_DROP_TRUNCATED">>,
     <<is_ext_hdr(p.nh), "INGRESS_DROP_EXTHDR">>,
     <<p.nh = "icmp6" /\ IsFrag(p), "INGRESS_DROP_FRAG_ICMP">> >>

-----------------------------------------------------------------------------
(* ICMP types, codes and the word behind the checksum.                     *)

EchoTo4(t) == CASE t = 128 -> 8 [] t = 129 -> 0 [] OTHER -> -1
IsEcho6(t) == EchoTo4(t) # -1

NotMapped == [type |-> 0, code |-> 0, pointer |-> 0, ok |-> FALSE]
MappedTo(t, c, ptr) == [type |-> t, code |-> c, pointer |-> ptr, ok |-> TRUE]

Pointer4 == [p \in {0, 4, 6, 7, 8, 24} |->
               CASE p = 0 -> 0 [] p = 4 -> 2 [] p = 6 -> 9 [] p = 7 -> 8
                 [] p = 8 -> 12 [] p = 24 -> 16]

icmp6_to_icmp4(type, code, pointer6) ==
  CASE type = 1 -> MappedTo(3, CASE code \in {1, 5, 6} -> 10 [] code = 4 -> 3
                                 [] OTHER -> 1, 0)
    [] type = 2 -> MappedTo(3, 4, 0)
    [] type = 3 -> MappedTo(11, code, 0)
    [] type = 4 /\ code = 1 -> MappedTo(3, 2, 0)
    [] type = 4 /\ code = 0 /\ pointer6 \in DOMAIN Pointer4 ->
         MappedTo(12, 0, Pointer4[pointer6])
    [] OTHER -> NotMapped

(* The MTU of a Packet Too Big, for the packets the pod sends: shorter by  *)
(* what the translation adds, and never below 68.                          *)
(* Mutants: the Fragment header is forgotten, the IPv4 header is.          *)
MutFragMtu4(mtu, in_frag) ==
  LET m == Min2(mtu, U16 - 1) IN IF m > 88 THEN m - 20 ELSE 68
MutMtu4(mtu, in_frag) ==
  LET hdrdiff == IP6_HLEN + (IF in_frag THEN FRAG_HLEN ELSE 0)
      m == Min2(mtu, U16 - 1)
  IN IF m > hdrdiff + 68 THEN m - hdrdiff ELSE 68
Mtu4(mtu, in_frag) ==
  LET hdrdiff == IP6_HLEN - IP4_HLEN + (IF in_frag THEN FRAG_HLEN ELSE 0)
      m == Min2(mtu, U16 - 1)
  IN IF m > hdrdiff + 68 THEN m - hdrdiff ELSE 68

-----------------------------------------------------------------------------
(* The checks of the transport part.                                       *)

ErrorChecks(l4) ==
  LET m == icmp6_to_icmp4(l4.tc[1], l4.tc[2], l4.info)
      Of(P(_)) == QuotesUs(l4) /\ P(l4.q[1])
      Cut(q) == IsFrag(q) /\ l4.n < 8 + IP6_HLEN + FRAG_HLEN
      Ext(q) == is_ext_hdr(q.nh)
      Echo(q) == /\ q.nh = "icmp6" /\ ~IsFrag(q)
                 /\ q.l4.n < 2 \/ (IsEcho6(q.l4.tc[1]) /\ q.l4.n < 4)
  IN << <<~m.ok, "INGRESS_DROP_ICMP_UNSUPPORTED">>,
        <<l4.n < 8 + IP6_HLEN \/ ~QuotesUs(l4), "INGRESS_DROP_ICMP_INNER">>,
        <<Of(Cut) \/ Of(Ext) \/ Of(Echo), "INGRESS_DROP_ICMP_INNER">> >>

TransportChecks6(p) ==
  IF ~First(p) THEN <<>>
  ELSE CASE p.nh = "tcp" -> << <<p.l4.n < 18, "INGRESS_DROP_HELPER">> >>
         [] p.nh = "udp" ->
              << <<p.l4.n < 8, "INGRESS_DROP_TRUNCATED">>,
                 <<p.l4.field = Zero, "INGRESS_DROP_UDP_ZERO_CSUM">> >>
         [] p.nh = "icmp6" ->
              << <<p.l4.n < 8, "INGRESS_DROP_TRUNCATED">> >>
              \o (IF IsEcho6(p.l4.tc[1]) THEN <<>> ELSE ErrorChecks(p.l4))
         [] OTHER -> <<>>

-----------------------------------------------------------------------------
(* The IPv4 header.  len is what the packet measures after the helpers     *)
(* moved its bytes; tot_len is what the header says, in 16 bits.           *)

WithHeaderCheck(p) == [p EXCEPT !.check = Fields4(p)]

Fragment4(frag) == IF frag = <<>> THEN <<>>
                   ELSE << [frag[1] EXCEPT !.id = @ % U16] >>

Reshape(p) ==
  WithHeaderCheck(
    [eth     |-> "ip4", ver |-> 4, hl |-> IP4_HLEN, has_srcroute |-> FALSE,
     len     |-> p.len - (IP6_HLEN - IP4_HLEN) - (IF IsFrag(p) THEN FRAG_HLEN ELSE 0),
     tot_len |-> (payload_len(p) + IP4_HLEN) % U16,
     frag    |-> Fragment4(p.frag),
     df      |-> ~IsFrag(p),
     proto   |-> IF p.nh = "icmp6" THEN "icmp" ELSE p.nh,
     src     |-> IF in_prefix(p.src) THEN p.src.host ELSE Err4,
     dst     |-> Pod4,
     check   |-> <<>>,
     l4      |-> p.l4])

(* TCP and UDP: the addresses are all that changes.                        *)
(* Mutant: the difference is applied the wrong way round. *)
MutUpdateAddresses6(p) ==
  LET h4 == Reshape(p)
      diff == bpf_csum_diff(Addr4(h4.src, h4.dst), Addr6(p.src, p.dst), Zero)
  IN [h4 EXCEPT !.l4.field = bpf_l4_csum_replace(@, p.l4.part, diff)]
UpdateAddresses6(p) ==
  LET h4 == Reshape(p)
      diff == bpf_csum_diff(Addr6(p.src, p.dst), Addr4(h4.src, h4.dst), Zero)
  IN [h4 EXCEPT !.l4.field = bpf_l4_csum_replace(@, p.l4.part, diff)]

(* ICMPv6: its pseudo-header leaves the sum.                               *)
WithoutPseudo(p) ==
  bpf_csum_diff(Pseudo6(p.src, p.dst, payload_len(p), "icmp6"), Zero, Zero)

EchoToIcmp4(p) ==
  LET tc4 == <<EchoTo4(p.l4.tc[1]), p.l4.tc[2]>>
      diff == bpf_csum_diff(TypeWord(p.l4.tc), TypeWord(tc4), WithoutPseudo(p))
  IN [Reshape(p) EXCEPT !.l4.tc = tc4,
                        !.l4.field = bpf_l4_csum_replace(@, p.l4.part, diff)]

-----------------------------------------------------------------------------
(* ICMPv6 errors: the embedded packet is translated, too.                  *)

(* Mutant: the Fragment header stays in the embedded total length. *)
MutEmbeddedTotLen(q) == (q.plen + IP4_HLEN) % U16
EmbeddedTotLen(q) == (payload_len(q) + IP4_HLEN) % U16

(* The embedded header, with the embedded transport part still as it was.  *)
Embedded4(q) ==
  WithHeaderCheck(
    [eth     |-> "ip4", ver |-> 4, hl |-> IP4_HLEN, has_srcroute |-> FALSE,
     len     |-> q.len - (IP6_HLEN - IP4_HLEN) - (IF IsFrag(q) THEN FRAG_HLEN ELSE 0),
     tot_len |-> EmbeddedTotLen(q),
     frag    |-> Fragment4(q.frag),
     df      |-> ~IsFrag(q),
     proto   |-> IF q.nh = "icmp6" THEN "icmp" ELSE q.nh,
     src     |-> Pod4,
     dst     |-> q.dst.host,
     check   |-> <<>>,
     l4      |-> q.l4])

(* The embedded transport part.  The new checksum is csum_fold(diff + ~oc) *)
(* with a plain 32-bit addition: when bpf_csum_diff returns a sum that     *)
(* leaves no room for it, a carry is lost (module CsumArith).              *)
EmbeddedField(field, diff, lost) ==
  Minus(Minus(field, diff), IF lost THEN Sum({<<"carry">>}) ELSE Zero)

EmbeddedEcho(q) == q.nh = "icmp6" /\ ~IsFrag(q) /\ IsEcho6(q.l4.tc[1])

EmbeddedTransport4(q, lost) ==
  LET id6 == bpf_csum_diff(Addr6(q.src, q.dst), Addr4(Pod4, q.dst.host), Zero)
      nt == <<EchoTo4(q.l4.tc[1]), q.l4.tc[2]>>
      idiff == bpf_csum_diff(TypeWord(q.l4.tc), TypeWord(nt),
                 bpf_csum_diff(Pseudo6(q.src, q.dst, q.plen, "icmp6"), Zero, Zero))
  IN IF EmbeddedEcho(q)
     THEN [q.l4 EXCEPT !.tc = nt, !.field = EmbeddedField(@, idiff, lost)]
     ELSE IF q.nh \in {"tcp", "udp"} /\ First(q) /\ HasField(q.nh, q.l4)
             /\ q.l4.field # Zero
     THEN [q.l4 EXCEPT !.field = EmbeddedField(@, id6, lost)]
     ELSE q.l4

(* Bytes the embedded headers lose, and the changes of the embedded        *)
(* transport part as the outer checksum sees them.                         *)
Shrink(q) == IP6_HLEN - IP4_HLEN + (IF IsFrag(q) THEN FRAG_HLEN ELSE 0)

(* Mutant: the rewritten embedded checksum is not fed to the outer one. *)
MutEmbeddedChange(q, l4, seed) ==
  bpf_csum_diff(TypeWord(q.l4.tc), TypeWord(l4.tc), seed)
EmbeddedChange(q, l4, seed) ==
  bpf_csum_diff(Plus(TypeWord(q.l4.tc), q.l4.field),
                Plus(TypeWord(l4.tc), l4.field), seed)

ErrorToIcmp4(p, lost) ==
  LET h4 == Reshape(p)
      q == p.l4.q[1]
      m == icmp6_to_icmp4(p.l4.tc[1], p.l4.tc[2], p.l4.info)
      info4 == CASE p.l4.tc[1] = 2 -> Mtu4(p.l4.info, IsFrag(q))
                 [] m.type = 12 -> m.pointer
                 [] OTHER -> 0
      in4 == Embedded4(q)
      inner == EmbeddedTransport4(q, lost)
      new == [p.l4 EXCEPT !.tc = <<m.type, m.code>>, !.info = info4]
      shrink == Shrink(q)
      \* old header bytes and pseudo-header out, new header bytes in
      d == bpf_csum_diff(Plus(Plus(OwnBytes(p.l4), p.l4.field), Header6(q)),
                         Plus(OwnBytes(new), Header4(in4)), WithoutPseudo(p))
  IN WithHeaderCheck(
       [h4 EXCEPT !.len = @ - shrink,
                  !.tot_len = (@ - shrink) % U16,
                  !.l4 = [new EXCEPT !.n = @ - shrink,
                                     !.dlen = @ - shrink,
                                     !.q = << [in4 EXCEPT !.l4 = inner] >>,
                                     !.field = bpf_l4_csum_replace(
                                                 Zero, p.l4.part, EmbeddedChange(q, inner, d))]])

-----------------------------------------------------------------------------
Packet4Of(p, lost) ==
  CASE First(p) /\ p.nh \in {"tcp", "udp"} -> UpdateAddresses6(p)
    [] First(p) /\ p.nh = "icmp6" /\ IsEcho6(p.l4.tc[1]) -> EchoToIcmp4(p)
    [] First(p) /\ p.nh = "icmp6" /\ ~IsEcho6(p.l4.tc[1]) -> ErrorToIcmp4(p, lost)
    [] OTHER -> Reshape(p)

clat_ingress(p) ==
  IF ~ReturnTraffic(p) THEN {Pass(p)}
  ELSE LET drop == FirstDrop(HeaderChecks6(p))
           drop2 == FirstDrop(TransportChecks6(p))
           Lost == IF "carry" \in Faults THEN BOOLEAN ELSE {FALSE}
       IN (IF "pull" \in Faults THEN {Unread(p)} ELSE {})
          \cup
          (IF drop # "none" THEN {DROP(drop)}
           ELSE (IF "helper" \in Faults THEN {DROP("INGRESS_DROP_HELPER")} ELSE {})
                \cup
                (IF drop2 # "none" THEN {DROP(drop2)}
                 ELSE {Translated("INGRESS_TRANSLATED", Packet4Of(p, l)) : l \in Lost}))
=============================================================================
