----------------------------- MODULE CsumField ------------------------------
(***************************************************************************)
(* The life of one transport checksum: written, left to the device or left *)
(* out by the pod's stack, updated by clat_egress, completed by the        *)
(* device, judged by the server; and then that of the answer, or of the    *)
(* copy a router quotes in an error, updated by clat_ingress.              *)
(*                                                                         *)
(* What is summed is given by four numbers: the sums of the IPv4 and of    *)
(* the IPv6 addresses, of length and protocol, and of the transport bytes. *)
(***************************************************************************)
EXTENDS CsumArith

CONSTANTS
  Addr4s, Addr6s,   \* sums of the two addresses, 32 bits
  LenProtos,        \* sums of length and protocol, never zero
  Bodies,           \* sums of the transport bytes but the checksum
  Widths            \* what bpf_csum_diff returns: {"wide", "folded"}

ASSUME SumsAssumption ==
  /\ Addr4s \subseteq Wide \ {0} /\ Addr6s \subseteq Wide \ {0}
  /\ Bodies \subseteq Half
  /\ LenProtos \subseteq Half \ {0}
  /\ Widths \subseteq {"wide", "folded"}

VARIABLES
  m,       \* the datagram: [proto, kind, a4, a6, lp, body]
  field,   \* its checksum field
  sent,    \* the field the pod's stack would write in full
  width,   \* of what bpf_csum_diff returns on this kernel
  stage

checksum == <<m, field, sent, width, stage>>

(* The word of type and code of an echo, before and after. *)
Echo4 == H
Echo6 == (H \div 2) * H

Pseudo4(d) == IF d.proto = "icmp" THEN 0 ELSE csum_add(d.a4, d.lp)
Pseudo6(d) == csum_add(d.a6, d.lp)
Own4(d) == csum_add(d.body, IF d.proto = "icmp" THEN Echo4 ELSE 0)
Own6(d) == csum_add(d.body, IF d.proto = "icmp" THEN Echo6 ELSE 0)
Sum4(d) == csum_add(Pseudo4(d), Own4(d))
Sum6(d) == csum_add(Pseudo6(d), Own6(d))

Kinds == {<<"tcp", "full">>, <<"tcp", "partial">>, <<"udp", "full">>,
          <<"udp", "partial">>, <<"udp", "none">>, <<"icmp", "full">>}

FieldOf(d) ==
  CASE d.kind = "full" -> full_field(Sum4(d), d.proto = "udp")
    [] d.kind = "partial" -> partial_field(Pseudo4(d))
    [] d.kind = "none" -> 0

FieldInit ==
  \E t \in Kinds, a4 \in Addr4s, a6 \in Addr6s, lp \in LenProtos, b \in Bodies :
    LET d == [proto |-> t[1], kind |-> t[2], a4 |-> a4, a6 |-> a6, lp |-> lp, body |-> b]
    IN /\ m = d
       /\ field = FieldOf(d)
       /\ sent = full_field(Sum4(d), d.proto = "udp")
       /\ width \in Widths
       /\ stage = "egress"

-----------------------------------------------------------------------------
(* clat_egress.                                                            *)

Updated(diff, mangled0, enforce) ==
  bpf_l4_csum_replace(field, m.kind = "partial", diff, mangled0, enforce)

EgressTcp ==
  /\ stage = "egress" /\ m.proto = "tcp"
  /\ field' = Updated(bpf_csum_diff(m.a4, m.a6, 0, width), FALSE, FALSE)
  /\ stage' = "device" /\ UNCHANGED <<m, sent, width>>

(* Mutant: a checksum that comes out as zero is not marked. *)
MutEgressUdp ==
  /\ stage = "egress" /\ m.proto = "udp" /\ field # 0
  /\ field' = Updated(bpf_csum_diff(m.a4, m.a6, 0, width), FALSE, FALSE)
  /\ stage' = "device" /\ UNCHANGED <<m, sent, width>>
EgressUdp ==
  /\ stage = "egress" /\ m.proto = "udp" /\ field # 0
  /\ field' = Updated(bpf_csum_diff(m.a4, m.a6, 0, width), TRUE, FALSE)
  /\ stage' = "device" /\ UNCHANGED <<m, sent, width>>

(* A zero field is taken for a partial checksum when the IPv4 pseudo-      *)
(* header sum folds to zero.                                               *)
TakenForPartial(d) == csum_fold(Pseudo4(d)) = 0

EgressUdpZero ==
  /\ stage = "egress" /\ m.proto = "udp" /\ field = 0
  /\ field' = IF TakenForPartial(m)
              THEN Updated(bpf_csum_diff(m.a4, m.a6, 0, width), TRUE, TRUE)
              ELSE full_field(csum_of(m.body, csum_of(Pseudo6(m), 0, width), width), TRUE)
  /\ stage' = "device" /\ UNCHANGED <<m, sent, width>>

EgressEcho ==
  /\ stage = "egress" /\ m.proto = "icmp"
  /\ field' = Updated(bpf_csum_diff(Echo4, Echo6, csum_of(Pseudo6(m), 0, width), width),
                      FALSE, FALSE)
  /\ stage' = "device" /\ UNCHANGED <<m, sent, width>>

(* The device, or the stack behind it, completes a partial checksum        *)
(* (external).                                                             *)
Device ==
  /\ stage = "device"
  /\ field' = IF m.kind = "partial"
              THEN full_field(csum_add(Own6(m), field), m.proto = "udp") ELSE field
  /\ stage' = "wire" /\ UNCHANGED <<m, sent, width>>

-----------------------------------------------------------------------------
(* The server's answer (external), and clat_ingress on it.                 *)

Answer ==
  /\ stage = "wire"
  /\ \E b \in Bodies :
       LET d == [m EXCEPT !.body = b, !.kind = "full"]
       IN /\ m' = d
          /\ field' = full_field(Sum6(d), d.proto = "udp")
          /\ sent' = full_field(Sum4(d), d.proto = "udp")
  /\ stage' = "ingress" /\ UNCHANGED width

(* Mutant: a UDP checksum that comes out as zero is not marked. *)
MutIngressTcpUdp ==
  /\ stage = "ingress" /\ m.proto # "icmp"
  /\ field' = Updated(bpf_csum_diff(m.a6, m.a4, 0, width), FALSE, FALSE)
  /\ stage' = "delivered" /\ UNCHANGED <<m, sent, width>>
IngressTcpUdp ==
  /\ stage = "ingress" /\ m.proto # "icmp"
  /\ field' = Updated(bpf_csum_diff(m.a6, m.a4, 0, width), m.proto = "udp", FALSE)
  /\ stage' = "delivered" /\ UNCHANGED <<m, sent, width>>

IngressEcho ==
  /\ stage = "ingress" /\ m.proto = "icmp"
  /\ field' = Updated(bpf_csum_diff(Echo6, Echo4, bpf_csum_diff(Pseudo6(m), 0, 0, width), width),
                      FALSE, FALSE)
  /\ stage' = "delivered" /\ UNCHANGED <<m, sent, width>>

(* A router quotes the packet.  The new embedded checksum comes from a     *)
(* plain 32-bit addition; a field of zero is taken for an absent checksum  *)
(* and left as it is, though TCP may write it.                             *)
EmbeddedCsum(oc, diff) == csum_fold((diff + not16(oc)) % W)

(* Mutant: the difference is added to the old checksum itself. *)
MutQuoted ==
  /\ stage = "wire" /\ m.proto # "icmp"
  /\ field' = EmbeddedCsum(not16(field), bpf_csum_diff(m.a6, m.a4, 0, width))
  /\ stage' = "quoted" /\ UNCHANGED <<m, sent, width>>
Quoted ==
  /\ stage = "wire" /\ m.proto # "icmp"
  /\ field' = IF field = 0 THEN field
              ELSE EmbeddedCsum(field, bpf_csum_diff(m.a6, m.a4, 0, width))
  /\ stage' = "quoted" /\ UNCHANGED <<m, sent, width>>

QuotedEcho ==
  /\ stage = "wire" /\ m.proto = "icmp"
  /\ field' = EmbeddedCsum(field, bpf_csum_diff(Echo6, Echo4,
                                    bpf_csum_diff(Pseudo6(m), 0, 0, width), width))
  /\ stage' = "quoted" /\ UNCHANGED <<m, sent, width>>

FieldStep ==
  \/ EgressTcp \/ EgressUdp \/ EgressUdpZero \/ EgressEcho \/ Device
  \/ Answer \/ IngressTcpUdp \/ IngressEcho \/ Quoted \/ QuotedEcho

FieldSpec == FieldInit /\ [][FieldStep]_checksum

-----------------------------------------------------------------------------
Valid6 == sums_up(Sum6(m), field) /\ (m.proto = "udp" => field # 0)
Valid4 == sums_up(Sum4(m), field) /\ (m.proto = "udp" => field # 0)

(* The server accepts what the pod sends, with the two zeroes in their     *)
(* places: a zero UDP checksum never goes out, nor does a sum that is off  *)
(* by a carry.                                                             *)
WireValid ==
  stage = "wire" /\ ~(m.kind = "none" /\ TakenForPartial(m)) => Valid6

(* The same for every UDP datagram sent without a checksum, whatever its   *)
(* pseudo-header sum (DESIGN.md: "zero UDP checksums ... are handled").    *)
(* It is false of the code, see the README.                                *)
NoCheckGetsOne == stage = "wire" /\ m.kind = "none" => Valid6

(* The pod accepts what the server answers; a UDP answer keeps a checksum. *)
DeliveredValid == stage = "delivered" => Valid4

(* The field holds the checksum the pod sent, up to the two forms of zero  *)
(* and the carry the plain addition loses, if the difference has 32 bits.  *)
IsSent ==
  \E lost \in {0, 1} :
    /\ lost = 1 => width = "wide"
    /\ (field - sent - lost) % (H - 1) = 0

(* When a packet of the pod is quoted, its transport checksum becomes the  *)
(* one of the IPv4 packet the pod sent, with at most a carry lost; only a  *)
(* checksum that came out as zero on the IPv6 side is left, and that can   *)
(* only be TCP's: a UDP datagram or an echo is never skipped so.           *)
QuotedIsSent ==
  [][stage' = "quoted" /\ ~(m.kind = "none" /\ TakenForPartial(m)) =>
       IsSent' \/ (m.proto = "tcp" /\ field = 0 /\ field' = 0)]_checksum

(* The same for every checksum (DESIGN.md: "recomputes the inner transport *)
(* checksum (when present)").  It is false of the code, see the README.    *)
QuotedAlwaysSent ==
  stage = "quoted" /\ ~(m.kind = "none" /\ TakenForPartial(m)) => IsSent
=============================================================================
