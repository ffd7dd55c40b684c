----------------------------- MODULE Checksums ------------------------------
(***************************************************************************)
(* The life of a checksum (CsumField), with the bytes of a UDP datagram    *)
(* that has none: clat_egress then calls udp_full_csum (UdpFullCsum) and   *)
(* stores what it returns.  CsumField alone takes that sum as a number.    *)
(***************************************************************************)
EXTENDS CsumField, UdpFullCsum

CONSTANT SumAddr4s   \* sums of the IPv4 addresses of these datagrams

ASSUME SumAddrAssumption == SumAddr4s \subseteq Addr4s

(* The sums of the bytes, as the machine reads them. *)
Sum16(bytes) == from32to16(csum_words(bytes, 0))
FourBytes(bytes) == bytes \o [j \in 1..((4 - (Len(bytes) % 4)) % 4) |-> 0]
AsSums(a4) ==
  [proto |-> "udp", kind |-> "none", a4 |-> a4, a6 |-> csum_words(addresses, 0),
   lp |-> Sum16(Store32(ulen, "be") \o Store32(IPPROTO_UDP, "be")),
   body |-> Sum16(FourBytes(d))]

NoDatagram ==
  /\ d = <<0>> /\ addresses = <<>> /\ order = "le" /\ avail = 0
  /\ sum = 0 /\ off = 0 /\ i = 0 /\ got = 0 /\ pc = "idle" /\ out = 0

CsumInit ==
  \/ FieldInit /\ NoDatagram
  \/ /\ Init
     /\ \E a4 \in SumAddr4s :
          /\ ~TakenForPartial(AsSums(a4))
          /\ m = AsSums(a4)
     /\ field = 0 /\ sent = full_field(Sum4(m), TRUE)
     /\ width \in Widths /\ stage = "call"

SumStep == stage = "call" /\ Next /\ UNCHANGED checksum

(* udp_full_csum returns, and its locals are gone.  Storing the checksum   *)
(* may fail.                                                               *)
SumReturns ==
  /\ stage = "call" /\ pc \in {"done", "failed"}
  /\ \/ pc = "done" /\ field' = out /\ stage' = "device"
     \/ stage' = "dropped" /\ UNCHANGED field
  /\ d' = <<0>> /\ addresses' = <<>> /\ order' = "le" /\ avail' = 0
  /\ sum' = 0 /\ off' = 0 /\ i' = 0 /\ got' = 0 /\ pc' = "idle" /\ out' = 0
  /\ UNCHANGED <<m, sent, width>>

CsumNext ==
  \/ FieldStep /\ UNCHANGED vars
  \/ SumStep
  \/ SumReturns

CsumSpec == CsumInit /\ [][CsumNext]_<<checksum, vars>>
=============================================================================
