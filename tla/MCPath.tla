------------------------------- MODULE MCPath -------------------------------
(* Frames for the model checker: every protocol, whole and in fragments,   *)
(* with the checksum states a sender has, at lengths around the checks.    *)
EXTENDS ClatPath

MCHosts4 == {"pod4", "err4", "server", "router", "mcast", "stray"}

MCFolding == {<<"server", 10240>>}

Native(h) == [net |-> "native", host |-> h]

L4(tc, info, n, more) ==
  [tc |-> tc, info |-> info, data |-> "sent", n |-> n, dlen |-> n + more,
   field |-> Zero, part |-> FALSE, q |-> <<>>]

Frag1 == << [off |-> 0, mf |-> TRUE, id |-> 7] >>
Frags == {<<>>, Frag1, << [off |-> 3, mf |-> FALSE, id |-> 65535] >>}

(* An IPv4 packet with its checksum complete, partial or absent.           *)
Frame4(proto, tc, n, frag, hl, srcroute, src, dst, kind) ==
  LET more == IF frag = <<>> THEN 0 ELSE IF frag[1].mf THEN 8 ELSE 24
      p0 == [eth |-> "ip4", ver |-> 4, hl |-> hl, has_srcroute |-> srcroute,
             len |-> hl + n, tot_len |-> hl + n, frag |-> frag, df |-> frag = <<>>,
             proto |-> proto, src |-> src, dst |-> dst, check |-> <<>>,
             l4 |-> L4(tc, 1, n, more)]
      p == [p0 EXCEPT !.check = Fields4(p0)]
  IN CASE ~First(p) \/ CsumEnd(proto) = 0 \/ kind = "none" -> p
       [] kind = "partial" -> [p EXCEPT !.l4.field = PartialField(p), !.l4.part = TRUE]
       [] OTHER -> [p EXCEPT !.l4.field = FullField(p)]

Kinds(proto, frag) ==
  IF frag # <<>> THEN {"full"} \cup (IF proto = "udp" THEN {"none"} ELSE {})
  ELSE CASE proto = "tcp" -> {"full", "partial"}
         [] proto = "udp" -> {"full", "partial", "none"}
         [] OTHER -> {"full"}

Types(proto) == IF proto = "icmp" THEN {<<8, 0>>, <<0, 0>>, <<3, 3>>} ELSE {<<0, 0>>}

(* Ordinary traffic of the pod: lengths that cut the transport header, the *)
(* usual, the last a full UDP checksum is computed for, the longest.       *)
MCPodLens == {1, 7, 20, 10240, 10241, 65515}

MCOrdinary ==
  UNION {{Frame4(pr, tc, n, f, 20, FALSE, "pod4", "server", k) :
            tc \in Types(pr), n \in MCPodLens, k \in Kinds(pr, f)} :
         pr \in {"tcp", "udp", "icmp", "sctp"}, f \in Frags}

(* Options, odd headers and addresses.                                     *)
MCOdd ==
  {Frame4(pr, <<8, 0>>, 20, f, 24, sr, "pod4", "server", "full") :
     pr \in {"tcp", "icmp"}, f \in Frags, sr \in BOOLEAN}
  \cup {Frame4("udp", <<0, 0>>, 20, <<>>, 20, FALSE, s, d, "full") :
          s \in {"pod4", "stray"}, d \in {"server", "mcast"}}
  \cup {[Frame4("tcp", <<0, 0>>, 20, <<>>, 20, FALSE, "pod4", "server", "full")
           EXCEPT !.hl = 16],
        [Frame4("tcp", <<0, 0>>, 20, <<>>, 20, FALSE, "pod4", "server", "full")
           EXCEPT !.ver = 5],
        [Frame4("tcp", <<0, 0>>, 20, <<>>, 20, FALSE, "pod4", "server", "full")
           EXCEPT !.tot_len = 19]}

(* A few flows, of which two are under way at once.                        *)
MCMixed ==
  {Frame4("udp", <<0, 0>>, 20, <<>>, 20, FALSE, "pod4", "server", "none"),
   Frame4("tcp", <<0, 0>>, 20, Frag1, 20, FALSE, "pod4", "router", "full"),
   Frame4("icmp", <<8, 0>>, 20, <<>>, 24, FALSE, "pod4", "server", "full"),
   [eth |-> "other"]}

Frame6(nh, tc, n, frag, src, dst, q) ==
  LET f == IF frag = <<>> THEN 0 ELSE 8
      p == [eth |-> "ip6", ver |-> 6, len |-> 40 + f + n, plen |-> f + n, frag |-> frag,
            nh |-> nh, src |-> src, dst |-> dst,
            l4 |-> [L4(tc, 1, n, 0) EXCEPT !.q = q, !.info = 0]]
  IN [p EXCEPT !.l4.field = FullField(p)]

(* The pod's own native IPv6, and ARP. *)
MCPodFrames ==
  MCOrdinary \cup MCOdd \cup MCMixed
  \cup {[eth |-> "other"], Frame6("tcp", <<0, 0>>, 20, <<>>, POD_IP6, Native("host"), <<>>)}

MCNativeFrames ==
  LET Sent6(src, dst) == Frame6("tcp", <<0, 0>>, 20, <<>>, src, dst, <<>>)
      Err(t, q) == Frame6("icmp6", <<t, 0>>, 68, <<>>, Native("router"), POD_IP6, <<q>>)
  IN {[eth |-> "other"],
      Sent6(Native("host"), POD_IP6),
      [Sent6(Native("host"), POD_IP6) EXCEPT !.len = 44, !.plen = 4],
      Sent6(Mapped("server"), Native("neighbour")),
      Frame6("icmp6", <<135, 0>>, 24, <<>>, Native("router"), POD_IP6, <<>>),
      Frame6("icmp6", <<129, 0>>, 64, <<>>, Native("router"), POD_IP6, <<>>),
      Err(2, Sent6(POD_IP6, Native("host"))),
      Err(3, Sent6(Native("neighbour"), Mapped("server"))),
      \* from P, but not an answer: too short, an extension header, no checksum
      [Sent6(Mapped("server"), POD_IP6) EXCEPT !.len = 44, !.plen = 4],
      Frame6("hopopts", <<0, 0>>, 28, <<>>, Mapped("server"), POD_IP6, <<>>),
      [Frame6("udp", <<0, 0>>, 28, <<>>, Mapped("server"), POD_IP6, <<>>)
         EXCEPT !.l4.field = Zero],
      Frame6("icmp6", <<130, 0>>, 24, <<>>, Mapped("router"), POD_IP6, <<>>),
      Frame6("icmp6", <<3, 0>>, 20, <<>>, Mapped("router"), POD_IP6, <<>>),
      Frame6("icmp6", <<129, 0>>, 992, << [off |-> 0, mf |-> TRUE, id |-> 1] >>,
             Mapped("server"), POD_IP6, <<>>),
      [Frame6("udp", <<0, 0>>, 28, << [off |-> 0, mf |-> TRUE, id |-> 1] >>,
              Mapped("server"), POD_IP6, <<>>) EXCEPT !.plen = 4]}

MCReplyLens == {4, 8, 20, 65515}
MCReplyFrags == Frags \cup {<< [off |-> 0, mf |-> FALSE, id |-> 9] >>}

MCErrorKinds ==
  {<<1, c, 0>> : c \in {0, 1, 4}} \cup {<<2, 0, m>> : m \in {60, 1280, 1500}}
  \cup {<<3, 0, 0>>, <<4, 1, 6>>, <<4, 0, 7>>, <<4, 0, 5>>, <<4, 2, 0>>}
MCErrorSources == {Native("router"), Mapped("router")}
MCQuoteCuts == {0, 2, 8, 1000}
=============================================================================
