------------------------- MODULE ClatAnswers_proofs -------------------------
(***************************************************************************)
(* Proofs about ClatPath, continued.                                       *)
(***************************************************************************)
EXTENDS ClatPath_proofs

-----------------------------------------------------------------------------
(* clat_ingress.                                                           *)

Record4(hl, sr, len, tot, frag, df, proto, src, dst, check, l4) ==
  [eth |-> "ip4", ver |-> 4, hl |-> hl, has_srcroute |-> sr, len |-> len, tot_len |-> tot,
   frag |-> frag, df |-> df, proto |-> proto, src |-> src, dst |-> dst, check |-> check,
   l4 |-> l4]
IsPacket4(r) ==
  r = Record4(r.hl, r.has_srcroute, r.len, r.tot_len, r.frag, r.df, r.proto, r.src, r.dst,
              r.check, r.l4)

LEMMA Record4Is ==
  ASSUME NEW hl, NEW sr, NEW len, NEW tot, NEW frag, NEW df, NEW proto, NEW src, NEW dst,
         NEW check, NEW l4, NEW r,
         r = Record4(hl, sr, len, tot, frag, df, proto, src, dst, check, l4)
  PROVE  /\ r.eth = "ip4" /\ r.ver = 4 /\ r.hl = hl /\ r.has_srcroute = sr /\ r.len = len
         /\ r.tot_len = tot /\ r.frag = frag /\ r.df = df /\ r.proto = proto /\ r.src = src
         /\ r.dst = dst /\ r.check = check /\ r.l4 = l4 /\ IsPacket4(r)
<1>1. /\ r.eth = "ip4" /\ r.ver = 4 /\ r.hl = hl /\ r.has_srcroute = sr /\ r.len = len
      /\ r.tot_len = tot /\ r.frag = frag /\ r.df = df /\ r.proto = proto /\ r.src = src
      /\ r.dst = dst /\ r.check = check /\ r.l4 = l4
  BY DEF Record4
<1> QED
  BY <1>1, Zenon DEF IsPacket4

(* One field of an IPv4 packet is set, and the others stay. *)
KeepsHead(r, q) ==
  /\ IsPacket4(r) /\ r.eth = "ip4" /\ r.ver = 4 /\ r.hl = q.hl /\ r.frag = q.frag /\ r.df = q.df
  /\ r.proto = q.proto /\ r.src = q.src /\ r.dst = q.dst
Sets4(r, q, len, tot, check, l4) ==
  KeepsHead(r, q) /\ r.len = len /\ r.tot_len = tot /\ r.check = check /\ r.l4 = l4

LEMMA Record4Sets ==
  ASSUME NEW q, NEW len, NEW tot, NEW check, NEW l4, NEW r,
         r = Record4(q.hl, q.has_srcroute, len, tot, q.frag, q.df, q.proto, q.src, q.dst, check, l4)
  PROVE  Sets4(r, q, len, tot, check, l4)
  BY Record4Is, SMTT(90) DEF Sets4, KeepsHead

LEMMA Record4Set ==
  ASSUME NEW q, IsPacket4(q), NEW x
  PROVE  /\ Sets4([q EXCEPT !.len = x], q, x, q.tot_len, q.check, q.l4)
         /\ Sets4([q EXCEPT !.tot_len = x], q, q.len, x, q.check, q.l4)
         /\ Sets4([q EXCEPT !.check = x], q, q.len, q.tot_len, x, q.l4)
         /\ Sets4([q EXCEPT !.l4 = x], q, q.len, q.tot_len, q.check, x)
<1>1. [q EXCEPT !.len = x] = Record4(q.hl, q.has_srcroute, x, q.tot_len, q.frag, q.df, q.proto,
                                     q.src, q.dst, q.check, q.l4)
  BY DEF IsPacket4, Record4
<1>2. [q EXCEPT !.tot_len = x] = Record4(q.hl, q.has_srcroute, q.len, x, q.frag, q.df, q.proto,
                                         q.src, q.dst, q.check, q.l4)
  BY DEF IsPacket4, Record4
<1>3. [q EXCEPT !.check = x] = Record4(q.hl, q.has_srcroute, q.len, q.tot_len, q.frag, q.df,
                                       q.proto, q.src, q.dst, x, q.l4)
  BY DEF IsPacket4, Record4
<1>4. [q EXCEPT !.l4 = x] = Record4(q.hl, q.has_srcroute, q.len, q.tot_len, q.frag, q.df, q.proto,
                                    q.src, q.dst, q.check, x)
  BY DEF IsPacket4, Record4
<1> QED
  BY <1>1, <1>2, <1>3, <1>4, Record4Sets, Zenon

LEMMA HeaderCheckIs ==
  ASSUME NEW q, IsPacket4(q)
  PROVE  LET r == WithHeaderCheck(q)
         IN /\ KeepsHead(r, q) /\ r.len = q.len /\ r.tot_len = q.tot_len /\ r.l4 = q.l4
            /\ HeaderAccepted(r)
<1> DEFINE r == WithHeaderCheck(q)
           x == Fields4(q)
           k == [q EXCEPT !.check = x]
<1>1. r = k
  BY DEF WithHeaderCheck
<1> HIDE DEF r, x
<1>2. Sets4(k, q, q.len, q.tot_len, x, q.l4)
  BY Record4Set, Zenon
<1> HIDE DEF k
<1>3. /\ KeepsHead(r, q) /\ r.len = q.len /\ r.tot_len = q.tot_len /\ r.check = x
      /\ r.l4 = q.l4
  BY <1>1, <1>2, Zenon DEF Sets4
<1>4. Fields4(r) = x
  BY <1>3 DEF Fields4, KeepsHead, x
<1> QED
  BY <1>3, <1>4 DEF HeaderAccepted, r

LEMMA U16Nat == U16 \in Nat /\ U16 > 2000
BY DEF U16

LEMMA U16Mod == ASSUME NEW n \in Nat, n < U16 PROVE n % U16 = n
BY DEF U16

(* What clat_egress has checked of a frame it translates. *)
LEMMA EgressHeader ==
  ASSUME NEW s, IsPodFrame4(s), PassesEgress(s)
  PROVE  /\ s.hl \in Nat /\ s.tot_len \in Nat /\ s.tot_len < U16 /\ s.ver = 4
         /\ IP4_HLEN <= s.hl /\ s.hl <= s.tot_len /\ s.src = Pod4 /\ s.len = s.tot_len
<1>1. s.hl \in Nat /\ s.tot_len \in 0..(U16 - 1)
  BY Zenon DEF IsPodFrame4
<1>2. s.ver = 4 /\ ~(s.hl < IP4_HLEN) /\ s.src = Pod4 /\ ~(s.tot_len < s.hl)
  BY PassedHeader4, Zenon DEF PassesEgress
<1>3. s.tot_len \in Nat /\ s.tot_len < U16 /\ IP4_HLEN <= s.hl /\ s.hl <= s.tot_len
  BY <1>1, <1>2, U16Nat DEF IP4_HLEN
<1>4. s.len = s.tot_len
  BY <1>2, <1>3, Zenon DEF IsPodFrame4
<1> QED
  BY <1>1, <1>2, <1>3, <1>4

LEMMA Fragment4Is ==
  ASSUME NEW f, IsFragment(f)
  PROVE  Fragment4(f) = f
<1>1. CASE f = <<>>
  BY <1>1 DEF Fragment4
<1>2. CASE f # <<>>
  <2> DEFINE x == f[1]
  <2>1. /\ f = << [off |-> x.off, mf |-> x.mf, id |-> x.id] >> /\ x.id \in 0..(U16 - 1)
    BY <1>2 DEF IsFragment
  <2>2. x = [off |-> x.off, mf |-> x.mf, id |-> x.id]
    BY <2>1
  <2>3. x.id % U16 = x.id
    <3>1. x.id \in 0..(U16 - 1)
      BY <2>1
    <3>2. x.id \in Nat /\ x.id < U16
      BY <3>1, U16Nat
    <3> QED
      BY <3>2, U16Mod
  <2>4. Fragment4(f) = << [x EXCEPT !.id = x.id % U16] >>
    BY <1>2 DEF Fragment4
  <2>5. f = << x >>
    BY <2>1, <2>2
  <2> HIDE DEF x
  <2>6. [x EXCEPT !.id = x.id % U16] = x
    BY <2>2, <2>3
  <2> QED
    BY <2>4, <2>5, <2>6
<1> QED
  BY <1>1, <1>2

Fr(p) == IF IsFrag(p) THEN FRAG_HLEN ELSE 0
LEMMA ReshapeIs ==
  ASSUME NEW p, IsFragment(p.frag)
  PROVE  LET r == Reshape(p)
         IN /\ IsPacket4(r) /\ r.eth = "ip4" /\ r.ver = 4 /\ r.hl = IP4_HLEN
            /\ r.len = p.len - (IP6_HLEN - IP4_HLEN) - Fr(p)
            /\ r.tot_len = (payload_len(p) + IP4_HLEN) % U16
            /\ r.frag = p.frag /\ (r.df <=> ~IsFrag(p)) /\ r.dst = Pod4 /\ r.l4 = p.l4
            /\ r.proto = (IF p.nh = "icmp6" THEN "icmp" ELSE p.nh)
            /\ r.src = (IF in_prefix(p.src) THEN p.src.host ELSE Err4)
            /\ HeaderAccepted(r)
<1> DEFINE len == p.len - (IP6_HLEN - IP4_HLEN) - Fr(p)
           tot == (payload_len(p) + IP4_HLEN) % U16
           pr == IF p.nh = "icmp6" THEN "icmp" ELSE p.nh
           src == IF in_prefix(p.src) THEN p.src.host ELSE Err4
           q == Record4(IP4_HLEN, FALSE, len, tot, Fragment4(p.frag), ~IsFrag(p), pr, src, Pod4,
                        <<>>, p.l4)
           r == Reshape(p)
<1>1. r = WithHeaderCheck(q)
  BY Zenon DEF Reshape, Record4, Fr
<1>2. q = Record4(IP4_HLEN, FALSE, len, tot, Fragment4(p.frag), ~IsFrag(p), pr, src, Pod4, <<>>,
                  p.l4)
  OBVIOUS
<1> HIDE DEF q, r, len, tot, pr, src
<1>3. /\ IsPacket4(q) /\ q.hl = IP4_HLEN /\ q.len = len /\ q.tot_len = tot
      /\ q.frag = Fragment4(p.frag) /\ q.df = ~IsFrag(p) /\ q.proto = pr /\ q.src = src
      /\ q.dst = Pod4 /\ q.l4 = p.l4
  <2>1. /\ q.hl = IP4_HLEN /\ q.has_srcroute = FALSE /\ q.len = len /\ q.tot_len = tot
        /\ q.frag = Fragment4(p.frag) /\ q.df = ~IsFrag(p) /\ q.proto = pr /\ q.src = src
        /\ q.dst = Pod4 /\ q.check = <<>> /\ q.l4 = p.l4
    BY <1>2, Zenon DEF Record4
  <2> QED
    BY <1>2, <2>1, Zenon DEF IsPacket4
<1>4. Fragment4(p.frag) = p.frag
  BY Fragment4Is
<1>5. /\ KeepsHead(r, q) /\ r.len = q.len /\ r.tot_len = q.tot_len /\ r.l4 = q.l4
      /\ HeaderAccepted(r)
  BY <1>1, <1>3, HeaderCheckIs, Zenon
<1>6. r.df <=> ~IsFrag(p)
  BY <1>3, <1>5, Zenon DEF KeepsHead
<1>7. /\ IsPacket4(r) /\ r.eth = "ip4" /\ r.ver = 4 /\ r.hl = IP4_HLEN /\ r.len = len
      /\ r.tot_len = tot /\ r.frag = p.frag /\ r.dst = Pod4 /\ r.l4 = p.l4
      /\ r.proto = pr /\ r.src = src
  BY <1>3, <1>4, <1>5, Zenon DEF KeepsHead
<1> QED
  BY <1>5, <1>6, <1>7 DEF r, len, tot, pr, src

(* clat_ingress translates no native frame. *)
LEMMA NativeStays ==
  ASSUME NEW p \in NativeFrames
  PROVE  ~PassesIngress(p)
<1> SUFFICES ASSUME p.eth = "ip6", ReturnTraffic(p)
             PROVE  \/ FirstDrop(HeaderChecks6(p)) # "none"
                    \/ FirstDrop(TransportChecks6(p)) # "none"
  BY Zenon DEF PassesIngress, ReturnTraffic
<1>1. p.l4.q # <<>> => ~(p.l4.q[1].src = POD_IP6 /\ p.l4.q[1].dst.net = "clat")
  BY NativeAssumption, Zenon
<1>2. ~RouterError(p)
  BY <1>1, Zenon DEF RouterError, QuotesUs, addr6_eq, in_prefix
<1>3. p.src.net = "clat" /\ p.dst = POD_IP6 /\ p.len >= IP6_HLEN + FRAG_HLEN
  BY <1>2, Zenon DEF ReturnTraffic, addr6_eq, in_prefix
<1> QED
  BY <1>3, NativeAssumption, Zenon

(* What clat_ingress translates passed its checks, and is an answer. *)
LEMMA IngressRan ==
  ASSUME FlowInv, Changed("ingress")
  PROVE  /\ PassesIngress(Was) /\ \E q \in Outgoing : IsReply(q, Was) \/ IsError(q, Was)
         /\ \E lost \in BOOLEAN : (lost => "carry" \in Faults) /\ Is = Packet4Of(Was, lost)
<1> DEFINE o == ev[1].out
           p == Was
<1>1. o \in clat_ingress(p) /\ Comes(p) /\ o.counter # "none" /\ o.act = "ok"
  BY Zenon DEF FlowInv, LastRun, Ran, Changed, Was
<1>2. Is = o.pkt[1]
  BY DEF Is
<1> HIDE DEF o, p
<1>3. PassesIngress(p) /\ \E lost \in BOOLEAN :
        (lost => "carry" \in Faults) /\ o = Translated("INGRESS_TRANSLATED", Packet4Of(p, lost))
  <2>1. o # Pass(p) /\ o # Unread(p) /\ \A c : o # DROP(c)
    BY <1>1 DEF Pass, Unread, DROP
  <2>2. \/ ~ReturnTraffic(p) /\ o = Pass(p)
        \/ ReturnTraffic(p) /\ o = Unread(p)
        \/ ReturnTraffic(p) /\ \E c \in IngressCounters : o = DROP(c)
        \/ /\ PassesIngress(p)
           /\ \E lost \in BOOLEAN : /\ lost => "carry" \in Faults
                                    /\ o = Translated("INGRESS_TRANSLATED", Packet4Of(p, lost))
    BY <1>1, IngressOutcome
  <2> QED
    BY <2>1, <2>2, Zenon
<1>4. \A x : o = Translated("INGRESS_TRANSLATED", x) => Is = x
  BY <1>2 DEF Translated
<1>5. p \notin NativeFrames
  BY <1>3, NativeStays, Zenon
<1>6. \E q \in Outgoing : IsReply(q, p) \/ IsError(q, p)
  BY <1>1, <1>5, Zenon DEF Comes
<1>7. \E lost \in BOOLEAN : (lost => "carry" \in Faults) /\ Is = Packet4Of(p, lost)
  BY <1>3, <1>4, Zenon
<1> QED
  BY <1>3, <1>6, <1>7, Zenon DEF p

LEMMA PassedHeader6 ==
  ASSUME NEW p, PassesIngress(p), p.nh = "icmp6"
  PROVE  ~IsFrag(p)
<1> DEFINE s == HeaderChecks6(p)
<1>1. DOMAIN s = 1..3 /\ \A i \in 1..3 : s[i][2] # "none"
  BY DEF HeaderChecks6
<1>2. s[3][1] = (p.nh = "icmp6" /\ IsFrag(p))
  BY DEF HeaderChecks6
<1>3. FirstDrop(s) = "none"
  BY DEF PassesIngress
<1> HIDE DEF s
<1>4. ~s[3][1]
  BY <1>1, <1>3, NoDrop
<1> QED
  BY <1>2, <1>4, Zenon

(* An error that quotes an echo shows its checksum. *)
LEMMA PassedError6 ==
  ASSUME NEW p, PassesIngress(p), First(p), p.nh = "icmp6", ~IsEcho6(p.l4.tc[1]),
         QuotesUs(p.l4), EmbeddedEcho(p.l4.q[1])
  PROVE  ~(p.l4.q[1].l4.n < 4)
<1> DEFINE s == TransportChecks6(p)
           e == ErrorChecks(p.l4)
           q == p.l4.q[1]
           cut == IsFrag(q) /\ p.l4.n < 8 + IP6_HLEN + FRAG_HLEN
           ext == is_ext_hdr(q.nh)
           echo == /\ q.nh = "icmp6" /\ ~IsFrag(q)
                   /\ q.l4.n < 2 \/ (IsEcho6(q.l4.tc[1]) /\ q.l4.n < 4)
           z == \/ QuotesUs(p.l4) /\ cut
                \/ QuotesUs(p.l4) /\ ext
                \/ QuotesUs(p.l4) /\ echo
<1>1. PICK x, y : e = << <<x, "INGRESS_DROP_ICMP_UNSUPPORTED">>,
                         <<y, "INGRESS_DROP_ICMP_INNER">>,
                         <<z, "INGRESS_DROP_ICMP_INNER">> >>
  BY Zenon DEF ErrorChecks
<1>2. PICK b : s = << <<b, "INGRESS_DROP_TRUNCATED">> >> \o e
  BY Zenon DEF TransportChecks6
<1>3. FirstDrop(s) = "none"
  BY DEF PassesIngress
<1> HIDE DEF s, e, z
<1>4. DOMAIN s = 1..4 /\ s[1] = <<b, "INGRESS_DROP_TRUNCATED">>
              /\ s[2] = e[1] /\ s[3] = e[2] /\ s[4] = e[3]
  BY <1>1, <1>2
<1>5. /\ e[1][2] = "INGRESS_DROP_ICMP_UNSUPPORTED" /\ e[2][2] = "INGRESS_DROP_ICMP_INNER"
      /\ e[3][2] = "INGRESS_DROP_ICMP_INNER" /\ e[3][1] = z
  BY <1>1
<1>6. ~s[4][1]
  BY <1>3, <1>4, <1>5, NoDrop
<1>7. ~z
  BY <1>4, <1>5, <1>6, Zenon
<1> QED
  BY <1>7, Zenon DEF z, EmbeddedEcho

(* The transport part of an IPv4 packet is set, wholly or in part. *)
SetsL4(r, h, m) ==
  /\ KeepsHead(r, h) /\ r.len = h.len /\ r.tot_len = h.tot_len /\ r.check = h.check /\ r.l4 = m

LEMMA NestedSet ==
  ASSUME NEW h, IsPacket4(h), IsTransport(h.l4), NEW tc, NEW g
  PROVE  /\ SetsL4([h EXCEPT !.l4.field = g], h,
                   RecordL4(h.l4.tc, h.l4.info, h.l4.data, h.l4.n, h.l4.dlen, g, h.l4.part, h.l4.q))
         /\ SetsL4([h EXCEPT !.l4.tc = tc, !.l4.field = g], h,
                   RecordL4(tc, h.l4.info, h.l4.data, h.l4.n, h.l4.dlen, g, h.l4.part, h.l4.q))
<1> DEFINE l == h.l4
           m == [l EXCEPT !.field = g]
           k == [l EXCEPT !.tc = tc]
           j == [k EXCEPT !.field = g]
<1>1. l = RecordL4(l.tc, l.info, l.data, l.n, l.dlen, l.field, l.part, l.q)
  BY TransportRecord
<1>2. [h EXCEPT !.l4.field = g] = [h EXCEPT !.l4 = m]
  BY DEF IsPacket4, Record4
<1>3. [h EXCEPT !.l4.tc = tc, !.l4.field = g] = [h EXCEPT !.l4 = j]
  BY Zenon DEF IsPacket4, Record4
<1> HIDE DEF l
<1>4. m = RecordL4(l.tc, l.info, l.data, l.n, l.dlen, g, l.part, l.q)
  BY <1>1, RecordL4Set, Zenon
<1>5. k = RecordL4(tc, l.info, l.data, l.n, l.dlen, l.field, l.part, l.q)
  BY <1>1, RecordL4Set, Zenon
<1> HIDE DEF k
<1>6. /\ k.tc = tc /\ k.info = l.info /\ k.data = l.data /\ k.n = l.n /\ k.dlen = l.dlen
      /\ k.field = l.field /\ k.part = l.part /\ k.q = l.q
  BY <1>5 DEF RecordL4
<1>7. k = RecordL4(k.tc, k.info, k.data, k.n, k.dlen, k.field, k.part, k.q)
  BY <1>5, <1>6, ZenonT(90)
<1>8. j = RecordL4(k.tc, k.info, k.data, k.n, k.dlen, g, k.part, k.q)
  BY <1>7, RecordL4Set, Zenon
<1>9. j = RecordL4(tc, l.info, l.data, l.n, l.dlen, g, l.part, l.q)
  BY <1>6, <1>8
<1> HIDE DEF m, j
<1>10. ASSUME NEW x PROVE SetsL4([h EXCEPT !.l4 = x], h, x)
  <2> DEFINE r == [h EXCEPT !.l4 = x]
  <2>1. Sets4(r, h, h.len, h.tot_len, h.check, x)
    BY Record4Set, Zenon
  <2> HIDE DEF r
  <2>2. SetsL4(r, h, x)
    BY <2>1, Zenon DEF SetsL4, Sets4
  <2> QED
    BY <2>2 DEF r
<1>11. SetsL4([h EXCEPT !.l4 = m], h, m) /\ SetsL4([h EXCEPT !.l4 = j], h, j)
  BY <1>10, Zenon
<1> QED
  BY <1>2, <1>3, <1>4, <1>9, <1>11 DEF l

(* TCP, UDP: the addresses are exchanged in the sum. *)
LEMMA Update6Is ==
  ASSUME NEW p, IsPacket6(p), IsFragment(p.frag), ~p.l4.part
  PROVE  LET r == UpdateAddresses6(p)
             h == Reshape(p)
         IN /\ SetsL4(r, h, r.l4) /\ SameBut(p.l4, r.l4) /\ r.l4.tc = p.l4.tc
            /\ \A t : Coef(r.l4.field, t) = Coef(p.l4.field, t) + Coef(Addr6(p.src, p.dst), t)
                                            - Coef(Addr4(h.src, h.dst), t)
<1> DEFINE r == UpdateAddresses6(p)
           h == Reshape(p)
           A4 == Addr4(h.src, h.dst)
           A6 == Addr6(p.src, p.dst)
           D == bpf_csum_diff(A6, A4, Zero)
           g == bpf_l4_csum_replace(p.l4.field, p.l4.part, D)
           l == p.l4
           m == RecordL4(l.tc, l.info, l.data, l.n, l.dlen, g, l.part, l.q)
<1>1. IsPacket4(h) /\ h.l4 = p.l4 /\ IsTransport(p.l4) /\ IsForm(p.l4.field)
  BY ReshapeIs, Zenon DEF IsPacket6, IsTransport
<1>2. r = [h EXCEPT !.l4.field = bpf_l4_csum_replace(@, p.l4.part, D)]
  BY Zenon DEF UpdateAddresses6
<1> HIDE DEF h, D
<1>3. r = [h EXCEPT !.l4.field = g]
  BY <1>1, <1>2 DEF IsPacket4, Record4
<1> HIDE DEF r, g
<1>4. SetsL4(r, h, m)
  BY <1>1, <1>3, NestedSet, Zenon
<1>5. IsForm(D) /\ \A t : Coef(D, t) = Coef(Zero, t) - Coef(A6, t) + Coef(A4, t)
  BY PacketForms, ZeroIs, DiffIs, SMTT(90) DEF D
<1>6. g = Minus(p.l4.field, D)
  BY DEF g, bpf_l4_csum_replace
<1>7. IsForm(g) /\ \A t : Coef(g, t) = Coef(p.l4.field, t) - Coef(D, t)
  BY <1>1, <1>5, <1>6, MinusIs, SMTT(90)
<1>8. \A t : Coef(p.l4.field, t) \in Int /\ Coef(A6, t) \in Int /\ Coef(A4, t) \in Int
  BY <1>1, PacketForms, CoefOf, Zenon
<1> HIDE DEF A4, A6
<1>9. \A t : Coef(g, t) = Coef(p.l4.field, t) + Coef(A6, t) - Coef(A4, t)
  BY <1>5, <1>7, <1>8, ZeroIs, SMTT(90)
<1>10. r.l4 = m
  BY <1>4, Zenon DEF SetsL4
<1> HIDE DEF l
<1>11. /\ m = [tc |-> l.tc, info |-> l.info, data |-> l.data, n |-> l.n, dlen |-> l.dlen,
              field |-> g, part |-> l.part, q |-> l.q]
       /\ l.tc = <<l.tc[1], l.tc[2]>>
  BY <1>1, Zenon DEF RecordL4, IsTransport, l
<1> HIDE DEF m
<1>12. SameBut(l, m) /\ m.tc = l.tc /\ m.field = g
  BY <1>1, <1>7, <1>11, Rewritten DEF l
<1> QED
  BY <1>4, <1>9, <1>10, <1>12, Zenon DEF r, h, A4, A6, l

(* Echo: the type changes, and the pseudo-header leaves the sum. *)
LEMMA Echo6Is ==
  ASSUME NEW p, IsPacket6(p), IsFragment(p.frag), ~p.l4.part
  PROVE  LET r == EchoToIcmp4(p)
             p6 == Pseudo6(p.src, p.dst, payload_len(p), "icmp6")
         IN /\ SetsL4(r, Reshape(p), r.l4) /\ SameBut(p.l4, r.l4)
            /\ r.l4.tc = <<EchoTo4(p.l4.tc[1]), p.l4.tc[2]>>
            /\ \A t : Coef(r.l4.field, t) = Coef(p.l4.field, t) + Coef(p6, t)
                                            + Coef(TypeWord(p.l4.tc), t) - Coef(TypeWord(r.l4.tc), t)
<1> DEFINE r == EchoToIcmp4(p)
           h == Reshape(p)
           p6 == Pseudo6(p.src, p.dst, payload_len(p), "icmp6")
           tc4 == <<EchoTo4(p.l4.tc[1]), p.l4.tc[2]>>
           w == TypeWord(p.l4.tc)
           w4 == TypeWord(tc4)
           E == bpf_csum_diff(p6, Zero, Zero)
           D == bpf_csum_diff(w, w4, E)
           g == bpf_l4_csum_replace(p.l4.field, p.l4.part, D)
           l == p.l4
           m == RecordL4(tc4, l.info, l.data, l.n, l.dlen, g, l.part, l.q)
<1>1. IsPacket4(h) /\ h.l4 = p.l4 /\ IsTransport(p.l4) /\ IsForm(p.l4.field)
  BY ReshapeIs, Zenon DEF IsPacket6, IsTransport
<1>2. r = [h EXCEPT !.l4.tc = tc4, !.l4.field = bpf_l4_csum_replace(@, p.l4.part, D)]
  BY Zenon DEF EchoToIcmp4, WithoutPseudo
<1>3. tc4 = <<tc4[1], tc4[2]>>
  OBVIOUS
<1> HIDE DEF h, D, tc4
<1>4. r = [h EXCEPT !.l4.tc = tc4, !.l4.field = g]
  BY <1>1, <1>2, TransportRecord DEF IsPacket4, Record4, RecordL4
<1> HIDE DEF r, g
<1>5. SetsL4(r, h, m)
  BY <1>1, <1>4, NestedSet, Zenon
<1>6. IsForm(E) /\ \A t : Coef(E, t) = Coef(Zero, t) - Coef(p6, t) + Coef(Zero, t)
  BY PacketForms, ZeroIs, DiffIs
<1> HIDE DEF E
<1>7. IsForm(D) /\ \A t : Coef(D, t) = Coef(E, t) - Coef(w, t) + Coef(w4, t)
  BY <1>6, PacketForms, DiffIs DEF D
<1>8. g = Minus(p.l4.field, D)
  BY DEF g, bpf_l4_csum_replace
<1>9. IsForm(g) /\ \A t : Coef(g, t) = Coef(p.l4.field, t) - Coef(D, t)
  BY <1>1, <1>7, <1>8, MinusIs
<1>10. \A t : /\ Coef(p.l4.field, t) \in Int /\ Coef(p6, t) \in Int /\ Coef(w, t) \in Int
              /\ Coef(w4, t) \in Int
  BY <1>1, PacketForms, CoefOf, Zenon
<1> HIDE DEF p6, w, w4
<1>11. \A t : Coef(g, t) = Coef(p.l4.field, t) + Coef(p6, t) + Coef(w, t) - Coef(w4, t)
  BY <1>6, <1>7, <1>9, <1>10, ZeroIs
<1>12. r.l4 = m
  BY <1>5 DEF SetsL4
<1> HIDE DEF l
<1>13. m = [tc |-> tc4, info |-> l.info, data |-> l.data, n |-> l.n, dlen |-> l.dlen,
            field |-> g, part |-> l.part, q |-> l.q]
  BY DEF RecordL4
<1> HIDE DEF m
<1>14. SameBut(l, m) /\ m.tc = tc4 /\ m.field = g
  BY <1>1, <1>3, <1>9, <1>13, Rewritten DEF l
<1> QED
  BY <1>5, <1>11, <1>12, <1>14, Zenon DEF r, h, p6, w, w4, l, tc4

(* The reply to a frame s of the pod, as the pod receives it.              *)
LEMMA ReplyTranslated ==
  ASSUME NEW s, NEW q, NEW a, About(s, q, a), a.l4.tc[1] # 129, NEW n \in ReplyLens,
         NEW f \in ReplyFrags, NEW p, p = Reply(a, n, f), PassesIngress(p), NEW lost,
         NEW r, r = Packet4Of(p, lost)
  PROVE  /\ SetsL4(r, Reshape(p), r.l4) /\ r.l4.n = n /\ r.l4.q = <<>>
         /\ r.l4.info = s.l4.info
         /\ s.proto = "icmp" => s.l4.tc = <<8, 0>> /\ r.l4.tc = <<0, 0>>
         /\ First(p) /\ CsumEnd(p.nh) # 0 => Accepted(r)
<1> DEFINE h == Reshape(p)
<1>1. /\ IsPacket6(a) /\ a.src = POD_IP6 /\ a.dst = Mapped(s.dst) /\ a.frag = s.frag
      /\ a.nh = (IF s.proto = "icmp" THEN "icmp6" ELSE s.proto)
      /\ a.l4.tc = Transport6Of(s).tc /\ a.l4.info = s.l4.info
  BY AboutIs, SMTT(90)
<1>2. /\ IsPacket6(p) /\ p.eth = "ip6" /\ p.src = a.dst /\ p.dst = a.src /\ p.frag = f
      /\ p.nh = a.nh /\ p.plen = ReplyLen(f) + n /\ p.l4.n = n /\ p.l4.q = <<>>
      /\ p.l4.tc = (IF a.l4.tc[1] = 128 THEN <<129, 0>> ELSE a.l4.tc)
      /\ p.l4.info = a.l4.info /\ (f = <<>> => p.l4.dlen = n)
      /\ p.l4.field = (IF First(p) /\ CsumEnd(p.nh) # 0 THEN FullField(p) ELSE Zero)
  BY <1>1, ReplyIs
<1>3. ~p.l4.part
  BY <1>1, ReplyIs
<1>4. n \in Nat /\ IsFragment(p.frag)
  BY <1>2, NetworkAssumption, Zenon
<1>5. s.proto # "icmp6" /\ IsPodFrame4(s) /\ IsSent4(s) /\ PassesEgress(s)
  BY Zenon DEF About, Left, IsPodFrame4
<1>6. p.nh = "icmp6" <=> s.proto = "icmp"
  BY <1>1, <1>2, <1>5, Zenon
<1>7. ASSUME s.proto = "icmp" PROVE s.l4.tc = <<8, 0>> /\ p.l4.tc = <<129, 0>> /\ ~IsFrag(p)
  <2>1. ~IsFrag(s) /\ First(s)
    BY <1>5, <1>7, PassedHeader4, Zenon DEF PassesEgress, First
  <2>2. EchoTo6(s.l4.tc[1]) # -1
    BY <1>5, <1>7, <2>1, PassedTransport4, Zenon DEF PassesEgress
  <2>3. a.l4.tc = <<EchoTo6(s.l4.tc[1]), s.l4.tc[2]>>
    BY <1>1, <1>5, <1>7, <2>1, Transport6Is, Zenon
  <2>4. s.l4.tc[1] = 8 /\ a.l4.tc[1] = 128
    BY <2>2, <2>3 DEF EchoTo6
  <2>5. s.l4.tc = <<8, 0>>
    BY <1>5, <1>7, <2>4 DEF IsSent4
  <2>6. ~IsFrag(p)
    BY <1>6, <1>7, PassedHeader6
  <2> QED
    BY <1>2, <2>4, <2>5, <2>6, Zenon
<1>8. /\ IsPacket4(h) /\ h.eth = "ip4" /\ h.l4 = p.l4 /\ h.dst = Pod4
      /\ h.proto = (IF p.nh = "icmp6" THEN "icmp" ELSE p.nh)
  BY <1>4, ReshapeIs
<1>9. IsForm(p.l4.field) /\ IsTransport(p.l4)
  BY <1>2, Zenon DEF IsPacket6, IsTransport
<1>10. IsForm(Pseudo(p)) /\ IsForm(Bytes(p.l4))
  BY <1>2, PacketForms, BytesIs, Zenon DEF Pseudo
<1>11. First(p) /\ CsumEnd(p.nh) # 0 =>
         \A t : Coef(p.l4.field, t) = - Coef(Pseudo(p), t) - Coef(Bytes(p.l4), t)
  BY <1>2, <1>10, FullFieldIs, SMTT(90)
<1>12. Pseudo(p) = Pseudo6(p.src, p.dst, p.l4.dlen, p.nh)
  BY <1>2, Zenon DEF Pseudo
<1> HIDE DEF h
<1> DEFINE A4(t) == Coef(Addr4(h.src, h.dst), t)
           A6(t) == Coef(Addr6(p.src, p.dst), t)
           LP(t) == Coef(LenProto(p.l4.dlen, p.nh), t)
           W(t) == Coef(TypeWord(p.l4.tc), t)
           W4(t) == Coef(TypeWord(r.l4.tc), t)
           U(t) == Coef(Sum({<<"info", p.l4.info>>}), t)
           Y(t) == Coef(Sum({<<"data", p.l4.data, p.l4.dlen>>}), t)
           F(t) == Coef(p.l4.field, t)
           F4(t) == Coef(r.l4.field, t)
<1>13. \A t : /\ A4(t) \in Int /\ A6(t) \in Int /\ LP(t) \in Int /\ W(t) \in Int /\ W4(t) \in Int
              /\ U(t) \in Int /\ Y(t) \in Int /\ F(t) \in Int
  <2>1. /\ IsForm(Addr4(h.src, h.dst)) /\ IsForm(Addr6(p.src, p.dst))
        /\ IsForm(LenProto(p.l4.dlen, p.nh)) /\ IsForm(TypeWord(p.l4.tc))
        /\ IsForm(TypeWord(r.l4.tc))
    BY PacketForms, Zenon
  <2>2. /\ IsForm(Sum({<<"info", p.l4.info>>})) /\ IsForm(p.l4.field)
        /\ IsForm(Sum({<<"data", p.l4.data, p.l4.dlen>>}))
    BY <1>9, SumIs, Zenon
  <2> QED
    BY <2>1, <2>2, CoefOf, ZenonT(90)
<1>14. \A t : Coef(Pseudo(p), t) = A6(t) + LP(t) /\ Coef(Bytes(p.l4), t) = W(t) + U(t) + Y(t)
  BY <1>2, <1>12, PseudoIs, BytesIs
\* When the translated packet is accepted.
<1>15. ASSUME SetsL4(r, h, r.l4), SameBut(p.l4, r.l4)
       PROVE  /\ r.l4.n = n /\ r.l4.q = <<>> /\ r.l4.info = s.l4.info
              /\ (\A t : F4(t) + Coef(Pseudo4(h.src, h.dst, p.l4.dlen, h.proto), t)
                         + (W4(t) + U(t) + Y(t)) = 0) => Accepted(r)
  <2>1. r.l4.n = n /\ r.l4.q = <<>> /\ r.l4.info = s.l4.info /\ IsForm(r.l4.field)
    BY <1>1, <1>2, <1>15, ZenonT(90) DEF SameBut, IsTransport
  <2>2. ~r.l4.part
    BY <1>3, <1>15, Zenon DEF SameBut
  <2>3. Pseudo(r) = Pseudo4(h.src, h.dst, p.l4.dlen, h.proto)
    BY <1>8, <1>15, Zenon DEF Pseudo, SetsL4, KeepsHead, SameBut
  <2>4. IsForm(Bytes(r.l4)) /\ \A t : Coef(Bytes(r.l4), t) = W4(t) + U(t) + Y(t)
    <3>1. r.l4.info = p.l4.info /\ r.l4.data = p.l4.data /\ r.l4.dlen = p.l4.dlen
      BY <1>15, Zenon DEF SameBut
    <3>2. /\ IsForm(Bytes(r.l4))
          /\ \A t : Coef(Bytes(r.l4), t) = Coef(TypeWord(r.l4.tc), t)
                       + Coef(Sum({<<"info", r.l4.info>>}), t)
                       + Coef(Sum({<<"data", r.l4.data, r.l4.dlen>>}), t)
      BY <2>1, BytesIs, Zenon
    <3> QED
      BY <3>1, <3>2, Zenon
  <2>5. IsForm(Pseudo(r))
    BY <2>3, PacketForms, Zenon
  <2>6. Accepted(r) <=> \A t : F4(t) + Coef(Pseudo(r), t) + Coef(Bytes(r.l4), t) = 0
    BY <2>1, <2>2, <2>4, <2>5, SumsToZero, SMTT(90) DEF Accepted
  <2> HIDE DEF F4, W4, U, Y
  <2> QED
    BY <2>1, <2>3, <2>4, <2>6, ZenonT(90)
<1>16. CASE First(p) /\ p.nh \in {"tcp", "udp"}
  <2>1. r = UpdateAddresses6(p)
    BY <1>16, ZenonT(90) DEF Packet4Of
  <2>2. /\ SetsL4(r, h, r.l4) /\ SameBut(p.l4, r.l4) /\ r.l4.tc = p.l4.tc
        /\ \A t : F4(t) = F(t) + A6(t) - A4(t)
    BY <1>2, <1>3, <1>4, <2>1, Update6Is, ZenonT(90) DEF h
  <2>3. \A t : Coef(Pseudo4(h.src, h.dst, p.l4.dlen, h.proto), t) = A4(t) + LP(t)
    BY <1>8, <1>16, PseudoIs, SMTT(90)
  <2>4. \A t : W4(t) = W(t)
    BY <2>2, Zenon
  <2>5. s.proto # "icmp"
    BY <1>6, <1>16
  <2>6. CsumEnd(p.nh) # 0
    BY <1>16 DEF CsumEnd
  <2>7. \A t : F(t) = - Coef(Pseudo(p), t) - Coef(Bytes(p.l4), t)
    BY <1>11, <1>16, <2>6, ZenonT(90)
  <2> HIDE DEF A4, A6, LP, W, W4, U, Y, F, F4
  <2>8. \A t : F4(t) + Coef(Pseudo4(h.src, h.dst, p.l4.dlen, h.proto), t)
               + (W4(t) + U(t) + Y(t)) = 0
    BY <1>13, <1>14, <2>2, <2>3, <2>4, <2>7, SMTT(90)
  <2> QED
    BY <1>15, <2>2, <2>5, <2>8, Zenon DEF h
<1>17. CASE First(p) /\ p.nh = "icmp6"
  <2>1. p.l4.tc = <<129, 0>> /\ s.l4.tc = <<8, 0>> /\ ~IsFrag(p)
    BY <1>6, <1>7, <1>17, Zenon
  <2>2. EchoTo4(p.l4.tc[1]) = 0 /\ IsEcho6(p.l4.tc[1])
    BY <2>1 DEF EchoTo4, IsEcho6
  <2>3. r = EchoToIcmp4(p)
    BY <1>17, <2>2, ZenonT(90) DEF Packet4Of
  <2>4. payload_len(p) = p.l4.dlen
    BY <1>2, <1>4, <2>1, SMTT(90) DEF payload_len, IsFrag, ReplyLen
  <2>5. /\ SetsL4(r, h, r.l4) /\ SameBut(p.l4, r.l4)
        /\ r.l4.tc = <<EchoTo4(p.l4.tc[1]), p.l4.tc[2]>>
        /\ \A t : F4(t) = F(t) + Coef(Pseudo6(p.src, p.dst, p.l4.dlen, "icmp6"), t)
                          + W(t) - W4(t)
    BY <1>2, <1>3, <1>4, <2>3, <2>4, Echo6Is, ZenonT(90) DEF h
  <2>6. r.l4.tc = <<0, 0>>
    BY <2>1, <2>2, <2>5, SMTT(90)
  <2>7. \A t : Coef(Pseudo4(h.src, h.dst, p.l4.dlen, h.proto), t) = 0
    BY <1>8, <1>17, PseudoIs, SMTT(90)
  <2>8. \A t : F4(t) = F(t) + Coef(Pseudo(p), t) + W(t) - W4(t)
    BY <1>12, <1>17, <2>5, SMTT(90)
  <2>9. CsumEnd(p.nh) # 0
    BY <1>17 DEF CsumEnd
  <2>10. \A t : F(t) = - Coef(Pseudo(p), t) - Coef(Bytes(p.l4), t)
    BY <1>11, <1>17, <2>9, Zenon
  <2> HIDE DEF A4, A6, LP, W, W4, U, Y, F, F4
  <2>11. \A t : F4(t) + Coef(Pseudo4(h.src, h.dst, p.l4.dlen, h.proto), t)
                + (W4(t) + U(t) + Y(t)) = 0
    BY <1>13, <1>14, <2>7, <2>8, <2>10, SMTT(90)
  <2> QED
    BY <1>15, <2>1, <2>5, <2>6, <2>11, Zenon DEF h
<1>18. CASE ~(First(p) /\ p.nh \in {"tcp", "udp", "icmp6"})
  <2>1. r = h
    BY <1>18, ZenonT(90) DEF Packet4Of, h
  <2>2. SetsL4(r, h, r.l4) /\ SameBut(p.l4, r.l4)
    BY <1>8, <1>9, <2>1, SMTT(90) DEF SetsL4, KeepsHead, SameBut, IsPacket4, Record4
  <2>3. First(p) => CsumEnd(p.nh) = 0
    BY <1>1, <1>2, <1>5, <1>18, ZenonT(90) DEF CsumEnd
  <2>4. s.proto # "icmp"
    BY <1>6, <1>7, <1>18 DEF First
  <2> QED
    BY <1>15, <2>2, <2>3, <2>4, Zenon DEF h
<1> QED
  BY <1>16, <1>17, <1>18, Zenon

(* The record operations of ErrorToIcmp4. *)
ErrorOwn(l, tc, info) == [l EXCEPT !.tc = tc, !.info = info]
ErrorPart(new, sh, Q, X) ==
  [new EXCEPT !.n = @ - sh, !.dlen = @ - sh, !.q = Q, !.field = X]
ErrorHead(h, sh, M) == [h EXCEPT !.len = @ - sh, !.tot_len = (@ - sh) % U16, !.l4 = M]

LEMMA ErrorL4 ==
  ASSUME NEW l, l = RecordL4(l.tc, l.info, l.data, l.n, l.dlen, l.field, l.part, l.q),
         NEW tc, NEW info, NEW sh, NEW Q, NEW X
  PROVE  LET new == ErrorOwn(l, tc, info)
         IN /\ new = RecordL4(tc, info, l.data, l.n, l.dlen, l.field, l.part, l.q)
            /\ ErrorPart(new, sh, Q, X)
                 = RecordL4(tc, info, l.data, l.n - sh, l.dlen - sh, X, l.part, Q)
<1> DEFINE new == [l EXCEPT !.tc = tc, !.info = info]
<1>1. new = RecordL4(tc, info, l.data, l.n, l.dlen, l.field, l.part, l.q)
  <2> DEFINE k == [l EXCEPT !.tc = tc]
  <2>1. k = RecordL4(tc, l.info, l.data, l.n, l.dlen, l.field, l.part, l.q)
    BY RecordL4Set, Zenon
  <2>2. new = [k EXCEPT !.info = info]
    BY DEF RecordL4
  <2> HIDE DEF k
  <2> QED
    BY <2>1, <2>2 DEF RecordL4
<1> HIDE DEF new
<1>2. new.n = l.n /\ new.dlen = l.dlen
  BY <1>1 DEF RecordL4
<1> DEFINE x == new.n - sh
           y == new.dlen - sh
           a == [new EXCEPT !.n = x]
           b == [a EXCEPT !.dlen = y]
           c == [b EXCEPT !.q = Q]
           d == [c EXCEPT !.field = X]
           e == [new EXCEPT !.n = x, !.dlen = y, !.q = Q, !.field = X]
<1> HIDE DEF x, y
<1>3. e = d
  BY <1>1 DEF RecordL4
<1>4. a = RecordL4(tc, info, l.data, x, l.dlen, l.field, l.part, l.q)
  BY <1>1 DEF RecordL4
<1> HIDE DEF a, e
<1>5. b = RecordL4(tc, info, l.data, x, y, l.field, l.part, l.q)
  BY <1>4 DEF RecordL4
<1> HIDE DEF b
<1>6. c = RecordL4(tc, info, l.data, x, y, l.field, l.part, Q)
  BY <1>5 DEF RecordL4
<1> HIDE DEF c
<1>7. d = RecordL4(tc, info, l.data, x, y, X, l.part, Q)
  BY <1>6 DEF RecordL4
<1> HIDE DEF d
<1>8. e = RecordL4(tc, info, l.data, l.n - sh, l.dlen - sh, X, l.part, Q)
  BY <1>2, <1>3, <1>7 DEF x, y
<1> QED
  BY <1>1, <1>8, Zenon DEF new, e, x, y, ErrorOwn, ErrorPart

LEMMA Error4 ==
  ASSUME NEW h, IsPacket4(h), NEW sh, NEW M
  PROVE  LET r == ErrorHead(h, sh, M)
         IN /\ KeepsHead(r, h) /\ r.len = h.len - sh /\ r.tot_len = (h.tot_len - sh) % U16
            /\ r.l4 = M
<1> DEFINE x == h.len - sh
           y == (h.tot_len - sh) % U16
           a == [h EXCEPT !.len = x]
           b == [a EXCEPT !.tot_len = y]
           c == [b EXCEPT !.l4 = M]
           r == [h EXCEPT !.len = x, !.tot_len = y, !.l4 = M]
<1> HIDE DEF x, y
<1>1. r = c
  BY DEF IsPacket4, Record4
<1> HIDE DEF r
<1>2. KeepsHead(a, h) /\ a.len = x
  BY Record4Set, ZenonT(90) DEF Sets4
<1> HIDE DEF a
<1>3. IsPacket4(a)
  BY <1>2 DEF KeepsHead
<1>4. KeepsHead(b, a) /\ b.len = a.len /\ b.tot_len = y
  BY <1>3, Record4Set, ZenonT(90) DEF Sets4
<1> HIDE DEF b
<1>5. IsPacket4(b)
  BY <1>4 DEF KeepsHead
<1>6. KeepsHead(c, b) /\ c.len = b.len /\ c.tot_len = b.tot_len /\ c.l4 = M
  BY <1>5, Record4Set, ZenonT(90) DEF Sets4
<1> HIDE DEF c
<1>7. KeepsHead(r, h)
  BY <1>1, <1>2, <1>4, <1>6, Zenon DEF KeepsHead
<1>8. r.len = x /\ r.tot_len = y /\ r.l4 = M
  BY <1>1, <1>2, <1>4, <1>6
<1> QED
  BY <1>7, <1>8, Zenon DEF x, y, r, ErrorHead

(* The embedded header. *)
LEMMA Embedded4Is ==
  ASSUME NEW q, IsFragment(q.frag)
  PROVE  LET r == Embedded4(q)
         IN /\ IsPacket4(r) /\ r.eth = "ip4" /\ r.hl = IP4_HLEN /\ r.tot_len = EmbeddedTotLen(q)
            /\ r.frag = q.frag /\ r.src = Pod4 /\ r.dst = q.dst.host /\ r.l4 = q.l4
            /\ r.proto = (IF q.nh = "icmp6" THEN "icmp" ELSE q.nh)
            /\ HeaderAccepted(r)
<1> DEFINE len == q.len - (IP6_HLEN - IP4_HLEN) - Fr(q)
           pr == IF q.nh = "icmp6" THEN "icmp" ELSE q.nh
           e == Record4(IP4_HLEN, FALSE, len, EmbeddedTotLen(q), Fragment4(q.frag), ~IsFrag(q), pr,
                        Pod4, q.dst.host, <<>>, q.l4)
           r == Embedded4(q)
<1>1. r = WithHeaderCheck(e)
  BY Zenon DEF Embedded4, Record4, Fr
<1>2. e = Record4(IP4_HLEN, FALSE, len, EmbeddedTotLen(q), Fragment4(q.frag), ~IsFrag(q), pr, Pod4,
                  q.dst.host, <<>>, q.l4)
  OBVIOUS
<1> HIDE DEF e, r, len, pr
<1>3. /\ IsPacket4(e) /\ e.hl = IP4_HLEN /\ e.tot_len = EmbeddedTotLen(q)
      /\ e.frag = Fragment4(q.frag) /\ e.proto = pr /\ e.src = Pod4
      /\ e.dst = q.dst.host /\ e.l4 = q.l4
  <2>1. /\ e.hl = IP4_HLEN /\ e.has_srcroute = FALSE /\ e.len = len
        /\ e.tot_len = EmbeddedTotLen(q) /\ e.frag = Fragment4(q.frag) /\ e.df = ~IsFrag(q)
        /\ e.proto = pr /\ e.src = Pod4 /\ e.dst = q.dst.host /\ e.check = <<>> /\ e.l4 = q.l4
    BY <1>2, Zenon DEF Record4
  <2> QED
    BY <1>2, <2>1, Zenon DEF IsPacket4
<1>4. Fragment4(q.frag) = q.frag
  BY Fragment4Is
<1>5. /\ KeepsHead(r, e) /\ r.tot_len = e.tot_len /\ r.l4 = e.l4 /\ HeaderAccepted(r)
  BY <1>1, <1>3, HeaderCheckIs, Zenon
<1>6. /\ IsPacket4(r) /\ r.eth = "ip4" /\ r.hl = IP4_HLEN /\ r.tot_len = EmbeddedTotLen(q)
      /\ r.frag = q.frag /\ r.src = Pod4 /\ r.dst = q.dst.host /\ r.l4 = q.l4 /\ r.proto = pr
  BY <1>3, <1>4, <1>5, Zenon DEF KeepsHead
<1> QED
  BY <1>5, <1>6, Zenon DEF r, pr

(* The embedded transport part. *)
Carry(lost) == IF lost THEN Sum({<<"carry">>}) ELSE Zero
Rewrites(q) ==
  q.nh \in {"tcp", "udp"} /\ First(q) /\ HasField(q.nh, q.l4) /\ q.l4.field # Zero

LEMMA EmbeddedFieldIs ==
  ASSUME NEW f, IsForm(f), NEW d, IsForm(d), NEW lost
  PROVE  /\ IsForm(EmbeddedField(f, d, lost)) /\ IsForm(Carry(lost))
         /\ \A t : Coef(EmbeddedField(f, d, lost), t) = Coef(f, t) - Coef(d, t) - Coef(Carry(lost), t)
<1>1. IsForm(Carry(lost))
  BY SumIs, ZeroIs DEF Carry
<1>2. IsForm(Minus(f, d)) /\ \A t : Coef(Minus(f, d), t) = Coef(f, t) - Coef(d, t)
  BY MinusIs
<1>3. EmbeddedField(f, d, lost) = Minus(Minus(f, d), Carry(lost))
  BY Zenon DEF EmbeddedField, Carry
<1> QED
  BY <1>1, <1>2, <1>3, MinusIs

EmbeddedAs(q, lost, m, A4, A6, p6) ==
  /\ SameBut(q.l4, m)
  /\ EmbeddedEcho(q) =>
       /\ m.tc = <<EchoTo4(q.l4.tc[1]), q.l4.tc[2]>>
       /\ \A t : Coef(m.field, t) =
                   Coef(q.l4.field, t) + Coef(p6, t) + Coef(TypeWord(q.l4.tc), t)
                   - Coef(TypeWord(m.tc), t) - Coef(Carry(lost), t)
  /\ ~EmbeddedEcho(q) => m.tc = q.l4.tc
  /\ ~EmbeddedEcho(q) /\ Rewrites(q) =>
       \A t : Coef(m.field, t) = Coef(q.l4.field, t) + Coef(A6, t) - Coef(A4, t)
                                 - Coef(Carry(lost), t)
  /\ ~EmbeddedEcho(q) /\ ~Rewrites(q) => m = q.l4

LEMMA EmbeddedIs ==
  ASSUME NEW q, IsPacket6(q), NEW lost, NEW m, m = EmbeddedTransport4(q, lost),
         NEW A4, A4 = Addr4(Pod4, q.dst.host), NEW A6, A6 = Addr6(q.src, q.dst),
         NEW p6, p6 = Pseudo6(q.src, q.dst, q.plen, "icmp6")
  PROVE  EmbeddedAs(q, lost, m, A4, A6, p6)
<1> DEFINE l == q.l4
           id6 == bpf_csum_diff(A6, A4, Zero)
           nt == <<EchoTo4(l.tc[1]), l.tc[2]>>
           w == TypeWord(l.tc)
           w4 == TypeWord(nt)
           e == bpf_csum_diff(p6, Zero, Zero)
           idiff == bpf_csum_diff(w, w4, e)
<1>1. /\ EmbeddedEcho(q) =>
           m = [l EXCEPT !.tc = nt, !.field = EmbeddedField(@, idiff, lost)]
      /\ ~EmbeddedEcho(q) /\ Rewrites(q) =>
           m = [l EXCEPT !.field = EmbeddedField(@, id6, lost)]
      /\ ~EmbeddedEcho(q) /\ ~Rewrites(q) => m = l
  BY Zenon DEF EmbeddedTransport4, Rewrites
<1>2. IsTransport(l) /\ IsForm(l.field)
      /\ l = RecordL4(l.tc, l.info, l.data, l.n, l.dlen, l.field, l.part, l.q)
  BY TransportRecord, Zenon DEF IsPacket6, IsTransport
<1>3. IsForm(p6) /\ IsForm(A4) /\ IsForm(A6) /\ IsForm(w) /\ IsForm(w4) /\ IsForm(Zero)
  BY PacketForms, ZeroIs, Zenon
<1>4. nt = <<nt[1], nt[2]>>
  OBVIOUS
<1> HIDE DEF l, nt, w, w4
<1>5. CASE EmbeddedEcho(q)
  <2> DEFINE g == EmbeddedField(l.field, idiff, lost)
  <2>1. IsForm(e) /\ \A t : Coef(e, t) = Coef(Zero, t) - Coef(p6, t) + Coef(Zero, t)
    BY <1>3, DiffIs
  <2> HIDE DEF e
  <2>2. IsForm(idiff) /\ \A t : Coef(idiff, t) = Coef(e, t) - Coef(w, t) + Coef(w4, t)
    BY <1>3, <2>1, DiffIs
  <2> HIDE DEF idiff
  <2>3. /\ IsForm(g) /\ IsForm(Carry(lost))
        /\ \A t : Coef(g, t) = Coef(l.field, t) - Coef(idiff, t) - Coef(Carry(lost), t)
    BY <1>2, <2>2, EmbeddedFieldIs
  <2>4. \A t : /\ Coef(l.field, t) \in Int /\ Coef(p6, t) \in Int /\ Coef(w, t) \in Int
               /\ Coef(w4, t) \in Int /\ Coef(Carry(lost), t) \in Int
    BY <1>2, <1>3, <2>3, CoefOf, Zenon
  <2>5. m = [l EXCEPT !.tc = nt, !.field = g]
    BY <1>1, <1>2, <1>5, ZenonT(90) DEF RecordL4
  <2> HIDE DEF g
  <2>6. \A t : Coef(g, t) = Coef(l.field, t) + Coef(p6, t) + Coef(w, t) - Coef(w4, t)
                            - Coef(Carry(lost), t)
    BY <2>1, <2>2, <2>3, <2>4, ZeroIs
  <2> DEFINE k == [l EXCEPT !.tc = nt]
  <2>7. m = [k EXCEPT !.field = g]
    BY <1>2, <2>5 DEF RecordL4
  <2>8. k = RecordL4(nt, l.info, l.data, l.n, l.dlen, l.field, l.part, l.q)
    BY <1>2, RecordL4Set, Zenon
  <2> HIDE DEF k
  <2>9. m = [tc |-> nt, info |-> l.info, data |-> l.data, n |-> l.n, dlen |-> l.dlen,
             field |-> g, part |-> l.part, q |-> l.q]
    BY <2>7, <2>8, ZenonT(90) DEF RecordL4
  <2>10. SameBut(l, m) /\ m.tc = nt /\ m.field = g
    BY <1>2, <1>4, <2>3, <2>9, Rewritten
  <2> QED
    BY <1>5, <2>6, <2>10, Zenon DEF EmbeddedAs, l, w, w4, nt
<1>6. CASE ~EmbeddedEcho(q) /\ Rewrites(q)
  <2> DEFINE g == EmbeddedField(l.field, id6, lost)
  <2>1. IsForm(id6) /\ \A t : Coef(id6, t) = Coef(Zero, t) - Coef(A6, t) + Coef(A4, t)
    BY <1>3, DiffIs
  <2> HIDE DEF id6
  <2>2. /\ IsForm(g) /\ IsForm(Carry(lost))
        /\ \A t : Coef(g, t) = Coef(l.field, t) - Coef(id6, t) - Coef(Carry(lost), t)
    BY <1>2, <2>1, EmbeddedFieldIs
  <2>3. \A t : /\ Coef(l.field, t) \in Int /\ Coef(A6, t) \in Int /\ Coef(A4, t) \in Int
               /\ Coef(Carry(lost), t) \in Int
    BY <1>2, <1>3, <2>2, CoefOf, Zenon
  <2>4. m = [l EXCEPT !.field = g]
    BY <1>1, <1>2, <1>6
  <2> HIDE DEF g
  <2>5. \A t : Coef(g, t) = Coef(l.field, t) + Coef(A6, t) - Coef(A4, t) - Coef(Carry(lost), t)
    BY <2>1, <2>2, <2>3, ZeroIs
  <2>6. SameBut(l, m) /\ m.tc = l.tc /\ m.field = g
    BY <1>2, <2>2, <2>4, FieldSet
  <2> QED
    BY <1>6, <2>5, <2>6, Zenon DEF EmbeddedAs, l
<1>7. CASE ~EmbeddedEcho(q) /\ ~Rewrites(q)
  <2>1. m = l
    BY <1>1, <1>7
  <2>2. SameBut(l, m) /\ m.tc = l.tc
    BY <1>2, <2>1 DEF SameBut
  <2> QED
    BY <1>7, <2>1, <2>2, Zenon DEF EmbeddedAs, l
<1> QED
  BY <1>5, <1>6, <1>7, Zenon

(* The shape of a translated error. *)
IsMessage(r, p, i, inner, X) ==
  /\ KeepsHead(r, Reshape(p)) /\ HeaderAccepted(r)
  /\ r.len = Reshape(p).len - Shrink(i)
  /\ r.tot_len = (Reshape(p).tot_len - Shrink(i)) % U16
  /\ r.l4.n = p.l4.n - Shrink(i) /\ ~r.l4.part /\ r.l4.field = X
  /\ r.l4.q = << [Embedded4(i) EXCEPT !.l4 = inner] >>

(* The sum that ErrorToIcmp4 takes off the checksum. *)
ErrorDiff(r, p, i, inner) ==
  EmbeddedChange(i, inner,
    bpf_csum_diff(Plus(Plus(OwnBytes(p.l4), p.l4.field), Header6(i)),
                  Plus(OwnBytes(r.l4), Header4(Embedded4(i))), WithoutPseudo(p)))

LEMMA ErrorShape ==
  ASSUME NEW p, IsPacket6(p), p.frag = <<>>, ~p.l4.part, NEW i, p.l4.q = << i >>, NEW lost
  PROVE  LET r == ErrorToIcmp4(p, lost)
             inner == EmbeddedTransport4(i, lost)
         IN IsMessage(r, p, i, inner, Minus(Zero, ErrorDiff(r, p, i, inner)))
<1> DEFINE h == Reshape(p)
           m == icmp6_to_icmp4(p.l4.tc[1], p.l4.tc[2], p.l4.info)
           info4 == CASE p.l4.tc[1] = 2 -> Mtu4(p.l4.info, IsFrag(i))
                      [] m.type = 12 -> m.pointer
                      [] OTHER -> 0
           inner == EmbeddedTransport4(i, lost)
           tc == <<m.type, m.code>>
           new == ErrorOwn(p.l4, tc, info4)
           sh == Shrink(i)
           D(x) == EmbeddedChange(i, inner,
                     bpf_csum_diff(Plus(Plus(OwnBytes(p.l4), p.l4.field), Header6(i)),
                                   Plus(x, Header4(Embedded4(i))), WithoutPseudo(p)))
           X == bpf_l4_csum_replace(Zero, p.l4.part, D(OwnBytes(new)))
           Q == << [Embedded4(i) EXCEPT !.l4 = inner] >>
           M == ErrorPart(new, sh, Q, X)
           u == ErrorHead(h, sh, M)
           r == ErrorToIcmp4(p, lost)
           l == p.l4
<1>1. p.l4.q[1] = i
  OBVIOUS
<1>2. r = WithHeaderCheck(u)
  BY <1>1, Zenon DEF ErrorToIcmp4, ErrorOwn, ErrorPart, ErrorHead
<1>3. l = RecordL4(l.tc, l.info, l.data, l.n, l.dlen, l.field, l.part, l.q)
  BY TransportRecord DEF IsPacket6
<1>4. IsFragment(p.frag)
  BY DEF IsFragment
<1>5. IsPacket4(h)
  BY <1>4, ReshapeIs, Zenon
<1>6. X = Minus(Zero, D(OwnBytes(new)))
  BY Zenon DEF bpf_l4_csum_replace
<1> HIDE DEF h, m, info4, inner, tc, sh, Q, r, D, X
<1>7. /\ new = RecordL4(tc, info4, l.data, l.n, l.dlen, l.field, l.part, l.q)
      /\ M = RecordL4(tc, info4, l.data, l.n - sh, l.dlen - sh, X, l.part, Q)
  BY <1>3, ErrorL4, SMTT(90)
<1> HIDE DEF new, M
<1>8. new.tc = tc /\ new.info = info4
  BY <1>7, RecordL4Is, SMTT(90)
<1>9. M.tc = tc /\ M.info = info4 /\ M.n = l.n - sh /\ M.field = X /\ M.part = l.part /\ M.q = Q
  BY <1>7, RecordL4Is, SMTT(90)
<1>10. OwnBytes(new) = OwnBytes(M)
  BY <1>8, <1>9, Zenon DEF OwnBytes
<1>11. KeepsHead(u, h) /\ u.len = h.len - sh /\ u.tot_len = (h.tot_len - sh) % U16 /\ u.l4 = M
  BY <1>5, Error4, SMTT(90)
<1> HIDE DEF u
<1>12. /\ KeepsHead(r, u) /\ r.len = u.len /\ r.tot_len = u.tot_len /\ r.l4 = u.l4
       /\ HeaderAccepted(r)
  BY <1>2, <1>11, HeaderCheckIs, Zenon DEF KeepsHead
<1>13. KeepsHead(r, h)
  BY <1>11, <1>12, Zenon DEF KeepsHead
<1>14. X = Minus(Zero, D(OwnBytes(r.l4)))
  BY <1>6, <1>10, <1>11, <1>12, Zenon
<1>15. ErrorDiff(r, p, i, inner) = D(OwnBytes(r.l4))
  BY Zenon DEF ErrorDiff, D
<1>16. /\ r.len = h.len - sh /\ r.tot_len = (h.tot_len - sh) % U16
       /\ r.l4.n = l.n - sh /\ (r.l4.part = p.l4.part) /\ r.l4.field = X /\ r.l4.q = Q
  BY <1>9, <1>11, <1>12, Zenon
<1>17. IsMessage(r, p, i, inner, X)
  BY <1>12, <1>13, <1>16, Zenon DEF IsMessage, h, sh, Q
<1> QED
  BY <1>14, <1>15, <1>17, Zenon DEF r, inner

(* Its coefficients. *)
ErrorSum(p6, r, p, i, inner, t) ==
  Coef(p6, t) + Coef(OwnBytes(p.l4), t) + Coef(p.l4.field, t) + Coef(Header6(i), t)
  - Coef(OwnBytes(r.l4), t) - Coef(Header4(Embedded4(i)), t)
  + Coef(TypeWord(i.l4.tc), t) + Coef(i.l4.field, t)
  - Coef(TypeWord(inner.tc), t) - Coef(inner.field, t)

LEMMA ErrorDiffIs ==
  ASSUME NEW p, IsForm(p.l4.field), NEW i, IsForm(i.l4.field), NEW inner, IsForm(inner.field), NEW r,
         NEW e, e = ErrorDiff(r, p, i, inner),
         NEW p6, p6 = Pseudo6(p.src, p.dst, payload_len(p), "icmp6")
  PROVE  /\ IsForm(e) /\ IsForm(Minus(Zero, e))
         /\ \A t : Coef(Minus(Zero, e), t) = ErrorSum(p6, r, p, i, inner, t)
<1> DEFINE ob == OwnBytes(p.l4)
           pf == p.l4.field
           h6 == Header6(i)
           obr == OwnBytes(r.l4)
           h4 == Header4(Embedded4(i))
           wi == TypeWord(i.l4.tc)
           fi == i.l4.field
           wn == TypeWord(inner.tc)
           fn == inner.field
           x1 == Plus(ob, pf)
           x2 == Plus(x1, h6)
           x3 == Plus(obr, h4)
           x4 == bpf_csum_diff(p6, Zero, Zero)
           x5 == bpf_csum_diff(x2, x3, x4)
           x6 == Plus(wi, fi)
           x7 == Plus(wn, fn)
<1>1. e = bpf_csum_diff(x6, x7, x5)
  BY Zenon DEF ErrorDiff, EmbeddedChange, WithoutPseudo
<1>2. /\ IsForm(ob) /\ IsForm(pf) /\ IsForm(h6) /\ IsForm(obr) /\ IsForm(h4) /\ IsForm(wi)
      /\ IsForm(fi) /\ IsForm(wn) /\ IsForm(fn) /\ IsForm(p6)
  BY PacketForms, SumIs, Zenon DEF Header6, Header4
<1> HIDE DEF ob, pf, h6, obr, h4, wi, fi, wn, fn
<1>3. IsForm(x1) /\ \A t : Coef(x1, t) = Coef(ob, t) + Coef(pf, t)
  BY <1>2, PlusIs, Zenon
<1>4. IsForm(x3) /\ \A t : Coef(x3, t) = Coef(obr, t) + Coef(h4, t)
  BY <1>2, PlusIs, Zenon
<1>5. IsForm(x6) /\ \A t : Coef(x6, t) = Coef(wi, t) + Coef(fi, t)
  BY <1>2, PlusIs, Zenon
<1>6. IsForm(x7) /\ \A t : Coef(x7, t) = Coef(wn, t) + Coef(fn, t)
  BY <1>2, PlusIs, Zenon
<1>7. IsForm(x4) /\ \A t : Coef(x4, t) = Coef(Zero, t) - Coef(p6, t) + Coef(Zero, t)
  BY <1>2, DiffIs, ZeroIs, SMTT(90)
<1> HIDE DEF x1, x3, x4, x6, x7
<1>8. IsForm(x2) /\ \A t : Coef(x2, t) = Coef(x1, t) + Coef(h6, t)
  BY <1>2, <1>3, PlusIs, ZenonT(90)
<1> HIDE DEF x2
<1>9. IsForm(x5) /\ \A t : Coef(x5, t) = Coef(x4, t) - Coef(x2, t) + Coef(x3, t)
  BY <1>4, <1>7, <1>8, DiffIs, SMTT(90)
<1> HIDE DEF x5
<1>10. IsForm(e) /\ \A t : Coef(e, t) = Coef(x5, t) - Coef(x6, t) + Coef(x7, t)
  BY <1>1, <1>5, <1>6, <1>9, DiffIs, SMTT(90)
<1>11. IsForm(Minus(Zero, e)) /\ \A t : Coef(Minus(Zero, e), t) = Coef(Zero, t) - Coef(e, t)
  BY <1>10, ZeroIs, MinusIs, ZenonT(90)
<1>12. \A t : /\ Coef(ob, t) \in Int /\ Coef(pf, t) \in Int /\ Coef(h6, t) \in Int
              /\ Coef(obr, t) \in Int /\ Coef(h4, t) \in Int /\ Coef(wi, t) \in Int
              /\ Coef(fi, t) \in Int /\ Coef(wn, t) \in Int /\ Coef(fn, t) \in Int
              /\ Coef(p6, t) \in Int
  BY <1>2, CoefOf, ZenonT(90)
<1>13. \A t : Coef(Minus(Zero, e), t) =
                 Coef(p6, t) + Coef(ob, t) + Coef(pf, t) + Coef(h6, t)
                 - Coef(obr, t) - Coef(h4, t) + Coef(wi, t) + Coef(fi, t)
                 - Coef(wn, t) - Coef(fn, t)
  <2> TAKE t
  <2>1. Coef(Zero, t) = 0
    BY ZeroIs, Zenon
  <2> QED
    BY <1>3, <1>4, <1>5, <1>6, <1>7, <1>8, <1>9, <1>10, <1>11, <1>12, <2>1, SMTT(90)
<1> QED
  BY <1>10, <1>11, <1>13, Zenon DEF ErrorSum, ob, pf, h6, obr, h4, wi, fi, wn, fn

(* An error about a packet of the pod, as it arrives. *)
Arrives(s, q, a, src, k, c, p) ==
  /\ About(s, q, a) /\ src \in ErrorSources /\ k \in ErrorKinds /\ c \in QuoteCuts
  /\ p = ErrorAbout(a, src, k, c) /\ PassesIngress(p)

LEMMA ArrivesIs ==
  ASSUME NEW s, NEW q, NEW a, NEW src, NEW k, NEW c, NEW p, Arrives(s, q, a, src, k, c, p), NEW lost,
         NEW i, i = QuoteOf(a, c)
  PROVE  /\ Packet4Of(p, lost) = ErrorToIcmp4(p, lost)
         /\ IsPacket6(p) /\ p.frag = <<>> /\ ~p.l4.part /\ p.l4.q = << i >>
         /\ IsPacket6(i) /\ IsFragment(i.frag)
         /\ EmbeddedEcho(i) => HasField("icmp6", i.l4)
<1>1. /\ IsPacket6(a) /\ a.src = POD_IP6 /\ a.dst = Mapped(s.dst) /\ IsFragment(a.frag)
  BY AboutIs, SMTT(90) DEF Arrives
<1>2. k[1] \in 1..4 /\ c \in Nat
  BY NetworkAssumption, Zenon DEF Arrives
<1>3. /\ IsPacket6(p) /\ p.frag = <<>> /\ p.nh = "icmp6" /\ ~p.l4.part /\ p.l4.q = << i >>
      /\ p.l4.tc = <<k[1], k[2]>>
  BY <1>1, ErrorIs DEF Arrives
<1>4. /\ IsPacket6(i) /\ i.ver = 6 /\ i.frag = a.frag /\ i.src = a.src /\ i.dst = a.dst
      /\ i.l4.n \in Nat
  BY <1>1, <1>2, QuoteIs
<1>5. p.l4.tc[1] \in 1..4 /\ p.l4.q[1] = i /\ p.l4.q # <<>>
  BY <1>2, <1>3, SMTT(90)
<1>6. ~IsEcho6(p.l4.tc[1])
  BY <1>5 DEF IsEcho6, EchoTo4
<1>7. First(p)
  BY <1>3, Zenon DEF First, IsFrag
<1>8. Packet4Of(p, lost) = ErrorToIcmp4(p, lost)
  <2>1. p.nh \notin {"tcp", "udp"}
    BY <1>3, Zenon
  <2> QED
    BY <1>3, <1>6, <1>7, <2>1, Zenon DEF Packet4Of
<1>9. i.dst.net = "clat"
  BY <1>1, <1>4, SMTT(90) DEF Mapped
<1>10. QuotesUs(p.l4)
  BY <1>1, <1>4, <1>5, <1>9, Zenon DEF QuotesUs, addr6_eq, in_prefix
<1>11. EmbeddedEcho(i) => HasField("icmp6", i.l4)
  <2>1. EmbeddedEcho(i) => ~(i.l4.n < 4)
    BY <1>3, <1>5, <1>6, <1>7, <1>10, PassedError6, Zenon DEF Arrives
  <2> QED
    BY <1>4, <2>1 DEF HasField, CsumEnd
<1> QED
  BY <1>1, <1>3, <1>4, <1>8, <1>11, ZenonT(90)

(* The embedded field is rewritten only where it was quoted. *)
LEMMA RewrittenIsQuoted ==
  ASSUME NEW i, IsPacket6(i), NEW lost, EmbeddedEcho(i) => HasField("icmp6", i.l4)
  PROVE  LET m == EmbeddedTransport4(i, lost)
             pr == IF i.nh = "icmp6" THEN "icmp" ELSE i.nh
         IN /\ HasField(pr, m) <=> HasField(i.nh, i.l4)
            /\ ~HasField(i.nh, i.l4) => m.field = i.l4.field
<1> DEFINE m == EmbeddedTransport4(i, lost)
           pr == IF i.nh = "icmp6" THEN "icmp" ELSE i.nh
<1>1. /\ m.n = i.l4.n
      /\ ~EmbeddedEcho(i) /\ ~Rewrites(i) => m = i.l4
  BY EmbeddedIs DEF EmbeddedAs, SameBut
<1>2. CsumEnd(pr) = CsumEnd(i.nh)
  <2>1. CASE i.nh = "icmp6"
    BY <2>1 DEF CsumEnd
  <2>2. CASE i.nh # "icmp6"
    BY <2>2
  <2> QED
    BY <2>1, <2>2
<1> HIDE DEF m, pr
<1>3. HasField(pr, m) <=> HasField(i.nh, i.l4)
  BY <1>1, <1>2, Zenon DEF HasField
<1>4. ~HasField(i.nh, i.l4) => m.field = i.l4.field
  BY <1>1, Zenon DEF Rewrites, EmbeddedEcho
<1> QED
  BY <1>3, <1>4, ZenonT(90) DEF m, pr

(* The quoted packet, in IPv4. *)
LEMMA QuoteTranslated ==
  ASSUME NEW i, IsPacket6(i), IsFragment(i.frag), NEW lost
  PROVE  LET m == EmbeddedTransport4(i, lost)
             r == [Embedded4(i) EXCEPT !.l4 = m]
         IN /\ r.eth = "ip4" /\ r.tot_len = EmbeddedTotLen(i) /\ r.frag = i.frag /\ r.src = Pod4
            /\ r.dst = i.dst.host /\ r.l4 = m /\ HeaderAccepted(r)
            /\ r.proto = (IF i.nh = "icmp6" THEN "icmp" ELSE i.nh)
            /\ Header4(r) = Header4(Embedded4(i))
<1> DEFINE m == EmbeddedTransport4(i, lost)
           e == Embedded4(i)
           r == [e EXCEPT !.l4 = m]
<1>1. /\ IsPacket4(e) /\ e.eth = "ip4" /\ e.hl = IP4_HLEN /\ e.tot_len = EmbeddedTotLen(i)
      /\ e.frag = i.frag /\ e.src = Pod4 /\ e.dst = i.dst.host
      /\ e.proto = (IF i.nh = "icmp6" THEN "icmp" ELSE i.nh) /\ HeaderAccepted(e)
  BY Embedded4Is, Zenon
<1> HIDE DEF m, e
<1>2. /\ KeepsHead(r, e) /\ r.tot_len = e.tot_len /\ r.check = e.check /\ r.l4 = m
  <2>1. IsPacket4(e)
    BY <1>1
  <2> QED
    BY <2>1, Record4Set, ZenonT(90) DEF Sets4
<1> HIDE DEF r
<1>3. Fields4(r) = Fields4(e)
  BY <1>2, Zenon DEF KeepsHead, Fields4
<1>4. HeaderAccepted(r) /\ Header4(r) = Header4(e)
  BY <1>1, <1>2, <1>3, Zenon DEF HeaderAccepted, Header4
<1>5. /\ r.eth = "ip4" /\ r.tot_len = EmbeddedTotLen(i) /\ r.frag = i.frag /\ r.src = Pod4
      /\ r.dst = i.dst.host /\ r.l4 = m
      /\ r.proto = (IF i.nh = "icmp6" THEN "icmp" ELSE i.nh)
  BY <1>1, <1>2, Zenon DEF KeepsHead
<1> QED
  BY <1>4, <1>5 DEF m, e, r

(* The checksum of a translated error is right, whatever was embedded. *)
LEMMA ErrorAccepted ==
  ASSUME NEW s, NEW q, NEW a, NEW src, NEW k, NEW c, NEW p, Arrives(s, q, a, src, k, c, p), NEW lost
  PROVE  Accepted(Packet4Of(p, lost))
<1> DEFINE i == QuoteOf(a, c)
           inner == EmbeddedTransport4(i, lost)
           r == Packet4Of(p, lost)
           e == ErrorDiff(r, p, i, inner)
           X == Minus(Zero, e)
           q4 == [Embedded4(i) EXCEPT !.l4 = inner]
           p6 == Pseudo6(p.src, p.dst, payload_len(p), "icmp6")
<1>1. /\ r = ErrorToIcmp4(p, lost) /\ IsPacket6(p) /\ p.frag = <<>> /\ ~p.l4.part
      /\ p.l4.q = << i >> /\ IsPacket6(i) /\ IsFragment(i.frag)
      /\ EmbeddedEcho(i) => HasField("icmp6", i.l4)
  BY ArrivesIs
<1>2. /\ p.eth = "ip6" /\ p.nh = "icmp6" /\ p.plen = p.l4.n /\ p.l4.dlen = p.l4.n
      /\ p.l4.field = FullField(p) /\ p.l4.n \in Nat
  <2>1. IsPacket6(a)
    BY AboutIs, Zenon DEF Arrives
  <2>2. p.l4.n \in Nat
    BY <1>1, Zenon DEF IsPacket6, IsTransport
  <2>3. /\ p.eth = "ip6" /\ p.nh = "icmp6" /\ p.plen = p.l4.n /\ p.l4.dlen = p.l4.n
        /\ p.l4.field = FullField(p)
    BY <2>1, ErrorIs DEF Arrives
  <2> QED
    BY <2>2, <2>3
<1>3. /\ IsForm(i.l4.field) /\ SameBut(i.l4, inner)
  BY <1>1, EmbeddedIs, Zenon DEF EmbeddedAs, IsPacket6, IsTransport
<1>4. IsForm(inner.field) /\ QData(inner) = QData(i.l4)
  BY <1>3, Zenon DEF SameBut, IsTransport, QData
<1>5. /\ HasField(q4.proto, inner) <=> HasField(i.nh, i.l4)
      /\ ~HasField(i.nh, i.l4) => inner.field = i.l4.field
      /\ q4.eth = "ip4" /\ q4.l4 = inner /\ Header4(q4) = Header4(Embedded4(i))
  BY <1>1, RewrittenIsQuoted, QuoteTranslated
<1>6. IsMessage(r, p, i, inner, X)
  BY <1>1, ErrorShape, Zenon
<1>7. /\ r.eth = "ip4" /\ ~r.l4.part /\ r.l4.field = X /\ r.l4.q = << q4 >>
      /\ r.proto = Reshape(p).proto
  BY <1>6 DEF IsMessage, KeepsHead
<1>8. r.proto = "icmp"
  <2>1. IsFragment(p.frag)
    BY <1>1, Zenon DEF IsFragment
  <2> QED
    BY <1>2, <1>7, <2>1, ReshapeIs, ZenonT(90)
<1>9. p.l4.q # <<>> /\ p.l4.q[1] = i /\ r.l4.q # <<>> /\ r.l4.q[1] = q4
  BY <1>1, <1>7
<1>10. payload_len(p) = p.l4.dlen
  BY <1>1, <1>2, SMTT(90) DEF payload_len, IsFrag
<1>11. Pseudo(p) = p6 /\ Pseudo(r) = Zero
  BY <1>2, <1>7, <1>8, <1>10, Zenon DEF Pseudo, Pseudo4
<1>12. i.eth = "ip6"
  BY <1>1, Packet6Eth, Zenon
<1> HIDE DEF i, inner, r, e, X, q4, p6
<1>13. /\ IsForm(QuotedBytes(i))
       /\ \A t : Coef(QuotedBytes(i), t) =
                   Coef(Header6(i), t) + Coef(TypeWord(i.l4.tc), t) + Coef(QData(i.l4), t)
                   + (IF HasField(i.nh, i.l4) THEN Coef(i.l4.field, t) ELSE 0)
  <2>1. HeadOf(i) = Header6(i) /\ ProtoOf(i) = i.nh
    BY <1>12, Zenon DEF HeadOf, ProtoOf
  <2> QED
    BY <1>3, <2>1, QuotedBytesIs, Zenon
<1>14. /\ IsForm(QuotedBytes(q4))
       /\ \A t : Coef(QuotedBytes(q4), t) =
                   Coef(Header4(Embedded4(i)), t) + Coef(TypeWord(inner.tc), t) + Coef(QData(i.l4), t)
                   + (IF HasField(i.nh, i.l4) THEN Coef(inner.field, t) ELSE 0)
  <2>1. HeadOf(q4) = Header4(Embedded4(i)) /\ ProtoOf(q4) = q4.proto
    BY <1>5, Zenon DEF HeadOf, ProtoOf
  <2>2. /\ IsForm(QuotedBytes(q4))
        /\ \A t : Coef(QuotedBytes(q4), t) =
                   Coef(HeadOf(q4), t) + Coef(TypeWord(q4.l4.tc), t) + Coef(QData(q4.l4), t)
                   + (IF HasField(ProtoOf(q4), q4.l4) THEN Coef(q4.l4.field, t) ELSE 0)
    BY <1>4, <1>5, QuotedBytesIs, Zenon
  <2> QED
    BY <1>4, <1>5, <2>1, <2>2, Zenon
<1>15. /\ IsForm(Bytes(p.l4))
       /\ \A t : Coef(Bytes(p.l4), t) = Coef(OwnBytes(p.l4), t) + Coef(QuotedBytes(i), t)
  BY <1>3, <1>9, ErrorBytesIs, Zenon
<1>16. /\ IsForm(Bytes(r.l4))
       /\ \A t : Coef(Bytes(r.l4), t) = Coef(OwnBytes(r.l4), t) + Coef(QuotedBytes(q4), t)
  BY <1>4, <1>5, <1>9, ErrorBytesIs, Zenon
<1>17. IsForm(p6) /\ IsForm(Zero)
  BY PacketForms, ZeroIs DEF p6
<1>18. /\ IsForm(p.l4.field)
       /\ \A t : Coef(p.l4.field, t) = - Coef(p6, t) - Coef(Bytes(p.l4), t)
  BY <1>2, <1>11, <1>15, <1>17, FullFieldIs, ZenonT(90)
<1>19. IsForm(X) /\ \A t : Coef(X, t) = ErrorSum(p6, r, p, i, inner, t)
  <2>1. IsForm(p.l4.field) /\ IsForm(i.l4.field) /\ IsForm(inner.field)
    BY <1>3, <1>4, <1>18, Zenon
  <2>2. e = ErrorDiff(r, p, i, inner) /\ p6 = Pseudo6(p.src, p.dst, payload_len(p), "icmp6")
    BY DEF e, p6
  <2>3. X = Minus(Zero, e)
    BY DEF X
  <2> QED
    BY <2>1, <2>2, <2>3, ErrorDiffIs
<1>20. \A t : /\ Coef(p6, t) \in Int /\ Coef(OwnBytes(p.l4), t) \in Int
              /\ Coef(Header6(i), t) \in Int /\ Coef(OwnBytes(r.l4), t) \in Int
              /\ Coef(Header4(Embedded4(i)), t) \in Int /\ Coef(TypeWord(i.l4.tc), t) \in Int
              /\ Coef(i.l4.field, t) \in Int /\ Coef(TypeWord(inner.tc), t) \in Int
              /\ Coef(inner.field, t) \in Int /\ Coef(QData(i.l4), t) \in Int
  <2>1. /\ IsForm(OwnBytes(p.l4)) /\ IsForm(OwnBytes(r.l4)) /\ IsForm(TypeWord(i.l4.tc))
        /\ IsForm(TypeWord(inner.tc))
    BY PacketForms, Zenon
  <2>2. IsForm(Header6(i)) /\ IsForm(Header4(Embedded4(i))) /\ IsForm(QData(i.l4))
    BY SumIs DEF Header6, Header4, QData
  <2> QED
    BY <1>3, <1>4, <1>17, <2>1, <2>2, CoefOf, Zenon
<1>21. \A t : Coef(X, t) + Coef(Zero, t) + Coef(Bytes(r.l4), t) = 0
  <2> TAKE t
  <2>1. Coef(Zero, t) = 0
    BY ZeroIs
  <2> DEFINE P == Coef(p6, t)
             O == Coef(OwnBytes(p.l4), t)
             O4 == Coef(OwnBytes(r.l4), t)
             H == Coef(Header6(i), t)
             H4 == Coef(Header4(Embedded4(i)), t)
             W == Coef(TypeWord(i.l4.tc), t)
             W4 == Coef(TypeWord(inner.tc), t)
             F == Coef(i.l4.field, t)
             F4 == Coef(inner.field, t)
             D == Coef(QData(i.l4), t)
             B == Coef(Bytes(p.l4), t)
             B4 == Coef(Bytes(r.l4), t)
             Q == Coef(QuotedBytes(i), t)
             Q4 == Coef(QuotedBytes(q4), t)
             G == Coef(p.l4.field, t)
             Y == Coef(X, t)
  <2>2. B = O + Q /\ B4 = O4 + Q4 /\ G = - P - B
    BY <1>15, <1>16, <1>18, Zenon
  <2>3. Y = P + O + G + H - O4 - H4 + W + F - W4 - F4
    BY <1>19, Zenon DEF ErrorSum
  <2>4. \/ Q = H + W + D + F /\ Q4 = H4 + W4 + D + F4
        \/ Q = H + W + D + 0 /\ Q4 = H4 + W4 + D + 0 /\ F4 = F
    BY <1>5, <1>13, <1>14, Zenon
  <2>5. /\ P \in Int /\ O \in Int /\ O4 \in Int /\ H \in Int /\ H4 \in Int /\ W \in Int
        /\ W4 \in Int /\ F \in Int /\ F4 \in Int /\ D \in Int
    BY <1>20, Zenon
  <2> HIDE DEF P, O, O4, H, H4, W, W4, F, F4, D, B, B4, Q, Q4, G, Y
  <2>6. Y + 0 + B4 = 0
    BY <2>2, <2>3, <2>4, <2>5
  <2> QED
    BY <2>1, <2>6, ZenonT(90) DEF Y, B4
<1>22. Plus(X, Plus(Zero, Bytes(r.l4))) = Zero
  <2>1. IsForm(X) /\ IsForm(Zero) /\ IsForm(Bytes(r.l4))
    BY <1>16, <1>17, <1>19, Zenon
  <2> QED
    BY <1>21, <2>1, SumsToZero
<1> QED
  BY <1>7, <1>11, <1>22, ZenonT(90) DEF Accepted, r

(* A fragment may be fragmented again, a whole packet not. *)
LEMMA ReshapeDf ==
  ASSUME NEW p
  PROVE  Reshape(p).df = (p.frag = <<>>)
<1> DEFINE len == p.len - (IP6_HLEN - IP4_HLEN) - Fr(p)
           tot == (payload_len(p) + IP4_HLEN) % U16
           pr == IF p.nh = "icmp6" THEN "icmp" ELSE p.nh
           src == IF in_prefix(p.src) THEN p.src.host ELSE Err4
           q == Record4(IP4_HLEN, FALSE, len, tot, Fragment4(p.frag), ~IsFrag(p), pr, src, Pod4,
                        <<>>, p.l4)
           r == Reshape(p)
<1>1. r = WithHeaderCheck(q)
  BY Zenon DEF Reshape, Record4, Fr
<1>2. q = Record4(IP4_HLEN, FALSE, len, tot, Fragment4(p.frag), ~IsFrag(p), pr, src, Pod4, <<>>,
                  p.l4)
  OBVIOUS
<1> HIDE DEF q, r, len, tot, pr, src
<1>3. IsPacket4(q) /\ q.df = ~IsFrag(p)
  <2>1. /\ q.hl = IP4_HLEN /\ q.has_srcroute = FALSE /\ q.len = len /\ q.tot_len = tot
        /\ q.frag = Fragment4(p.frag) /\ q.df = ~IsFrag(p) /\ q.proto = pr /\ q.src = src
        /\ q.dst = Pod4 /\ q.check = <<>> /\ q.l4 = p.l4
    BY <1>2, Zenon DEF Record4
  <2> QED
    BY <1>2, <2>1, Zenon DEF IsPacket4
<1>4. KeepsHead(r, q)
  BY <1>1, <1>3, HeaderCheckIs, Zenon
<1>5. r.df = ~IsFrag(p)
  BY <1>3, <1>4, Zenon DEF KeepsHead
<1>6. (~IsFrag(p)) = (p.frag = <<>>)
  BY Zenon DEF IsFrag
<1> QED
  BY <1>5, <1>6, Zenon DEF r

(* What clat_ingress translates is a reply, or an error about a packet. *)
Replied(s, q, n, f, p) ==
  /\ About(s, q, Completed(q)) /\ Completed(q).l4.tc[1] # 129
  /\ n \in ReplyLens /\ f \in ReplyFrags /\ p = Reply(Completed(q), n, f) /\ PassesIngress(p)

LEMMA AnswerCases ==
  ASSUME FlowInv, NEW p, Comes(p), PassesIngress(p)
  PROVE  \/ \E s, q, n, f : Replied(s, q, n, f, p)
         \/ \E s, q, a, src, k, c : Arrives(s, q, a, src, k, c, p)
<1>1. p \notin NativeFrames
  BY NativeStays, Zenon
<1>2. PICK q \in Outgoing : IsReply(q, p) \/ IsError(q, p)
  BY <1>1, Zenon DEF Comes
<1>3. CASE IsReply(q, p)
  <2>1. PICK s : /\ About(s, q, Completed(q)) /\ Completed(q).l4.tc[1] # 129
                 /\ \E n \in ReplyLens, f \in ReplyFrags : p = Reply(Completed(q), n, f)
    BY <1>3, ReplyAbout, Zenon
  <2>2. PICK n \in ReplyLens, f \in ReplyFrags : p = Reply(Completed(q), n, f)
    BY <2>1, Zenon
  <2>3. Replied(s, q, n, f, p)
    BY <2>1, <2>2, Zenon DEF Replied
  <2> QED
    BY <2>3, Zenon
<1>4. CASE IsError(q, p)
  <2>1. PICK s, a : /\ About(s, q, a)
                    /\ \E r \in ErrorSources, k \in ErrorKinds, c \in QuoteCuts :
                         p = ErrorAbout(a, r, k, c)
    BY <1>4, ErrorAboutIs
  <2>2. PICK r \in ErrorSources, k \in ErrorKinds, c \in QuoteCuts : p = ErrorAbout(a, r, k, c)
    BY <2>1, Zenon
  <2>3. Arrives(s, q, a, r, k, c, p)
    BY <2>1, <2>2, Zenon DEF Arrives
  <2> QED
    BY <2>3, Zenon
<1> QED
  BY <1>2, <1>3, <1>4, Zenon

LEMMA IngressCases ==
  ASSUME FlowInv, Changed("ingress")
  PROVE  \/ \E s, q, n, f : Replied(s, q, n, f, Was)
         \/ \E s, q, a, src, k, c : Arrives(s, q, a, src, k, c, Was)
<1>1. PassesIngress(Was) /\ Comes(Was)
  BY IngressRan, Zenon DEF FlowInv, LastRun, Changed, Ran, Was
<1> QED
  BY <1>1, AnswerCases

(* The reply, as the pod receives it. *)
LEMMA RepliedIs ==
  ASSUME NEW s, NEW q, NEW n, NEW f, NEW p, Replied(s, q, n, f, p), NEW lost,
         NEW r, r = Packet4Of(p, lost)
  PROVE  /\ s \in sent /\ s.eth = "ip4" /\ s.src = r.dst /\ s.dst = r.src /\ s.proto = r.proto
         /\ r.eth = "ip4" /\ r.l4.q = <<>> /\ s.l4.info = r.l4.info
         /\ s.proto = "icmp" => s.l4.tc = <<8, 0>> /\ r.l4.tc = <<0, 0>>
         /\ r.frag = p.frag /\ r.df = (p.frag = <<>>) /\ HeaderAccepted(r)
         /\ First(r) /\ CsumEnd(r.proto) # 0 => Accepted(r)
         /\ r.hl = IP4_HLEN /\ r.l4.n = n /\ r.len = IP4_HLEN + n /\ r.tot_len = IP4_HLEN + n
<1> DEFINE h == Reshape(p)
           a == Completed(q)
<1>1. /\ About(s, q, a) /\ a.l4.tc[1] # 129 /\ n \in ReplyLens /\ f \in ReplyFrags
      /\ p = Reply(a, n, f) /\ PassesIngress(p)
  BY Zenon DEF Replied
<1>2. /\ s \in sent /\ s.eth = "ip4" /\ s.proto # "icmp6" /\ s.src = Pod4
  BY <1>1, PassedHeader4, ZenonT(90) DEF About, Left, PassesEgress, IsPodFrame4
<1> HIDE DEF a
<1>3. /\ IsPacket6(a) /\ a.dst = Mapped(s.dst)
      /\ a.nh = (IF s.proto = "icmp" THEN "icmp6" ELSE s.proto)
  BY <1>1, AboutIs, ZenonT(90)
<1>4. /\ p.src = a.dst /\ p.frag = f /\ p.nh = a.nh /\ p.len = IP6_HLEN + ReplyLen(f) + n
      /\ p.plen = ReplyLen(f) + n
  BY <1>1, <1>3, ReplyIs
<1>5. n \in Nat /\ n + IP4_HLEN < U16 /\ IsFragment(p.frag)
  BY <1>1, <1>4, NetworkAssumption, ZenonT(90)
<1>6. /\ SetsL4(r, h, r.l4) /\ r.l4.n = n /\ r.l4.q = <<>> /\ r.l4.info = s.l4.info
      /\ s.proto = "icmp" => s.l4.tc = <<8, 0>> /\ r.l4.tc = <<0, 0>>
      /\ First(p) /\ CsumEnd(p.nh) # 0 => Accepted(r)
  BY <1>1, ReplyTranslated
<1>7. /\ h.hl = IP4_HLEN /\ h.len = p.len - (IP6_HLEN - IP4_HLEN) - Fr(p)
      /\ h.tot_len = (payload_len(p) + IP4_HLEN) % U16 /\ h.frag = p.frag /\ h.dst = Pod4
      /\ h.proto = (IF p.nh = "icmp6" THEN "icmp" ELSE p.nh)
      /\ h.src = (IF in_prefix(p.src) THEN p.src.host ELSE Err4) /\ HeaderAccepted(h)
  BY <1>5, ReshapeIs, Zenon
<1>8. h.df = (p.frag = <<>>)
  BY ReshapeDf, Zenon
<1> HIDE DEF h
<1>9. /\ r.eth = "ip4" /\ r.hl = h.hl /\ r.len = h.len
      /\ r.tot_len = h.tot_len /\ r.frag = h.frag /\ r.df = h.df
      /\ r.proto = h.proto /\ r.src = h.src /\ r.dst = h.dst /\ r.check = h.check
  BY <1>6, Zenon DEF SetsL4, KeepsHead
<1>10. HeaderAccepted(r)
  <2>1. Fields4(r) = Fields4(h)
    BY <1>9, Zenon DEF Fields4
  <2> QED
    BY <1>7, <1>9, <2>1, Zenon DEF HeaderAccepted
<1>11. s.src = r.dst /\ s.dst = r.src /\ s.proto = r.proto
  <2>1. p.src.net = "clat" /\ p.src.host = s.dst
    BY <1>3, <1>4, SMTT(90) DEF Mapped
  <2>2. h.src = s.dst
    BY <1>7, <2>1, Zenon DEF in_prefix
  <2>3. h.proto = s.proto
    BY <1>2, <1>3, <1>4, <1>7, Zenon
  <2> QED
    BY <1>2, <1>7, <1>9, <2>2, <2>3, Zenon
<1>12. ReplyLen(f) = Fr(p) /\ Fr(p) \in {0, 8}
  BY <1>4, ZenonT(90) DEF ReplyLen, Fr, IsFrag, FRAG_HLEN
<1>13. r.len = IP4_HLEN + n
  BY <1>4, <1>5, <1>7, <1>9, <1>12, SMTT(90) DEF IP4_HLEN, IP6_HLEN
<1>14. r.tot_len = IP4_HLEN + n
  <2>1. payload_len(p) = n
    BY <1>4, <1>5, <1>12 DEF payload_len, Fr, IsFrag, FRAG_HLEN
  <2>2. (n + IP4_HLEN) % U16 = n + IP4_HLEN
    BY <1>5, U16Mod DEF IP4_HLEN
  <2> QED
    BY <1>5, <1>7, <1>9, <2>1, <2>2, SMTT(90) DEF IP4_HLEN
<1>15. First(r) /\ CsumEnd(r.proto) # 0 => Accepted(r)
  <2>1. First(r) => First(p)
    BY <1>7, <1>9, Zenon DEF First, IsFrag
  <2>2. CsumEnd(r.proto) # 0 => CsumEnd(p.nh) # 0
    BY <1>7, <1>9 DEF CsumEnd
  <2> QED
    BY <1>6, <2>1, <2>2, ZenonT(90)
<1>16. r.df = (p.frag = <<>>)
  BY <1>8, <1>9, Zenon
<1>17. r.hl = IP4_HLEN /\ r.frag = p.frag
  BY <1>7, <1>9
<1> QED
  BY <1>2, <1>6, <1>9, <1>10, <1>11, <1>13, <1>14, <1>15, <1>16, <1>17, Zenon

(* What the pod receives over IPv4 from a server answers something it      *)
(* sent: from the address it sent to, of the same protocol and flow, an    *)
(* echo reply for an echo, with checksums its stack accepts.               *)
THEOREM RepliesFit == Spec => []ReplyFitsFlow
<1>1. ASSUME FlowInv, Changed("ingress"), Is.l4.q = <<>>
      PROVE  /\ \E s \in sent :
                  /\ s.eth = "ip4"
                  /\ s.src = Is.dst /\ s.dst = Is.src /\ s.proto = Is.proto
                  /\ s.l4.info = Is.l4.info
                  /\ s.proto = "icmp" => <<s.l4.tc, Is.l4.tc>> = << <<8, 0>>, <<0, 0>> >>
             /\ Is.frag = Was.frag /\ Is.df = (Was.frag = <<>>)
             /\ HeaderAccepted(Is)
             /\ First(Is) /\ CsumEnd(Is.proto) # 0 => Accepted(Is)
  <2> DEFINE p == Was
             r == Is
  <2>1. PICK lost \in BOOLEAN : r = Packet4Of(p, lost)
    BY <1>1, IngressRan
  <2>2. \/ \E s, q, n, f : Replied(s, q, n, f, p)
        \/ \E s, q, a, src, k, c : Arrives(s, q, a, src, k, c, p)
    BY <1>1, IngressCases, Zenon
  <2>3. r.l4.q = <<>>
    BY <1>1
  <2> HIDE DEF p, r
  <2>4. ~ \E s, q, a, src, k, c : Arrives(s, q, a, src, k, c, p)
    <3> SUFFICES ASSUME NEW s, NEW q, NEW a, NEW src, NEW k, NEW c, Arrives(s, q, a, src, k, c, p)
                 PROVE  FALSE
      BY ZenonT(90)
    <3> DEFINE i == QuoteOf(a, c)
    <3>1. /\ r = ErrorToIcmp4(p, lost) /\ IsPacket6(p) /\ p.frag = <<>> /\ ~p.l4.part
          /\ p.l4.q = << i >>
      BY <2>1, ArrivesIs
    <3> HIDE DEF i
    <3> DEFINE e == ErrorToIcmp4(p, lost)
               inner == EmbeddedTransport4(i, lost)
    <3>2. IsMessage(e, p, i, inner, Minus(Zero, ErrorDiff(e, p, i, inner)))
      BY <3>1, ErrorShape, Zenon
    <3>3. r.l4.q = << [Embedded4(i) EXCEPT !.l4 = inner] >>
      BY <3>1, <3>2, Zenon DEF IsMessage
    <3> QED
      BY <2>3, <3>3
  <2>5. PICK s, q, n, f : Replied(s, q, n, f, p)
    BY <2>2, <2>4, Zenon
  <2>6. /\ s \in sent /\ s.eth = "ip4" /\ s.src = r.dst /\ s.dst = r.src /\ s.proto = r.proto
        /\ s.l4.info = r.l4.info
        /\ s.proto = "icmp" => s.l4.tc = <<8, 0>> /\ r.l4.tc = <<0, 0>>
        /\ r.frag = p.frag /\ r.df = (p.frag = <<>>) /\ HeaderAccepted(r)
        /\ First(r) /\ CsumEnd(r.proto) # 0 => Accepted(r)
    <3> DEFINE z == Packet4Of(p, lost)
    <3>1. /\ s \in sent /\ s.eth = "ip4" /\ s.src = z.dst /\ s.dst = z.src /\ s.proto = z.proto
          /\ s.l4.info = z.l4.info
          /\ s.proto = "icmp" => s.l4.tc = <<8, 0>> /\ z.l4.tc = <<0, 0>>
          /\ z.frag = p.frag /\ z.df = (p.frag = <<>>) /\ HeaderAccepted(z)
          /\ First(z) /\ CsumEnd(z.proto) # 0 => Accepted(z)
      BY <2>5, RepliedIs
    <3> QED
      BY <2>1, <3>1, ZenonT(90)
  <2>7. s.proto = "icmp" => <<s.l4.tc, r.l4.tc>> = << <<8, 0>>, <<0, 0>> >>
    BY <2>6, Zenon
  <2> QED
    BY <2>6, <2>7, Zenon DEF p, r
<1>2. FlowInv => ReplyFitsFlow
  BY <1>1, Zenon DEF ReplyFitsFlow
<1> QED
  BY <1>2, FlowAlways, PTL

(* The error, as the pod receives it. *)
ErrorLens(r) ==
  /\ r.len = r.tot_len /\ r.len = r.hl + r.l4.n
  /\ \A j \in DOMAIN r.l4.q : r.l4.n = 8 + IP4_HLEN + r.l4.q[j].l4.n

LEMMA ArrivedIs ==
  ASSUME NEW s, NEW q, NEW a, NEW src, NEW k, NEW c, NEW p, Arrives(s, q, a, src, k, c, p), NEW lost,
         NEW r, r = Packet4Of(p, lost), NEW i, i = QuoteOf(a, c),
         NEW q4, q4 = [Embedded4(i) EXCEPT !.l4 = EmbeddedTransport4(i, lost)]
  PROVE  /\ r.eth = "ip4" /\ r.l4.q = << q4 >>
         /\ HeaderAccepted(r) /\ HeaderAccepted(q4) /\ Accepted(r)
         /\ r.dst = Pod4 /\ r.src = (IF p.src.net = "clat" THEN p.src.host ELSE Err4)
         /\ ErrorLens(r)
<1> DEFINE h == Reshape(p)
           inner == EmbeddedTransport4(i, lost)
           e == ErrorToIcmp4(p, lost)
           N == p.l4.n
<1>1. /\ r = e /\ IsPacket6(p) /\ p.frag = <<>> /\ ~p.l4.part
      /\ p.l4.q = << i >> /\ IsPacket6(i) /\ IsFragment(i.frag)
  BY ArrivesIs
<1>2. IsPacket6(a) /\ c \in Nat /\ c + 100 < U16
  BY AboutIs, NetworkAssumption, Zenon DEF Arrives
<1>3. /\ p.len = IP6_HLEN + N /\ p.plen = N /\ N = 8 + IP6_HLEN + ReplyLen(a.frag) + i.l4.n
  BY <1>2, ErrorIs DEF Arrives
<1>4. i.frag = a.frag /\ i.l4.n \in Nat /\ i.l4.n <= c
  BY <1>2, QuoteIs
<1>5. Accepted(r)
  BY ErrorAccepted
<1>6. PICK X : IsMessage(e, p, i, inner, X)
  BY <1>1, ErrorShape, Zenon
<1>7. inner.n = i.l4.n
  BY <1>1, EmbeddedIs, ZenonT(90) DEF EmbeddedAs, SameBut
<1>8. q4.l4 = inner /\ HeaderAccepted(q4)
  BY <1>1, QuoteTranslated
<1>9. /\ h.hl = IP4_HLEN /\ h.len = p.len - (IP6_HLEN - IP4_HLEN) - Fr(p)
      /\ h.tot_len = (payload_len(p) + IP4_HLEN) % U16 /\ h.dst = Pod4
      /\ h.src = (IF in_prefix(p.src) THEN p.src.host ELSE Err4)
  <2>1. IsFragment(p.frag)
    BY <1>1, Zenon DEF IsFragment
  <2> QED
    BY <2>1, ReshapeIs, Zenon
<1> HIDE DEF e, h, inner
<1>10. /\ r.eth = "ip4" /\ r.l4.q = << q4 >> /\ HeaderAccepted(r)
       /\ r.hl = h.hl /\ r.dst = h.dst /\ r.src = h.src
       /\ r.len = h.len - Shrink(i) /\ r.tot_len = (h.tot_len - Shrink(i)) % U16
       /\ r.l4.n = N - Shrink(i)
  BY <1>1, <1>6, Zenon DEF IsMessage, KeepsHead, h, inner
<1>11. Shrink(i) = 20 + ReplyLen(a.frag) /\ ReplyLen(a.frag) \in {0, 8}
  BY <1>4, SMTT(90) DEF Shrink, ReplyLen, IsFrag, IP6_HLEN, IP4_HLEN, FRAG_HLEN
<1>12. Fr(p) = 0 /\ payload_len(p) = N
  BY <1>1, <1>3, <1>4, <1>11, SMTT(90) DEF Fr, payload_len, IsFrag, IP6_HLEN
<1>13. N \in Nat /\ N + 20 < U16 /\ N = 48 + ReplyLen(a.frag) + i.l4.n
  BY <1>2, <1>3, <1>4, <1>11, U16Nat, SMTT(90) DEF IP6_HLEN
<1>14. h.len = N + 20 /\ h.tot_len = N + 20 /\ h.hl = 20
  <2>1. (N + 20) % U16 = N + 20
    BY <1>13, U16Mod, SMTT(90)
  <2> QED
    BY <1>3, <1>9, <1>12, <1>13, <2>1, SMTT(90) DEF IP6_HLEN, IP4_HLEN
<1>15. r.tot_len = N + 20 - Shrink(i)
  <2>1. N + 20 - Shrink(i) \in Nat /\ N + 20 - Shrink(i) < U16
    BY <1>4, <1>11, <1>13, U16Nat, SMTT(90)
  <2>2. (N + 20 - Shrink(i)) % U16 = N + 20 - Shrink(i)
    BY <2>1, U16Mod, ZenonT(90)
  <2>3. h.tot_len - Shrink(i) = N + 20 - Shrink(i)
    BY <1>11, <1>13, <1>14
  <2> QED
    BY <1>10, <2>2, <2>3, Zenon
<1>16. r.len = r.tot_len /\ r.len = r.hl + r.l4.n
  BY <1>10, <1>11, <1>13, <1>14, <1>15, SMTT(90)
<1>17. r.l4.n = 8 + IP4_HLEN + q4.l4.n
  BY <1>4, <1>7, <1>8, <1>10, <1>11, <1>13, SMTT(90) DEF IP4_HLEN
<1>18. r.dst = Pod4 /\ r.src = (IF p.src.net = "clat" THEN p.src.host ELSE Err4)
  BY <1>9, <1>10, Zenon DEF in_prefix
<1>19. ErrorLens(r)
  <2> HIDE DEF N
  <2>1. r.l4.q = << q4 >>
    BY <1>10, Zenon
  <2>2. \A j \in DOMAIN r.l4.q : r.l4.q[j] = q4
    BY <2>1
  <2> QED
    BY <1>16, <1>17, <2>2, Zenon DEF ErrorLens
<1> QED
  BY <1>5, <1>8, <1>10, <1>18, <1>19, Zenon

(* An error the pod receives passes every checksum: the outer header, the  *)
(* embedded header and the ICMP message, whatever clat_ingress made of the *)
(* embedded transport checksum, and comes from the router or the dummy     *)
(* address.                                                                *)
THEOREM ErrorsAreAccepted == Spec => []ErrorIsAccepted
<1>1. ASSUME FlowInv, Changed("ingress"), Is.l4.q # <<>>
      PROVE  /\ HeaderAccepted(Is) /\ HeaderAccepted(Is.l4.q[1]) /\ Accepted(Is)
             /\ Is.dst = Pod4
             /\ Is.src = IF Was.src.net = "clat" THEN Was.src.host ELSE Err4
  <2> DEFINE p == Was
             r == Is
  <2>1. PICK lost \in BOOLEAN : r = Packet4Of(p, lost)
    BY <1>1, IngressRan
  <2>2. \/ \E s, q, n, f : Replied(s, q, n, f, p)
        \/ \E s, q, a, src, k, c : Arrives(s, q, a, src, k, c, p)
    BY <1>1, IngressCases, Zenon
  <2>3. r.l4.q # <<>>
    BY <1>1
  <2> HIDE DEF p, r
  <2> DEFINE z == Packet4Of(p, lost)
  <2>4. ~ \E s, q, n, f : Replied(s, q, n, f, p)
    <3> SUFFICES ASSUME NEW s, NEW q, NEW n, NEW f, Replied(s, q, n, f, p)
                 PROVE  FALSE
      BY Zenon
    <3>1. z.l4.q = <<>>
      BY RepliedIs
    <3> QED
      BY <2>1, <2>3, <3>1, Zenon
  <2>5. PICK s, q, a, src, k, c : Arrives(s, q, a, src, k, c, p)
    BY <2>2, <2>4, Zenon
  <2> DEFINE i == QuoteOf(a, c)
             q4 == [Embedded4(i) EXCEPT !.l4 = EmbeddedTransport4(i, lost)]
  <2>6. /\ z.l4.q = << q4 >> /\ HeaderAccepted(z) /\ HeaderAccepted(q4) /\ Accepted(z)
        /\ z.dst = Pod4 /\ z.src = (IF p.src.net = "clat" THEN p.src.host ELSE Err4)
    BY <2>5, ArrivedIs
  <2> HIDE DEF q4
  <2>7. z.l4.q[1] = q4
    BY <2>6
  <2> QED
    BY <2>1, <2>6, <2>7, Zenon DEF p, r
<1>2. FlowInv => ErrorIsAccepted
  BY <1>1, Zenon DEF ErrorIsAccepted
<1> QED
  BY <1>2, FlowAlways, PTL
=============================================================================
