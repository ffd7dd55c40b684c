------------------------- MODULE ClatQuotes_proofs --------------------------
(***************************************************************************)
(* Proofs about ClatPath, continued: the lengths in what the programs      *)
(* write, what an error quotes, and the counters.  And about PathMtu: the  *)
(* MTU the pod learns from such errors.                                    *)
(***************************************************************************)
EXTENDS ClatAnswers_proofs, PathMtu

-----------------------------------------------------------------------------
(* A run of clat_egress that counted and passed a frame translated it. *)
LEMMA EgressChanged ==
  ASSUME FlowInv, Changed("egress")
  PROVE  PassesEgress(Was) /\ Is = Packet6Of(Was) /\ IsPodFrame4(Was)
<1> DEFINE o == ev[1].out
           p == Was
<1>1. o \in clat_egress(p) /\ o.counter # "none" /\ Ran("egress") /\ o.act = "ok"
  BY DEF FlowInv, LastRun, Ran, Changed, Was
<1>2. p.eth = "ip4"
  <2> HIDE DEF o, p
  <2>1. o # Pass(p)
    BY <1>1 DEF Pass
  <2> QED
    BY <1>1, <2>1, EgressOutcome DEF PassesEgress
<1> QED
  BY <1>1, <1>2, EgressRan

(* After all the room that is made and removed around the headers, the     *)
(* length in the header is the length of the packet, in both directions,   *)
(* and an error is as long as what is left of the packet it quotes: no     *)
(* 16-bit length wraps.                                                    *)
THEOREM LengthsStayRight == Spec => []LengthsAgree
<1>1. ASSUME FlowInv, Changed("egress") PROVE Is.len = IP6_HLEN + Is.plen
  <2> DEFINE p == Was
             r == Packet6Of(p)
  <2>1. PassesEgress(p) /\ Is = r /\ IsPodFrame4(p)
    BY <1>1, EgressChanged
  <2> HIDE DEF p
  <2>2. /\ r.plen = Payload6(p)
        /\ r.len = p.len - optlen(p) + (IP6_HLEN - IP4_HLEN) + Fr(p)
    BY Packet6Is DEF Fr
  <2> HIDE DEF r
  <2>3. /\ p.hl \in Nat /\ p.tot_len \in Nat /\ p.tot_len < U16
    BY <2>1, EgressHeader, Zenon
  <2>4. p.ver = 4 /\ IP4_HLEN <= p.hl /\ p.hl <= p.tot_len
    BY <2>1, EgressHeader, Zenon
  <2>5. p.len = p.tot_len
    BY <2>1, EgressHeader, Zenon
  <2>6. Fr(p) \in {0, 8}
    BY DEF Fr, FRAG_HLEN
  <2> DEFINE x == p.tot_len - p.hl + Fr(p)
  <2>7. Payload6(p) = x % U16
    BY Zenon DEF Payload6, Fr, l4len
  <2>8. x \in Nat /\ x < U16
    BY <2>3, <2>4, <2>6, U16Nat DEF IP4_HLEN
  <2>9. x % U16 = x
    BY <2>8, U16Mod
  <2>10. r.len = IP6_HLEN + r.plen
    BY <2>2, <2>3, <2>5, <2>6, <2>7, <2>9 DEF optlen, IP6_HLEN, IP4_HLEN
  <2> QED
    BY <2>1, <2>10
<1>2. ASSUME FlowInv, Changed("ingress")
      PROVE  /\ Is.len = Is.tot_len /\ Is.len = Is.hl + Is.l4.n
             /\ \A i \in DOMAIN Is.l4.q : Is.l4.n = 8 + IP4_HLEN + Is.l4.q[i].l4.n
  <2> DEFINE p == Was
             r == Is
  <2>1. PICK lost \in BOOLEAN : r = Packet4Of(p, lost)
    BY <1>2, IngressRan
  <2>2. \/ \E s, q, n, f : Replied(s, q, n, f, p)
        \/ \E s, q, a, src, k, c : Arrives(s, q, a, src, k, c, p)
    BY <1>2, IngressCases
  <2> DEFINE z == Packet4Of(p, lost)
             Right(y) == /\ y.len = y.tot_len /\ y.len = y.hl + y.l4.n
                         /\ \A i \in DOMAIN y.l4.q : y.l4.n = 8 + IP4_HLEN + y.l4.q[i].l4.n
  <2> HIDE DEF p, r
  <2>3. ASSUME \E s, q, n, f : Replied(s, q, n, f, p) PROVE Right(r)
    <3>1. PICK s, q, n, f : Replied(s, q, n, f, p)
      BY <2>3
    <3>2. /\ z.l4.q = <<>> /\ z.hl = IP4_HLEN /\ z.l4.n = n /\ z.len = IP4_HLEN + n
          /\ z.tot_len = IP4_HLEN + n
      BY <3>1, RepliedIs
    <3> HIDE DEF z
    <3>3. Right(z)
      BY <3>2
    <3> QED
      BY <2>1, <3>3, Zenon DEF z
  <2>4. ASSUME \E s, q, a, src, k, c : Arrives(s, q, a, src, k, c, p) PROVE Right(r)
    <3>1. PICK s, q, a, src, k, c : Arrives(s, q, a, src, k, c, p)
      BY <2>4, Zenon
    <3> DEFINE i == QuoteOf(a, c)
               q4 == [Embedded4(i) EXCEPT !.l4 = EmbeddedTransport4(i, lost)]
    <3>2. z.l4.q = << q4 >> /\ ErrorLens(z)
      BY <3>1, ArrivedIs
    <3> HIDE DEF z, i, q4
    <3>3. Right(z)
      BY <3>2, Zenon DEF ErrorLens
    <3> QED
      BY <2>1, <3>3, Zenon DEF z
  <2>5. Right(r)
    BY <2>2, <2>3, <2>4, Zenon
  <2> QED
    BY <2>5, Zenon DEF r
<1>3. FlowInv => LengthsAgree
  BY <1>1, <1>2, Zenon DEF LengthsAgree
<1> QED
  BY <1>3, FlowAlways, PTL

(* The payload enters the sum once, and no header does it again. *)
LEMMA DataCoef ==
  ASSUME NEW l, l.q = <<>>
  PROVE  LET d == <<"data", l.data, l.dlen>>
         IN /\ Coef(Bytes(l), d) = 1
            /\ \A a, b : Coef(Addr4(a, b), d) = 0 /\ Coef(Addr6(a, b), d) = 0
                         /\ Coef(LenProto(a, b), d) = 0
<1> DEFINE d == <<"data", l.data, l.dlen>>
<1>1. d[1] = "data"
  OBVIOUS
<1>2. \A x, y : <<x, y>>[1] = x
  OBVIOUS
<1> HIDE DEF d
<1>3. \A a, b : Coef(Addr4(a, b), d) = 0
  <2> TAKE a, b
  <2>1. d \notin {<<"a4", a>>, <<"a4", b>>}
    BY <1>1, <1>2
  <2> QED
    BY <2>1, SumIs DEF Addr4
<1>4. \A a, b : Coef(Addr6(a, b), d) = 0
  <2> TAKE a, b
  <2>1. d \notin {<<"a6", a>>, <<"a6", b>>}
    BY <1>1, <1>2
  <2> QED
    BY <2>1, SumIs DEF Addr6
<1>5. \A a, b : Coef(LenProto(a, b), d) = 0
  <2> TAKE a, b
  <2>1. d \notin {<<"len", a>>, <<"proto", b>>}
    BY <1>1, <1>2
  <2> QED
    BY <2>1, SumIs DEF LenProto
<1>6. Coef(TypeWord(l.tc), d) = 0
  <2>1. d \notin {<<"tc", l.tc>>}
    BY <1>1, <1>2
  <2> QED
    BY <2>1, SumIs DEF TypeWord
<1>7. Coef(Sum({<<"info", l.info>>}), d) = 0
  <2>1. d \notin {<<"info", l.info>>}
    BY <1>1, <1>2
  <2> QED
    BY <2>1, SumIs
<1>8. Coef(Sum({<<"data", l.data, l.dlen>>}), d) = 1
  BY SumIs DEF d
<1>9. Coef(Bytes(l), d) = Coef(TypeWord(l.tc), d) + Coef(Sum({<<"info", l.info>>}), d)
                          + Coef(Sum({<<"data", l.data, l.dlen>>}), d)
  BY BytesIs
<1>10. Coef(Bytes(l), d) = 1
  BY <1>6, <1>7, <1>8, <1>9
<1> QED
  BY <1>3, <1>4, <1>5, <1>10, Zenon DEF d

(* The checksum the pod sent or would have sent. *)
LEMMA SentField ==
  ASSUME NEW s, IsPodFrame4(s), IsSent4(s), s.eth = "ip4", First(s), s.proto \in {"tcp", "udp"}
  PROVE  LET A4 == Addr4(s.src, s.dst)
             lp == LenProto(s.l4.dlen, s.proto)
             F == FullField(s)
         IN /\ IsForm(F) /\ IsForm(Bytes(s.l4)) /\ IsForm(A4) /\ IsForm(lp) /\ IsForm(s.l4.field)
            /\ \A t : Coef(F, t) = - Coef(A4, t) - Coef(lp, t) - Coef(Bytes(s.l4), t)
            /\ s.l4.part => ~FullCsum(s)
            /\ ~s.l4.part => s.l4.field = F \/ s.l4.field = Zero
<1> DEFINE A4 == Addr4(s.src, s.dst)
           lp == LenProto(s.l4.dlen, s.proto)
           F == FullField(s)
<1>1. IsForm(A4) /\ IsForm(lp) /\ IsForm(s.l4.field) /\ s.l4.q = <<>>
  BY PacketForms, Zenon DEF IsPodFrame4, IsTransport
<1>2. IsForm(Bytes(s.l4))
  BY <1>1, BytesIs, Zenon
<1>3. Pseudo(s) = Pseudo4(s.src, s.dst, s.l4.dlen, s.proto)
  BY DEF Pseudo
<1>4. s.proto # "icmp"
  OBVIOUS
<1>5. /\ IsForm(Pseudo(s)) /\ \A t : Coef(Pseudo(s), t) = Coef(A4, t) + Coef(lp, t)
  BY <1>3, <1>4, PacketForms, PseudoIs, SMTT(90)
<1>6. IsForm(F) /\ \A t : Coef(F, t) = - Coef(Pseudo(s), t) - Coef(Bytes(s.l4), t)
  BY <1>2, <1>5, FullFieldIs
<1>7. Pseudo(s) # Zero
  BY <1>3, <1>4, PseudoNotZero
<1>8. \/ s.l4.field = (IF s.l4.part THEN Pseudo(s) ELSE F)
      \/ ~s.l4.part /\ s.l4.field = Zero
  BY Zenon DEF IsSent4, PartialField
<1> HIDE DEF A4, lp, F
<1>9. s.l4.part => ~FullCsum(s)
  BY <1>7, <1>8, Zenon DEF FullCsum, NoCheck
<1>10. ~s.l4.part => s.l4.field = F \/ s.l4.field = Zero
  BY <1>8, Zenon
<1>11. \A t : Coef(A4, t) \in Int /\ Coef(lp, t) \in Int /\ Coef(Bytes(s.l4), t) \in Int
  BY <1>1, <1>2, CoefOf, Zenon
<1>12. \A t : Coef(F, t) = - Coef(A4, t) - Coef(lp, t) - Coef(Bytes(s.l4), t)
  BY <1>5, <1>6, <1>11
<1> QED
  BY <1>1, <1>2, <1>6, <1>9, <1>10, <1>12, Zenon DEF A4, lp, F

(* TCP, UDP: what the network saw is the original checksum, with the       *)
(* addresses exchanged; and it is not the absent one.                      *)
LEMMA AboutField ==
  ASSUME NEW s, NEW q, NEW a, About(s, q, a), First(s), s.proto \in {"tcp", "udp"}, ~a.l4.part
  PROVE  LET A4 == Addr4(s.src, s.dst)
             A6 == Addr6(POD_IP6, Mapped(s.dst))
             F == OriginalField(s)
         IN /\ IsForm(F) /\ a.l4.field # Zero
            /\ \A t : Coef(a.l4.field, t) = Coef(F, t) + Coef(A4, t) - Coef(A6, t)
<1> DEFINE A4 == Addr4(s.src, s.dst)
           A6 == Addr6(POD_IP6, Mapped(s.dst))
           F == OriginalField(s)
           G == FullField(s)
           l == s.l4
           m == Transport6Of(s)
           lp == LenProto(l.dlen, s.proto)
           B == Bytes(l)
           f == a.l4.field
           d == <<"data", l.data, l.dlen>>
<1>1. /\ IsPodFrame4(s) /\ IsSent4(s) /\ PassesEgress(s) /\ Left(s, q) /\ a \in {q, Completed(q)}
      /\ s.eth = "ip4"
  BY DEF About, Left, PassesEgress
<1>2. /\ IsPacket6(q) /\ q.src = POD_IP6 /\ q.dst = Mapped(s.dst) /\ q.l4 = m /\ q.l4.q = <<>>
      /\ q.nh = s.proto /\ q.eth = "ip6"
  <2>1. s.proto # "icmp"
    OBVIOUS
  <2>2. IsPacket6(q)
    BY <1>1, LeftIs, Zenon
  <2>3. q.eth = "ip6"
    BY <2>2, Record6Is, SMTT(90) DEF IsPacket6
  <2> QED
    BY <1>1, <2>1, <2>3, LeftIs, Zenon
<1>3. /\ IsForm(G) /\ IsForm(B) /\ IsForm(A4) /\ IsForm(lp) /\ IsForm(l.field)
      /\ \A t : Coef(G, t) = - Coef(A4, t) - Coef(lp, t) - Coef(B, t)
      /\ l.part => ~FullCsum(s)
      /\ ~l.part => l.field = G \/ l.field = Zero
  BY <1>1, SentField, Zenon
<1>4. IsForm(A6) /\ IsForm(Zero)
  BY PacketForms, ZeroIs
<1>5. /\ SameBut(l, m) /\ m.tc = l.tc
  BY <1>1, Transport6Is, Zenon
<1>6. m.part = l.part /\ Bytes(m) = B
  BY <1>5, Zenon DEF SameBut, Bytes, OwnBytes, Payload
<1>7. F = IF l.part \/ FullCsum(s) THEN G ELSE l.field
  BY DEF OriginalField
<1>8. f = IF q.l4.part THEN FullField(q) ELSE q.l4.field
  <2>1. Completed(q).l4.field = IF q.l4.part THEN FullField(q) ELSE q.l4.field
    BY <1>2, CompletedIs, Zenon
  <2>2. CASE a = q
    BY <2>2
  <2>3. CASE a = Completed(q)
    BY <2>1, <2>3, Zenon
  <2> QED
    BY <1>1, <2>2, <2>3, Zenon
<1>9. /\ Coef(B, d) = 1 /\ Coef(A4, d) = 0 /\ Coef(A6, d) = 0 /\ Coef(lp, d) = 0
  <2>1. l.q = <<>>
    BY <1>1, Zenon DEF IsPodFrame4
  <2> QED
    BY <2>1, DataCoef, Zenon
<1>10. ~(s.ver = 4 /\ IP4_HLEN <= s.hl /\ s.hl <= s.tot_len) \/ IsFrag(s) \/ l.dlen = l4len(s)
  BY <1>1, Zenon DEF IsPodFrame4
<1>11. s.ver = 4 /\ IP4_HLEN <= s.hl /\ s.hl <= s.tot_len /\ s.src = Pod4
  BY <1>1, EgressHeader, Zenon
<1>12. \A t : /\ Coef(A4, t) \in Int /\ Coef(A6, t) \in Int /\ Coef(lp, t) \in Int
              /\ Coef(B, t) \in Int /\ Coef(l.field, t) \in Int
  BY <1>3, <1>4, CoefOf, Zenon
<1>13. Coef(Zero, d) = 0 /\ IsForm(F)
  BY <1>3, <1>7, ZeroIs, Zenon
<1> HIDE DEF A4, A6, F, G, lp, B, f, d
<1> SUFFICES /\ f # Zero /\ \A t : Coef(f, t) = Coef(F, t) + Coef(A4, t) - Coef(A6, t)
  BY <1>13, Zenon DEF A4, A6, F, f
<1>14. CASE l.part
  <2>1. f = FullField(q) /\ F = G
    BY <1>2, <1>6, <1>7, <1>8, <1>14, Zenon
  <2>2. Pseudo(q) = Pseudo6(POD_IP6, Mapped(s.dst), l.dlen, s.proto) /\ Bytes(q.l4) = B
    BY <1>2, <1>5, <1>6, Zenon DEF Pseudo, SameBut
  <2>3. IsForm(Pseudo(q)) /\ \A t : Coef(Pseudo(q), t) = Coef(A6, t) + Coef(lp, t)
    BY <2>2, PacketForms, PseudoIs, SMTT(90) DEF A6, lp
  <2>4. \A t : Coef(f, t) = - Coef(Pseudo(q), t) - Coef(B, t)
    BY <1>3, <2>1, <2>2, <2>3, FullFieldIs, Zenon
  <2>5. \A t : Coef(f, t) = Coef(F, t) + Coef(A4, t) - Coef(A6, t)
    BY <1>3, <1>12, <2>1, <2>3, <2>4, SMTT(90)
  <2>6. Coef(f, d) = -1
    BY <1>9, <2>3, <2>4
  <2>7. f # Zero
    BY <1>13, <2>6
  <2> QED
    BY <2>5, <2>7
<1>15. CASE ~l.part /\ FullCsum(s)
  <2>1. f = m.field /\ F = G
    BY <1>2, <1>6, <1>7, <1>8, <1>15, Zenon
  <2>2. s.proto = "udp" /\ l.dlen = l4len(s)
    <3>1. s.proto = "udp"
      BY <1>15 DEF FullCsum, NoCheck
    <3>2. ~IsFrag(s)
      BY <1>1, <1>15, <3>1, PassedTransport4, Zenon DEF PassesEgress
    <3> QED
      BY <1>10, <1>11, <3>1, <3>2, Zenon
  <2> DEFINE p6 == Pseudo6(POD_IP6, Mapped(s.dst), l4len(s), "udp")
  <2>3. \A t : Coef(f, t) = - Coef(p6, t) - Coef(OwnBytes(l), t) - Coef(Payload(l), t)
    BY <1>1, <1>15, <2>1, SumDatagramIs, Zenon
  <2>4. \A t : Coef(p6, t) = Coef(A6, t) + Coef(lp, t)
    BY <2>2, PseudoIs, SMTT(90) DEF A6, lp
  <2>5. \A t : Coef(B, t) = Coef(OwnBytes(l), t) + Coef(Payload(l), t)
    <3>1. B = Plus(OwnBytes(l), Payload(l))
      BY <1>1, Zenon DEF B, Bytes, IsPodFrame4
    <3> QED
      BY <3>1, PacketForms, PlusIs, Zenon
  <2>6. \A t : Coef(OwnBytes(l), t) \in Int /\ Coef(Payload(l), t) \in Int
    BY PacketForms, CoefOf, Zenon
  <2> HIDE DEF p6
  <2>7. \A t : Coef(f, t) = - Coef(A6, t) - Coef(lp, t) - Coef(B, t)
    BY <1>12, <2>3, <2>4, <2>5, <2>6, SMTT(90)
  <2>8. \A t : Coef(f, t) = Coef(F, t) + Coef(A4, t) - Coef(A6, t)
    BY <1>3, <1>12, <2>1, <2>7, SMTT(90)
  <2>9. Coef(f, d) = -1
    BY <1>9, <2>7
  <2>10. f # Zero
    BY <1>13, <2>9
  <2> QED
    BY <2>8, <2>10
<1>16. CASE ~l.part /\ ~FullCsum(s)
  <2>1. f = m.field /\ F = l.field
    BY <1>2, <1>6, <1>7, <1>8, <1>16, Zenon
  <2>2. \A t : Coef(f, t) = Coef(l.field, t) - (Coef(A6, t) - Coef(A4, t))
    BY <1>1, <1>16, <2>1, UpdateIs, Zenon DEF A4, A6
  <2>3. \A t : Coef(f, t) = Coef(F, t) + Coef(A4, t) - Coef(A6, t)
    BY <1>12, <2>1, <2>2, SMTT(90)
  <2>4. CASE l.field = G
    <3>1. Coef(f, d) = -1
      BY <1>3, <1>9, <2>2, <2>4
    <3> QED
      BY <1>13, <2>3, <3>1
  <2>5. CASE l.field = Zero
    <3> DEFINE e == <<"a4", Pod4>>
    <3>1. Coef(A4, e) = 1
      BY <1>11, SumIs DEF A4, Addr4
    <3>2. Coef(A6, e) = 0
      <4>1. e \notin {<<"a6", POD_IP6>>, <<"a6", Mapped(s.dst)>>}
        OBVIOUS
      <4> QED
        BY <4>1, SumIs DEF A6, Addr6
    <3>3. Coef(Zero, e) = 0
      BY ZeroIs
    <3> HIDE DEF e
    <3>4. Coef(f, e) = 1
      BY <2>2, <2>5, <3>1, <3>2, <3>3
    <3> QED
      BY <2>3, <3>3, <3>4
  <2> QED
    BY <1>3, <1>16, <2>4, <2>5, Zenon
<1> QED
  BY <1>14, <1>15, <1>16, Zenon

(* A form with the same coefficients is the field that is left of F.       *)
LEMMA LeftOfField ==
  ASSUME NEW F, IsForm(F), NEW f, IsForm(f), NEW lost,
         \A t : Coef(f, t) = Coef(F, t) - Coef(Carry(lost), t)
  PROVE  f = EmbeddedField(F, Zero, lost)
<1> DEFINE g == EmbeddedField(F, Zero, lost)
<1>1. /\ IsForm(g) /\ IsForm(Carry(lost))
      /\ \A t : Coef(g, t) = Coef(F, t) - Coef(Zero, t) - Coef(Carry(lost), t)
  BY ZeroIs, EmbeddedFieldIs, SMTT(90)
<1> HIDE DEF g
<1>2. \A t : Coef(F, t) \in Int /\ Coef(Zero, t) = 0 /\ Coef(Carry(lost), t) \in Int
  BY <1>1, ZeroIs, CoefOf, Zenon
<1>3. \A t : Coef(f, t) = Coef(g, t)
  BY <1>1, <1>2
<1> QED
  BY <1>1, <1>3, FormEqual, Zenon DEF g

(* The network's view of an echo. *)
LEMMA AboutEcho ==
  ASSUME NEW s, NEW q, NEW a, About(s, q, a), s.proto = "icmp"
  PROVE  LET p6 == Pseudo6(POD_IP6, Mapped(s.dst), l4len(s), "icmp6")
         IN /\ ~IsFrag(s) /\ a.l4.tc = <<EchoTo6(s.l4.tc[1]), s.l4.tc[2]>>
            /\ EchoTo6(s.l4.tc[1]) # -1 /\ OriginalField(s) = s.l4.field
            /\ \A t : Coef(a.l4.field, t) =
                        Coef(s.l4.field, t) - Coef(p6, t) + Coef(TypeWord(s.l4.tc), t)
                        - Coef(TypeWord(a.l4.tc), t)
<1> DEFINE p6 == Pseudo6(POD_IP6, Mapped(s.dst), l4len(s), "icmp6")
           m == Transport6Of(s)
<1>1. /\ IsPodFrame4(s) /\ PassesEgress(s) /\ Left(s, q) /\ a \in {q, Completed(q)}
  BY DEF About, Left
<1>2. ~IsFrag(s) /\ First(s)
  BY <1>1, PassedHeader4, Zenon DEF PassesEgress, First
<1>3. EchoTo6(s.l4.tc[1]) # -1
  BY <1>1, <1>2, PassedTransport4, Zenon DEF PassesEgress
<1>4. /\ SameBut(s.l4, m) /\ m.tc = <<EchoTo6(s.l4.tc[1]), s.l4.tc[2]>> /\ ~m.part
      /\ \A t : Coef(m.field, t) = Coef(s.l4.field, t) - Coef(p6, t)
                                   + Coef(TypeWord(s.l4.tc), t) - Coef(TypeWord(m.tc), t)
  BY <1>1, <1>2, EchoIs, Zenon
<1>5. IsPacket6(q) /\ q.l4 = m /\ q.l4.q = <<>>
  BY <1>1, LeftIs, Zenon
<1>6. Completed(q) = q
  BY <1>4, <1>5 DEF Completed
<1>7. a.l4 = m
  BY <1>1, <1>5, <1>6, Zenon
<1>8. OriginalField(s) = s.l4.field
  BY <1>1, Zenon DEF OriginalField, IsPodFrame4, FullCsum, NoCheck
<1> HIDE DEF p6, m
<1> QED
  BY <1>2, <1>3, <1>4, <1>7, <1>8, Zenon DEF p6, m

(* The transport header that comes back in an error is the one that left. *)
LEMMA TransportBack ==
  ASSUME NEW s, NEW q, NEW a, NEW src, NEW k, NEW c, NEW p, Arrives(s, q, a, src, k, c, p),
         NEW lost \in BOOLEAN, NEW i, i = QuoteOf(a, c), NEW m, m = EmbeddedTransport4(i, lost)
  PROVE  /\ m.tc = s.l4.tc /\ m.info = s.l4.info
         /\ HasField(s.proto, m) /\ ~m.part =>
              \E b \in BOOLEAN : (b => lost) /\ m.field = EmbeddedField(OriginalField(s), Zero, b)
<1> DEFINE A4 == Addr4(Pod4, s.dst)
           A6 == Addr6(POD_IP6, Mapped(s.dst))
           F == OriginalField(s)
<1>1. About(s, q, a) /\ c \in Nat
  BY NetworkAssumption DEF Arrives
<1>2. /\ IsPodFrame4(s) /\ PassesEgress(s) /\ Left(s, q) /\ a \in {q, Completed(q)}
      /\ s.proto # "icmp6" /\ IsTransport(s.l4) /\ s.src = Pod4
  BY <1>1, PassedHeader4, Zenon DEF About, Left, IsPodFrame4, PassesEgress
<1>3. /\ IsPacket6(a) /\ a.src = POD_IP6 /\ a.dst = Mapped(s.dst) /\ a.frag = s.frag
      /\ a.plen = Payload6(s) /\ a.nh = (IF s.proto = "icmp" THEN "icmp6" ELSE s.proto)
      /\ a.l4.tc = Transport6Of(s).tc /\ a.l4.info = s.l4.info
  BY <1>1, AboutIs, ZenonT(90)
<1>4. /\ IsPacket6(i) /\ i.plen = a.plen /\ i.frag = a.frag /\ i.nh = a.nh /\ i.src = a.src
      /\ i.dst = a.dst /\ i.l4.tc = a.l4.tc /\ i.l4.info = a.l4.info /\ i.l4.n \in Nat
      /\ i.l4.field = a.l4.field
  BY <1>1, <1>3, QuoteIs
<1>5. i.l4.part = a.l4.part
  BY <1>1, <1>3, QuoteIs
<1>6. i.dst.host = s.dst
  BY <1>3, <1>4, SMTT(90) DEF Mapped
<1> DEFINE p6 == Pseudo6(i.src, i.dst, i.plen, "icmp6")
<1>7. EmbeddedAs(i, lost, m, A4, A6, p6)
  <2>1. A4 = Addr4(Pod4, i.dst.host) /\ A6 = Addr6(i.src, i.dst)
    BY <1>3, <1>4, <1>6, Zenon
  <2>2. p6 = Pseudo6(i.src, i.dst, i.plen, "icmp6")
    OBVIOUS
  <2> HIDE DEF A4, A6, p6
  <2> QED
    BY <1>4, <2>1, <2>2, EmbeddedIs, Zenon
<1>8. m.info = s.l4.info /\ m.n = i.l4.n /\ IsForm(m.field) /\ IsForm(i.l4.field)
  BY <1>3, <1>4, <1>7, Zenon DEF EmbeddedAs, SameBut, IsTransport, IsPacket6
<1>9. m.part = i.l4.part
  BY <1>7, Zenon DEF EmbeddedAs, SameBut
<1>10. IsForm(A4) /\ IsForm(A6) /\ IsForm(Carry(lost)) /\ IsForm(p6)
  BY PacketForms, EmbeddedFieldIs, ZeroIs
<1>11. \A t : /\ Coef(A4, t) \in Int /\ Coef(A6, t) \in Int /\ Coef(Carry(lost), t) \in Int
              /\ Coef(p6, t) \in Int
  BY <1>10, CoefOf, Zenon
<1> HIDE DEF A4, A6, F, p6
<1> SUFFICES /\ m.tc = s.l4.tc
             /\ HasField(s.proto, m) /\ ~m.part =>
                  \E b \in BOOLEAN : (b => lost) /\ m.field = EmbeddedField(F, Zero, b)
  BY <1>8, Zenon DEF F
<1>12. CASE s.proto = "icmp"
  <2> DEFINE pp == Pseudo6(POD_IP6, Mapped(s.dst), l4len(s), "icmp6")
  <2>1. /\ ~IsFrag(s) /\ a.l4.tc = <<EchoTo6(s.l4.tc[1]), s.l4.tc[2]>>
        /\ EchoTo6(s.l4.tc[1]) # -1 /\ F = s.l4.field
        /\ \A t : Coef(a.l4.field, t) =
                    Coef(s.l4.field, t) - Coef(pp, t) + Coef(TypeWord(s.l4.tc), t)
                    - Coef(TypeWord(a.l4.tc), t)
    BY <1>1, <1>12, AboutEcho, Zenon DEF F
  <2>2. /\ EchoTo4(a.l4.tc[1]) = s.l4.tc[1] /\ EchoTo4(a.l4.tc[1]) # -1 /\ a.l4.tc[2] = s.l4.tc[2]
    BY <2>1 DEF EchoTo4, EchoTo6
  <2>3. EmbeddedEcho(i)
    BY <1>3, <1>4, <1>12, <2>1, <2>2, Zenon DEF EmbeddedEcho, IsEcho6, IsFrag
  <2>4. m.tc = s.l4.tc
    <3>1. s.l4.tc = <<s.l4.tc[1], s.l4.tc[2]>>
      BY <1>2, Zenon DEF IsTransport
    <3> QED
      BY <1>4, <1>7, <2>2, <2>3, <3>1, Zenon DEF EmbeddedAs
  <2>5. p6 = pp
    <3>1. s.hl \in Nat /\ s.tot_len \in Nat /\ s.tot_len < U16
      BY <1>2, EgressHeader, Zenon
    <3>2. IP4_HLEN <= s.hl /\ s.hl <= s.tot_len
      BY <1>2, EgressHeader, Zenon
    <3>3. l4len(s) \in Nat /\ l4len(s) < U16
      BY <3>1, <3>2, U16Nat DEF l4len, IP4_HLEN
    <3>4. l4len(s) % U16 = l4len(s)
      BY <3>3, U16Mod, Zenon
    <3>5. Payload6(s) = l4len(s)
      BY <2>1, <3>3, <3>4, SMTT(90) DEF Payload6
    <3> QED
      BY <1>3, <1>4, <3>5, Zenon DEF p6
  <2>6. IsForm(s.l4.field) /\ IsForm(TypeWord(s.l4.tc)) /\ IsForm(TypeWord(a.l4.tc))
    BY <1>2, PacketForms, Zenon DEF IsTransport
  <2>7. \A t : /\ Coef(s.l4.field, t) \in Int /\ Coef(TypeWord(s.l4.tc), t) \in Int
               /\ Coef(TypeWord(a.l4.tc), t) \in Int
    BY <2>6, CoefOf, Zenon
  <2> HIDE DEF pp
  <2>8. \A t : Coef(m.field, t) = Coef(a.l4.field, t) + Coef(p6, t) + Coef(TypeWord(a.l4.tc), t)
                                  - Coef(TypeWord(s.l4.tc), t) - Coef(Carry(lost), t)
    BY <1>4, <1>7, <2>3, <2>4, ZenonT(90) DEF EmbeddedAs
  <2>9. \A t : Coef(m.field, t) = Coef(F, t) - Coef(Carry(lost), t)
    <3> SUFFICES ASSUME NEW t PROVE Coef(m.field, t) = Coef(F, t) - Coef(Carry(lost), t)
      BY Zenon
    <3>1. Coef(m.field, t) = Coef(a.l4.field, t) + Coef(p6, t) + Coef(TypeWord(a.l4.tc), t)
                             - Coef(TypeWord(s.l4.tc), t) - Coef(Carry(lost), t)
      BY <2>8, Zenon
    <3>2. Coef(a.l4.field, t) = Coef(F, t) - Coef(p6, t) + Coef(TypeWord(s.l4.tc), t)
                                - Coef(TypeWord(a.l4.tc), t)
      BY <2>1, <2>5, Zenon
    <3>3. /\ Coef(F, t) \in Int /\ Coef(TypeWord(s.l4.tc), t) \in Int
          /\ Coef(TypeWord(a.l4.tc), t) \in Int /\ Coef(Carry(lost), t) \in Int
          /\ Coef(p6, t) \in Int
      BY <1>11, <2>1, <2>7, ZenonT(90)
    <3> QED
      BY <3>1, <3>2, <3>3, SMTT(90)
  <2>10. m.field = EmbeddedField(F, Zero, lost)
    BY <1>8, <2>1, <2>6, <2>9, LeftOfField, SMTT(90)
  <2> QED
    BY <2>4, <2>10, Zenon
<1>13. ASSUME s.proto # "icmp" PROVE m.tc = s.l4.tc /\ ~EmbeddedEcho(i) /\ i.nh = s.proto
  <2>1. i.nh = s.proto
    BY <1>3, <1>4, <1>13, Zenon
  <2>2. ~EmbeddedEcho(i)
    BY <1>2, <2>1, Zenon DEF EmbeddedEcho
  <2>3. Transport6Of(s).tc = s.l4.tc
    BY <1>2, <1>13, Transport6Is, Zenon
  <2> QED
    BY <1>3, <1>4, <1>7, <2>1, <2>2, <2>3, Zenon DEF EmbeddedAs
<1>14. ASSUME s.proto # "icmp", HasField(s.proto, m)
       PROVE  s.proto \in {"tcp", "udp"} /\ HasField(i.nh, i.l4)
  BY <1>2, <1>8, <1>13, <1>14, ZenonT(90) DEF HasField, CsumEnd
<1>15. ASSUME s.proto # "icmp", First(s), HasField(s.proto, m), ~m.part
       PROVE  m.field = EmbeddedField(F, Zero, lost)
  <2>1. s.proto \in {"tcp", "udp"} /\ HasField(i.nh, i.l4) /\ ~EmbeddedEcho(i) /\ i.nh = s.proto
    BY <1>13, <1>14, <1>15, Zenon
  <2>2. ~a.l4.part
    BY <1>5, <1>9, <1>15, Zenon
  <2>3. /\ IsForm(F) /\ a.l4.field # Zero
        /\ \A t : Coef(a.l4.field, t) = Coef(F, t) + Coef(A4, t) - Coef(A6, t)
    BY <1>1, <1>2, <1>15, <2>1, <2>2, AboutField, Zenon DEF F, A4, A6
  <2>4. Rewrites(i)
    <3>1. First(i)
      BY <1>3, <1>4, <1>15, Zenon DEF First, IsFrag
    <3> QED
      BY <1>4, <2>1, <2>3, <3>1, Zenon DEF Rewrites
  <2>5. \A t : Coef(F, t) \in Int
    BY <2>3, CoefOf, Zenon
  <2>6. \A t : Coef(m.field, t) = Coef(a.l4.field, t) + Coef(A6, t) - Coef(A4, t)
                                  - Coef(Carry(lost), t)
    BY <1>4, <1>7, <2>1, <2>4, Zenon DEF EmbeddedAs
  <2>7. \A t : Coef(m.field, t) = Coef(F, t) - Coef(Carry(lost), t)
    BY <1>11, <2>3, <2>5, <2>6, SMTT(90)
  <2> QED
    BY <1>8, <2>3, <2>7, LeftOfField, SMTT(90)
<1>16. ASSUME s.proto # "icmp", ~First(s), HasField(s.proto, m), ~m.part
       PROVE  m.field = EmbeddedField(F, Zero, FALSE)
  <2>1. ~First(i) /\ ~EmbeddedEcho(i)
    BY <1>3, <1>4, <1>13, <1>16, Zenon DEF First, IsFrag
  <2>2. m = i.l4
    BY <1>7, <2>1, Zenon DEF EmbeddedAs, Rewrites
  <2>3. q.l4 = s.l4
    BY <1>2, <1>16, LeftIs, PlainIs, Zenon
  <2>4. ~q.l4.part
    BY <1>2, <1>16, <2>3, Zenon DEF IsPodFrame4
  <2>5. a.l4 = s.l4
    BY <1>2, <2>3, <2>4, Zenon DEF Completed
  <2>6. F = s.l4.field
    BY <1>16 DEF F, OriginalField
  <2>7. m.field = F /\ IsForm(F)
    BY <1>4, <1>8, <2>2, <2>5, <2>6, ZenonT(90)
  <2>8. \A b : ~b => m.field = EmbeddedField(F, Zero, b)
    <3> SUFFICES ASSUME NEW b, ~b PROVE m.field = EmbeddedField(F, Zero, b)
      OBVIOUS
    <3>1. Carry(b) = Zero
      BY DEF Carry
    <3>2. \A t : Coef(F, t) \in Int /\ Coef(Carry(b), t) = 0
      BY <2>7, <3>1, ZeroIs, CoefOf, Zenon
    <3>3. \A t : Coef(m.field, t) = Coef(F, t) - Coef(Carry(b), t)
      BY <2>7, <3>2
    <3> QED
      BY <1>8, <2>7, <3>3, LeftOfField, SMTT(90)
  <2> QED
    BY <2>8, Zenon
<1> QED
  BY <1>12, <1>13, <1>15, <1>16, Zenon

(* The total length of the quoted packet. *)
LEMMA LengthBack ==
  ASSUME NEW s, IsPodFrame4(s), PassesEgress(s), NEW i, i.frag = s.frag, i.plen = Payload6(s)
  PROVE  EmbeddedTotLen(i) = s.tot_len - optlen(s)
<1> DEFINE x == s.tot_len - s.hl
           y == x + IP4_HLEN
<1>1. s.hl \in Nat /\ s.tot_len \in Nat /\ s.tot_len < U16
  BY EgressHeader, Zenon
<1>2. IP4_HLEN <= s.hl /\ s.hl <= s.tot_len
  BY EgressHeader, Zenon
<1>3. Fr(s) \in {0, 8} /\ Fr(i) = Fr(s)
  BY Zenon DEF Fr, FRAG_HLEN, IsFrag
<1>4. /\ x \in Nat /\ x + Fr(s) \in Nat /\ x + Fr(s) < U16 /\ y \in Nat /\ y < U16
  BY <1>1, <1>2, <1>3, U16Nat DEF IP4_HLEN
<1>5. Payload6(s) = (x + Fr(s)) % U16
  BY Zenon DEF Payload6, Fr, l4len
<1>6. (x + Fr(s)) % U16 = x + Fr(s) /\ y % U16 = y
  BY <1>4, U16Mod, Zenon
<1>7. payload_len(i) = i.plen - Fr(i)
  BY Zenon DEF payload_len, Fr
<1> HIDE DEF x
<1>8. payload_len(i) = x
  BY <1>3, <1>4, <1>5, <1>6, <1>7
<1>9. EmbeddedTotLen(i) = y
  BY <1>6, <1>8, Zenon DEF EmbeddedTotLen
<1> QED
  BY <1>1, <1>9 DEF x, optlen, IP4_HLEN

LEMMA ArrivedQuotes ==
  ASSUME NEW s, NEW q, NEW a, NEW src, NEW k, NEW c, NEW p, Arrives(s, q, a, src, k, c, p),
         NEW lost \in BOOLEAN, lost => "carry" \in Faults
  PROVE  LET i == QuoteOf(a, c)
         IN Quotes([Embedded4(i) EXCEPT !.l4 = EmbeddedTransport4(i, lost)], s)
<1> DEFINE i == QuoteOf(a, c)
           m == EmbeddedTransport4(i, lost)
           q4 == [Embedded4(i) EXCEPT !.l4 = m]
           F == OriginalField(s)
<1>1. About(s, q, a) /\ c \in Nat
  BY NetworkAssumption DEF Arrives
<1>2. /\ IsPodFrame4(s) /\ PassesEgress(s) /\ s.eth = "ip4" /\ s.proto # "icmp6" /\ s.src = Pod4
  BY <1>1, PassedHeader4, Zenon DEF About, Left, IsPodFrame4, PassesEgress
<1>3. /\ IsPacket6(a) /\ a.dst = Mapped(s.dst) /\ a.frag = s.frag /\ IsFragment(a.frag)
      /\ a.plen = Payload6(s) /\ a.nh = (IF s.proto = "icmp" THEN "icmp6" ELSE s.proto)
  BY <1>1, AboutIs, ZenonT(90)
<1>4. /\ IsPacket6(i) /\ i.plen = a.plen /\ i.frag = a.frag /\ i.nh = a.nh /\ i.dst = a.dst
  BY <1>1, <1>3, QuoteIs
<1>5. /\ m.tc = s.l4.tc /\ m.info = s.l4.info
      /\ HasField(s.proto, m) /\ ~m.part =>
           \E b \in BOOLEAN : (b => lost) /\ m.field = EmbeddedField(F, Zero, b)
  BY TransportBack
<1> HIDE DEF i
<1>6. /\ q4.tot_len = EmbeddedTotLen(i) /\ q4.frag = i.frag /\ q4.src = Pod4
      /\ q4.dst = i.dst.host /\ q4.l4 = m
      /\ q4.proto = (IF i.nh = "icmp6" THEN "icmp" ELSE i.nh)
  BY <1>3, <1>4, QuoteTranslated, ZenonT(90)
<1> HIDE DEF m, q4, F
<1>7. q4.proto = s.proto /\ q4.dst = s.dst
  BY <1>2, <1>3, <1>4, <1>6, SMTT(90) DEF Mapped
<1>8. q4.tot_len = s.tot_len - optlen(s)
  BY <1>2, <1>3, <1>4, <1>6, LengthBack, Zenon
<1>9. HasField(q4.proto, q4.l4) /\ ~q4.l4.part =>
        \E b \in BOOLEAN : (b => "carry" \in Faults) /\ q4.l4.field = EmbeddedField(F, Zero, b)
  BY <1>5, <1>6, <1>7, Zenon
<1>10. /\ q4.src = s.src /\ q4.frag = s.frag /\ q4.l4.tc = s.l4.tc /\ q4.l4.info = s.l4.info
  BY <1>2, <1>3, <1>4, <1>5, <1>6, Zenon
<1>11. Quotes(q4, s)
  BY <1>2, <1>7, <1>8, <1>9, <1>10, Zenon DEF Quotes, F
<1> QED
  BY <1>11, Zenon DEF q4, m, i

(* The packet quoted by an error the pod receives is one it sent: same     *)
(* addresses, protocol, fragment, length without options, same transport   *)
(* header, and the checksum it sent or would have sent, up to the carry    *)
(* that the 32-bit addition of clat_ingress may lose.                      *)
THEOREM QuotesAreSent == Spec => []QuoteIsSent
<1>1. ASSUME FlowInv, Changed("ingress"), Is.l4.q # <<>>
      PROVE  \E s \in sent : Quotes(Is.l4.q[1], s)
  <2> DEFINE p == Was
             r == Is
  <2>1. PICK lost \in BOOLEAN : (lost => "carry" \in Faults) /\ r = Packet4Of(p, lost)
    BY <1>1, IngressRan, Zenon
  <2>2. \/ \E s, q, n, f : Replied(s, q, n, f, p)
        \/ \E s, q, a, src, k, c : Arrives(s, q, a, src, k, c, p)
    BY <1>1, IngressCases, Zenon
  <2>3. r.l4.q # <<>>
    BY <1>1
  <2> HIDE DEF p, r
  <2> DEFINE z == Packet4Of(p, lost)
  <2>4. ~ \E s, q, n, f : Replied(s, q, n, f, p)
    <3> SUFFICES ASSUME NEW s, NEW q, NEW n, NEW f, Replied(s, q, n, f, p)
                 PROVE  FALSE
      BY ZenonT(90)
    <3>1. z.l4.q = <<>>
      BY RepliedIs
    <3> QED
      BY <2>1, <2>3, <3>1, Zenon
  <2>5. PICK s, q, a, src, k, c : Arrives(s, q, a, src, k, c, p)
    BY <2>2, <2>4, Zenon
  <2> DEFINE i == QuoteOf(a, c)
             q4 == [Embedded4(i) EXCEPT !.l4 = EmbeddedTransport4(i, lost)]
  <2>6. z.l4.q = << q4 >>
    BY <2>5, ArrivedIs
  <2>7. Quotes(q4, s)
    BY <2>1, <2>5, ArrivedQuotes, Zenon
  <2>8. s \in sent
    BY <2>5 DEF Arrives, About
  <2> HIDE DEF q4
  <2>9. z.l4.q[1] = q4
    BY <2>6, SMTT(90)
  <2> QED
    BY <2>1, <2>7, <2>8, <2>9, Zenon DEF r
<1>2. FlowInv => QuoteIsSent
  BY <1>1, Zenon DEF QuoteIsSent
<1> QED
  BY <1>2, FlowAlways, PTL

-----------------------------------------------------------------------------
(* Path MTU discovery, for any link and path MTUs, any sizes and any       *)
(* number of changes of the path.                                          *)

(* The inductive invariant.  The two properties need the bounds of what is *)
(* under way: an error never reports less than the narrowest path so far,  *)
(* and a flow of segments never causes an error about a fragment.          *)
MtuTyped ==
  /\ link \in LinkMTUs /\ path \in PathMTUs /\ flow \in Flows /\ want \in Sizes
  /\ pmtu \in Int /\ low \in 1280..(U16 - 1)
Bounds ==
  /\ pmtu <= RouteMTU(link)
  /\ low <= path
ErrorsBounded ==
  \A e \in errs : /\ e[1] \in low..(U16 - 1)
                  /\ e[2] \in BOOLEAN
                  /\ flow = "segments" => e[2] = FALSE
WireBounded ==
  \A f \in wire : /\ f[2] \in BOOLEAN
                  /\ flow = "segments" => f[2] = FALSE /\ f[1] <= link
MtuInv == MtuTyped /\ Bounds /\ ErrorsBounded /\ WireBounded /\ EstimateTight

(* The MTU clat_ingress reports (clat.c:848-856) fits 16 bits, is at least *)
(* the 68 bytes IPv4 asks for, and is what the Packet Too Big says less    *)
(* what translation adds, for every MTU an IPv6 link can have.             *)
LEMMA Mtu4Exact ==
  ASSUME NEW mtu \in Nat, NEW f \in BOOLEAN
  PROVE  /\ Mtu4(mtu, f) \in 68..(U16 - 21)
         /\ mtu \in 1280..(U16 - 1) => Mtu4(mtu, f) = mtu - 20 - (IF f THEN 8 ELSE 0)
<1>1. CASE f = TRUE
  BY <1>1, U16Nat DEF Mtu4, Min2, IP6_HLEN, IP4_HLEN, FRAG_HLEN
<1>2. CASE f = FALSE
  BY <1>2, U16Nat DEF Mtu4, Min2, IP6_HLEN, IP4_HLEN, FRAG_HLEN
<1>3. QED
  BY <1>1, <1>2, Zenon

(* What clat_egress makes of a segment is 20 bytes longer. *)
LEMMA SegmentLength ==
  ASSUME NEW n \in 20..(U16 - 1)
  PROVE  Length6(<<n, FALSE>>) = n + 20
<1>1. Length6(<<n, FALSE>>) = 40 + ((n - 20 + 0) % U16)
  BY DEF Length6, Payload6, l4len, IsFrag, IP6_HLEN, IP4_HLEN, FRAG_HLEN
<1>2. (n - 20) % U16 = n - 20
  BY U16Nat, U16Mod
<1>3. QED
  BY <1>1, <1>2

LEMMA InitMtuInv == MtuInit => MtuInv
  BY MtuAssumption, U16Nat
  DEF MtuInit, MtuInv, MtuTyped, Bounds, ErrorsBounded, WireBounded, EstimateTight,
      RouteMTU, Min2

LEMMA SendMtuInv == MtuInv /\ Send => MtuInv'
<1> SUFFICES ASSUME MtuInv, Send PROVE MtuInv'
  OBVIOUS
<1>1. UNCHANGED <<link, path, flow, want, pmtu, errs, low>>
  BY DEF Send
<1>2. MtuTyped' /\ Bounds' /\ ErrorsBounded' /\ EstimateTight'
  BY <1>1 DEF MtuInv, MtuTyped, Bounds, ErrorsBounded, EstimateTight, RouteMTU
<1>3. WireBounded'
  <2> SUFFICES ASSUME NEW f \in wire'
               PROVE  /\ f[2] \in BOOLEAN
                      /\ flow = "segments" => f[2] = FALSE /\ f[1] <= link
    BY <1>1, Zenon DEF WireBounded
  <2>1. PICK s \in Sent4(pmtu) : f = <<Length6(s), s[2]>>
    BY DEF Send
  <2>2. s[2] \in BOOLEAN
    <3>1. CASE flow = "segments" \/ want <= pmtu - IP4_HLEN
      <4>1. \E n : s = <<n, FALSE>>
        BY <3>1, Zenon DEF Sent4
      <4>2. QED
        BY <4>1
    <3>2. CASE ~(flow = "segments" \/ want <= pmtu - IP4_HLEN)
      <4>1. \E n : s = <<n, TRUE>>
        BY <3>2, Zenon DEF Sent4
      <4>2. QED
        BY <4>1
    <3>3. QED
      BY <3>1, <3>2, Zenon
  <2>3. CASE flow = "segments"
    <3>1. s = <<20 + Min2(want, pmtu - 20), FALSE>>
      BY <2>3, <2>1, Zenon DEF Sent4, IP4_HLEN
    <3>2. 20 + Min2(want, pmtu - 20) \in 20..(U16 - 1) /\ 20 + Min2(want, pmtu - 20) <= link - 20
      BY MtuAssumption, U16Nat DEF MtuInv, MtuTyped, Bounds, EstimateTight, RouteMTU, Min2
    <3>3. Length6(s) = 20 + Min2(want, pmtu - 20) + 20
      BY <3>1, <3>2, SegmentLength, Zenon
    <3>4. QED
      BY <2>1, <3>1, <3>2, <3>3, MtuAssumption, U16Nat DEF MtuInv, MtuTyped, Min2
  <2>4. QED
    BY <2>1, <2>2, <2>3, Zenon
<1>4. QED
  BY <1>2, <1>3 DEF MtuInv

LEMMA TravelMtuInv == MtuInv /\ Travel => MtuInv'
<1> SUFFICES ASSUME MtuInv, Travel PROVE MtuInv'
  OBVIOUS
<1>1. UNCHANGED <<link, path, flow, want, pmtu, low>> /\ wire' = {}
  BY DEF Travel
<1>2. MtuTyped' /\ Bounds' /\ WireBounded' /\ EstimateTight'
  BY <1>1 DEF MtuInv, MtuTyped, Bounds, WireBounded, EstimateTight, RouteMTU
<1>3. path \in low..(U16 - 1)
  BY MtuAssumption, U16Nat DEF MtuInv, MtuTyped, Bounds
<1>4. \A e \in errs' : e \in errs \/ \E f \in wire : e = <<path, f[2]>>
  BY DEF Travel
<1>5. ErrorsBounded'
  BY <1>1, <1>3, <1>4 DEF MtuInv, ErrorsBounded, WireBounded
<1>6. QED
  BY <1>2, <1>5, Zenon DEF MtuInv

LEMMA LearnMtuInv == ASSUME NEW e \in errs PROVE MtuInv /\ Learn(e) => MtuInv'
<1> SUFFICES ASSUME MtuInv, Learn(e) PROVE MtuInv'
  OBVIOUS
<1>1. UNCHANGED <<link, path, flow, want, wire, low>> /\ errs' \subseteq errs
  BY DEF Learn
<1>2. e[1] \in 1280..(U16 - 1) /\ e[2] \in BOOLEAN /\ e[1] >= low
      /\ (flow = "segments" => e[2] = FALSE)
  BY DEF MtuInv, MtuTyped, ErrorsBounded
<1>3. Mtu4(e[1], e[2]) = e[1] - 20 - (IF e[2] THEN 8 ELSE 0)
  BY <1>2, Mtu4Exact
<1>4. pmtu' = Min2(pmtu, e[1] - 20 - (IF e[2] THEN 8 ELSE 0))
  BY <1>3 DEF Learn
<1>5. flow = "segments" \/ flow = "datagram"
  BY MtuAssumption, U16Nat DEF MtuInv, MtuTyped
<1>6. pmtu' \in Int /\ pmtu' <= pmtu
      /\ (pmtu' = pmtu \/ pmtu' >= low - 20 - (IF flow = "datagram" THEN 8 ELSE 0))
  BY <1>2, <1>4, <1>5 DEF Min2, MtuInv, MtuTyped
<1>7. MtuTyped' /\ Bounds'
  BY <1>1, <1>6, MtuAssumption, U16Nat DEF MtuInv, MtuTyped, Bounds, RouteMTU
<1>8. ErrorsBounded' /\ WireBounded'
  BY <1>1, Zenon DEF MtuInv, ErrorsBounded, WireBounded
<1>9. EstimateTight'
  BY <1>1, <1>6, MtuAssumption, U16Nat DEF MtuInv, MtuTyped, EstimateTight, RouteMTU, Min2
<1>10. QED
  BY <1>7, <1>8, <1>9, Zenon DEF MtuInv

LEMMA MinMono ==
  ASSUME NEW p \in Int, NEW l \in Int, NEW n \in Int, NEW k \in Int, NEW d \in Int,
         p >= Min2(l - 20, n - 20 - d), k <= n
  PROVE  p >= Min2(l - 20, k - 20 - d)
  BY DEF Min2

LEMMA PathChangesMtuInv == MtuInv /\ PathChanges => MtuInv'
<1> SUFFICES ASSUME MtuInv, PathChanges PROVE MtuInv'
  OBVIOUS
<1>1. UNCHANGED <<link, flow, want, pmtu, wire, errs>>
  BY DEF PathChanges
<1>2. path' \in PathMTUs /\ path' \in 1280..(U16 - 1) /\ link \in 1280..(U16 - 1)
  BY MtuAssumption, U16Nat DEF PathChanges, MtuInv, MtuTyped
<1>3. low' \in 1280..(U16 - 1) /\ low' <= low /\ low' <= path'
  BY <1>2 DEF PathChanges, MtuInv, MtuTyped, Min2
<1>4. MtuTyped' /\ Bounds'
  BY <1>1, <1>2, <1>3 DEF MtuInv, MtuTyped, Bounds
<1>5. ErrorsBounded' /\ WireBounded'
  BY <1>1, <1>3 DEF MtuInv, MtuTyped, ErrorsBounded, WireBounded
<1>6. EstimateTight'
  <2>1. PICK d \in Int : d = IF flow = "datagram" THEN 8 ELSE 0
    OBVIOUS
  <2>2. pmtu >= Min2(link - 20, low - 20 - d)
    BY <2>1, Zenon DEF MtuInv, EstimateTight, RouteMTU
  <2>3. pmtu \in Int /\ link \in Int /\ low \in Int /\ low' \in Int /\ low' <= low
    BY <1>2, <1>3, U16Nat DEF MtuInv, MtuTyped
  <2>4. pmtu >= Min2(link - 20, low' - 20 - d)
    BY <2>2, <2>3, MinMono, Zenon
  <2>5. QED
    BY <1>1, <2>1, <2>4, Zenon DEF EstimateTight, RouteMTU
<1>7. QED
  BY <1>4, <1>5, <1>6, Zenon DEF MtuInv

LEMMA ExpireMtuInv == MtuInv /\ Expire => MtuInv'
<1> SUFFICES ASSUME MtuInv, Expire PROVE MtuInv'
  OBVIOUS
<1>1. UNCHANGED <<link, path, flow, want, wire, errs, low>> /\ pmtu' = RouteMTU(link)
  BY DEF Expire
<1>2. ErrorsBounded' /\ WireBounded'
  BY <1>1, Zenon DEF MtuInv, ErrorsBounded, WireBounded
<1>3. MtuTyped' /\ Bounds' /\ EstimateTight'
  BY <1>1, MtuAssumption, U16Nat DEF MtuInv, MtuTyped, Bounds, EstimateTight, RouteMTU, Min2
<1>4. QED
  BY <1>2, <1>3, Zenon DEF MtuInv

LEMMA StepMtuInv == MtuInv /\ [MtuNext]_mtuvars => MtuInv'
<1> SUFFICES ASSUME MtuInv, [MtuNext]_mtuvars PROVE MtuInv'
  BY Zenon
<1>1. CASE \E e \in errs : Lose(e)
  <2>1. UNCHANGED <<link, path, flow, want, pmtu, wire, low>> /\ errs' \subseteq errs
    BY <1>1, Zenon DEF Lose
  <2>2. QED
    BY <2>1 DEF MtuInv, MtuTyped, Bounds, ErrorsBounded, WireBounded, EstimateTight, RouteMTU
<1>2. CASE UNCHANGED mtuvars
  BY <1>2 DEF mtuvars, MtuInv, MtuTyped, Bounds, ErrorsBounded, WireBounded, EstimateTight, RouteMTU
<1>3. QED
  BY <1>1, <1>2, SendMtuInv, TravelMtuInv, LearnMtuInv, PathChangesMtuInv, ExpireMtuInv, Zenon DEF MtuNext

(* The MTU the pod believes in never falls below what translation makes    *)
(* necessary on the narrowest path so far (clat.c:848-856).                *)
THEOREM EstimateIsTight == MtuSpec => []EstimateTight
<1>1. MtuInv => EstimateTight
  BY Zenon DEF MtuInv
<1>2. QED
  BY InitMtuInv, StepMtuInv, <1>1, PTL DEF MtuSpec

(* TCP segments sent with the route MTU the plugin installs, or any the    *)
(* pod learns, fit the link after translation (netns.go:59-62).            *)
THEOREM SegmentsFit == MtuSpec => []SegmentsFitLink
<1>1. MtuInv => SegmentsFitLink
  BY DEF MtuInv, WireBounded, SegmentsFitLink
<1>2. QED
  BY InitMtuInv, StepMtuInv, <1>1, PTL DEF MtuSpec

-----------------------------------------------------------------------------
INSTANCE SumTheorems

(* The counters.  CountedOnce is about a sum, and needs to know that every *)
(* counter is a number.                                                    *)
CountInv ==
  /\ cnt = [c \in Counters |-> cnt[c]] /\ \A c \in Counters : cnt[c] \in Int
  /\ own \in Int /\ SumOf(cnt, Counters) = own

LEMMA CountersFinite == IsFiniteSet(Counters)
<1>1. ASSUME NEW a, NEW b, NEW c, NEW d, NEW e PROVE IsFiniteSet({a, b, c, d, e})
  <2>1. IsFiniteSet({a} \cup {b})
    BY FS_Singleton, FS_Union, Zenon
  <2>2. IsFiniteSet(({a} \cup {b}) \cup {c})
    BY <2>1, FS_Singleton, FS_Union, Zenon
  <2>3. IsFiniteSet({d} \cup {e})
    BY FS_Singleton, FS_Union, Zenon
  <2>4. IsFiniteSet((({a} \cup {b}) \cup {c}) \cup ({d} \cup {e}))
    BY <2>2, <2>3, FS_Union, ZenonT(90)
  <2>5. (({a} \cup {b}) \cup {c}) \cup ({d} \cup {e}) = {a, b, c, d, e}
    OBVIOUS
  <2> QED
    BY <2>4, <2>5, Zenon
<1> DEFINE E1 == {"EGRESS_TRANSLATED", "EGRESS_DROP_TRUNCATED", "EGRESS_DROP_BAD_SRC",
                  "EGRESS_DROP_MCAST", "EGRESS_DROP_SRCROUTE"}
           E2 == {"EGRESS_DROP_FRAG_NO_CSUM", "EGRESS_DROP_ICMP_UNSUPPORTED",
                  "EGRESS_DROP_TOO_BIG", "EGRESS_DROP_HELPER", "EGRESS_DROP_HELPER"}
           I1 == {"INGRESS_TRANSLATED", "INGRESS_DROP_TRUNCATED", "INGRESS_DROP_EXTHDR",
                  "INGRESS_DROP_UDP_ZERO_CSUM", "INGRESS_DROP_FRAG_ICMP"}
           I2 == {"INGRESS_DROP_ICMP_UNSUPPORTED", "INGRESS_DROP_ICMP_INNER",
                  "INGRESS_DROP_HELPER", "INGRESS_DROP_HELPER", "INGRESS_DROP_HELPER"}
<1>2. IsFiniteSet(E1) /\ IsFiniteSet(E2) /\ IsFiniteSet(I1) /\ IsFiniteSet(I2)
  BY <1>1, Zenon
<1>3. Counters = (E1 \cup E2) \cup (I1 \cup I2)
  BY DEF Counters, EgressCounters, IngressCounters
<1> HIDE DEF E1, E2, I1, I2
<1> QED
  BY <1>2, <1>3, FS_Union, ZenonT(90)

LEMMA CountIsSum ==
  ASSUME CountInv
  PROVE  CountedOnce
<1>1. DOMAIN cnt = Counters
  BY DEF CountInv
<1>2. FoldFunction(LAMBDA a, b : a + b, 0, cnt) = SumOf(cnt, DOMAIN cnt)
  BY Zenon DEF SumOf, FoldFunction, FoldFunctionOnSet, MapThenFoldSet, Pick, IsIter
<1> QED
  BY <1>1, <1>2, Zenon DEF CountInv, CountedOnce

(* A run that counts, counts once.                                         *)
LEMMA RunCounts ==
  ASSUME CountInv, NEW hook, NEW p, NEW o, NEW mine \in BOOLEAN, Run(hook, p, o, mine),
         o.counter \in Counters \cup {"none"},
         o.counter # "none" <=> mine /\ (o.act # "ok" \/ o.pkt # <<p>>)
  PROVE  CountInv'
<1>1. "none" \notin Counters
  BY Zenon DEF Counters, EgressCounters, IngressCounters
<1>2. CASE o.counter = "none"
  BY <1>2 DEF CountInv, Run, Count
<1>3. CASE o.counter # "none"
  <2>1. cnt' = [cnt EXCEPT ![o.counter] = @ + 1] /\ own' = own + 1 /\ o.counter \in Counters
    BY <1>3, Zenon DEF Run, Count
  <2>2. Differs(cnt', cnt, Counters, o.counter, 1)
    BY <2>1, Zenon DEF CountInv, Differs
  <2>3. SumOf(cnt', Counters) = SumOf(cnt, Counters) + 1
    <3>1. SumOf(cnt', Counters) = SumOf(cnt, Counters) + (IF o.counter \in Counters THEN 1 ELSE 0)
      BY <2>2, CountersFinite, SumChange, SMTT(90)
    <3> QED
      BY <2>1, <3>1, ZenonT(90)
  <2>4. cnt' = [c \in Counters |-> cnt'[c]] /\ \A c \in Counters : cnt'[c] \in Int
    BY <2>1, <2>2, SMTT(90) DEF CountInv, Differs
  <2> QED
    BY <2>1, <2>3, <2>4, SMTT(90) DEF CountInv
<1> QED
  BY <1>2, <1>3, Zenon

LEMMA EgressCounts ==
  ASSUME CountInv, NEW p, PodSends(p)
  PROVE  CountInv'
<1>1. PICK o \in clat_egress(p) : Run("egress", p, o, p.eth = "ip4")
  BY Zenon DEF PodSends
<1>2. PassesEgress(p) => p.eth = "ip4" /\ << Packet6Of(p) >> # <<p>>
  <2>1. Packet6Of(p).eth = "ip6"
    BY Zenon DEF Packet6Of
  <2> QED
    BY <2>1, Zenon DEF PassesEgress
<1>3. \A c \in EgressCounters : c # "none" /\ c \in Counters
  BY DEF Counters, EgressCounters
<1>4. /\ o.counter \in Counters \cup {"none"}
      /\ o.counter # "none" <=> p.eth = "ip4" /\ (o.act # "ok" \/ o.pkt # <<p>>)
  <2>1. CASE p.eth # "ip4" /\ o = Pass(p)
    BY <2>1, Zenon DEF Pass
  <2>2. CASE p.eth = "ip4" /\ \E c \in EgressCounters : o = DROP(c)
    <3>1. PICK c \in EgressCounters : o = DROP(c)
      BY <2>2, Zenon
    <3>2. o.counter = c /\ o.act # "ok"
      BY <3>1, Zenon DEF DROP
    <3> QED
      BY <1>3, <2>2, <3>2, ZenonT(90)
  <2>3. CASE PassesEgress(p) /\ o = Translated("EGRESS_TRANSLATED", Packet6Of(p))
    <3>1. o.counter = "EGRESS_TRANSLATED" /\ o.pkt = << Packet6Of(p) >>
      BY <2>3, Zenon DEF Translated
    <3>2. "EGRESS_TRANSLATED" \in EgressCounters
      BY DEF EgressCounters
    <3> QED
      BY <1>2, <1>3, <2>3, <3>1, <3>2, ZenonT(90)
  <2> QED
    BY <2>1, <2>2, <2>3, EgressOutcome, ZenonT(90)
<1> QED
  BY <1>1, <1>4, RunCounts, ZenonT(90)

LEMMA AnswerIsIp4 ==
  ASSUME FlowInv, NEW p, Comes(p), PassesIngress(p), NEW lost
  PROVE  Packet4Of(p, lost).eth = "ip4"
<1>1. ASSUME NEW s, NEW q, NEW n, NEW f, Replied(s, q, n, f, p)
      PROVE  Packet4Of(p, lost).eth = "ip4"
  BY <1>1, RepliedIs
<1>2. ASSUME NEW s, NEW q, NEW a, NEW src, NEW k, NEW c, Arrives(s, q, a, src, k, c, p)
      PROVE  Packet4Of(p, lost).eth = "ip4"
  <2> DEFINE r == Packet4Of(p, lost)
             i == QuoteOf(a, c)
             q4 == [Embedded4(i) EXCEPT !.l4 = EmbeddedTransport4(i, lost)]
  <2>1. r.eth = "ip4" /\ r.l4.q = << q4 >>
    BY <1>2, ArrivedIs
  <2> QED
    BY <2>1, ZenonT(90)
<1> QED
  BY <1>1, <1>2, AnswerCases, ZenonT(90)

LEMMA IngressCounts ==
  ASSUME FlowInv, CountInv, NEW p, Comes(p), PodReceives(p)
  PROVE  CountInv'
<1> DEFINE mine == ClatFlow(p) /\ p.len >= IP6_HLEN + FRAG_HLEN
<1>1. PICK o \in clat_ingress(p) : Run("ingress", p, o, mine)
  BY DEF PodReceives
<1>2. ReturnTraffic(p) <=> mine
  BY ReturnTrafficIs, Zenon
<1>3. mine \in BOOLEAN
  BY Zenon DEF ClatFlow
<1> HIDE DEF mine
<1>4. \A c \in IngressCounters : c # "none" /\ c \in Counters
  BY DEF Counters, IngressCounters
<1>5. ASSUME PassesIngress(p), NEW lost, lost \in BOOLEAN, lost => "carry" \in Faults
      PROVE  << Packet4Of(p, lost) >> # <<p>>
  <2>1. p.eth = "ip6"
    BY <1>5, Zenon DEF PassesIngress, ReturnTraffic
  <2>2. Packet4Of(p, lost).eth = "ip4"
    BY <1>5, AnswerIsIp4, ZenonT(90)
  <2> QED
    BY <2>1, <2>2, ZenonT(90)
<1>6. /\ o.counter \in Counters \cup {"none"}
      /\ o.counter # "none" <=> mine /\ (o.act # "ok" \/ o.pkt # <<p>>)
  <2>1. CASE ~ReturnTraffic(p) /\ o = Pass(p)
    BY <1>2, <2>1, Zenon DEF Pass
  <2>2. CASE ReturnTraffic(p) /\ o = Unread(p)
    BY <2>2, Zenon DEF Unread
  <2>3. CASE ReturnTraffic(p) /\ \E c \in IngressCounters : o = DROP(c)
    <3>1. PICK c \in IngressCounters : o = DROP(c)
      BY <2>3, Zenon
    <3>2. o.counter = c /\ o.act # "ok"
      BY <3>1, Zenon DEF DROP
    <3> QED
      BY <1>2, <1>4, <2>3, <3>2, Zenon
  <2>4. CASE /\ PassesIngress(p)
             /\ \E lost \in BOOLEAN : /\ lost => "carry" \in Faults
                                      /\ o = Translated("INGRESS_TRANSLATED", Packet4Of(p, lost))
    <3>1. o.counter = "INGRESS_TRANSLATED" /\ o.pkt # <<p>>
      <4>1. PICK lost \in BOOLEAN : /\ lost => "carry" \in Faults
                                    /\ o = Translated("INGRESS_TRANSLATED", Packet4Of(p, lost))
        BY <2>4
      <4>2. o.counter = "INGRESS_TRANSLATED" /\ o.pkt = << Packet4Of(p, lost) >>
        BY <4>1, Zenon DEF Translated
      <4> QED
        BY <1>5, <2>4, <4>1, <4>2, ZenonT(90)
    <3>2. "INGRESS_TRANSLATED" \in IngressCounters /\ ReturnTraffic(p)
      BY <2>4, Zenon DEF IngressCounters, PassesIngress
    <3> QED
      BY <1>2, <1>4, <3>1, <3>2, ZenonT(90)
  <2> QED
    BY <2>1, <2>2, <2>3, <2>4, IngressOutcome, ZenonT(90)
<1> QED
  BY <1>1, <1>3, <1>6, RunCounts, ZenonT(90)

(* Every frame a program drops or translates is in exactly one counter,    *)
(* and no other frame is: the counters add up to the frames of CLAT flows  *)
(* that did not pass, however many frames are sent and whatever comes      *)
(* back.                                                                   *)
THEOREM EachFrameCounted == Spec => []CountedOnce
<1>1. Init => CountInv
  <2> SUFFICES ASSUME Init PROVE CountInv
    BY Zenon
  <2>1. cnt = [c \in Counters |-> 0] /\ own = 0
    BY Zenon DEF Init
  <2>2. SumOf(cnt, Counters) = 0
    BY <2>1, CountersFinite, SumZero, Zenon
  <2> QED
    BY <2>1, <2>2 DEF CountInv
<1>2. FlowInv /\ CountInv /\ [Next]_vars => CountInv'
  <2> SUFFICES ASSUME FlowInv, CountInv, [Next]_vars PROVE CountInv'
    OBVIOUS
  <2>1. CASE \E p \in PodFrames \cup Mixed : PodSends(p)
    BY <2>1, EgressCounts, Zenon
  <2>2. CASE \E p \in back : PodReceives(p)
    BY <2>2, IngressCounts, Zenon DEF FlowInv
  <2>3. CASE UNCHANGED <<own, cnt>>
    BY <2>3 DEF CountInv
  <2> QED
    BY <2>1, <2>2, <2>3, ZenonT(90) DEF Next, ServerAnswers, RouterAnswers, NativeArrives, vars
<1>3. CountInv => CountedOnce
  BY CountIsSum
<1> QED
  BY <1>1, <1>2, <1>3, FlowAlways, PTL DEF Spec
=============================================================================
