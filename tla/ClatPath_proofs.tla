-------------------------- MODULE ClatPath_proofs ---------------------------
(***************************************************************************)
(* Proofs about ClatPath: for any frames, addresses, lengths and errors.   *)
(***************************************************************************)
EXTENDS ClatPath, TLAPS

-----------------------------------------------------------------------------
(* Linear forms.  A form is known by its coefficients, and sums of forms   *)
(* are sums of coefficients.                                               *)

LEMMA CoefIs ==
  ASSUME NEW f, IsForm(f), NEW x \in f
  PROVE  Coef(f, x[1]) = x[2] /\ x[1] \in Terms(f)
<1>1. x[1] \in Terms(f)
  BY DEF Terms
<1>2. \A y \in f : y[1] = x[1] <=> y = x
  BY DEF IsForm
<1>3. (CHOOSE y \in f : y[1] = x[1]) = x
  BY <1>2
<1> QED
  BY <1>1, <1>3, Zenon DEF Coef

LEMMA CoefOf ==
  ASSUME NEW f, IsForm(f), NEW t
  PROVE  /\ Coef(f, t) \in Int
         /\ t \in Terms(f) <=> Coef(f, t) # 0
         /\ \A k : <<t, k>> \in f <=> t \in Terms(f) /\ k = Coef(f, t)
<1>1. CASE t \in Terms(f)
  <2>1. PICK x \in f : x[1] = t
    BY <1>1 DEF Terms
  <2>2. Coef(f, t) = x[2] /\ x = <<t, x[2]>> /\ x[2] \in Int \ {0}
    BY <2>1, CoefIs DEF IsForm
  <2>3. \A k : <<t, k>> \in f => <<t, k>> = x
    BY <2>1 DEF IsForm
  <2> QED
    BY <1>1, <2>2, <2>3
<1>2. CASE t \notin Terms(f)
  <2>1. Coef(f, t) = 0
    BY <1>2 DEF Coef
  <2>2. \A k : <<t, k>> \notin f
    BY <1>2 DEF Terms
  <2> QED
    BY <1>2, <2>1, <2>2
<1> QED
  BY <1>1, <1>2

LEMMA FormEqual ==
  ASSUME NEW f, IsForm(f), NEW g, IsForm(g), \A t : Coef(f, t) = Coef(g, t)
  PROVE  f = g
<1>1. ASSUME NEW x, x \in f PROVE x \in g
  <2>1. x = <<x[1], x[2]>> /\ Coef(f, x[1]) = x[2] /\ x[1] \in Terms(f)
    BY <1>1, CoefIs DEF IsForm
  <2>2. x[1] \in Terms(g) /\ Coef(g, x[1]) = x[2]
    BY <2>1, CoefOf
  <2> QED
    BY <2>1, <2>2, CoefOf
<1>2. ASSUME NEW x, x \in g PROVE x \in f
  <2>1. x = <<x[1], x[2]>> /\ Coef(g, x[1]) = x[2] /\ x[1] \in Terms(g)
    BY <1>2, CoefIs DEF IsForm
  <2>2. x[1] \in Terms(f) /\ Coef(f, x[1]) = x[2]
    BY <2>1, CoefOf
  <2> QED
    BY <2>1, <2>2, CoefOf
<1> QED
  BY <1>1, <1>2

LEMMA CombineIs ==
  ASSUME NEW f, IsForm(f), NEW g, IsForm(g), NEW k \in {1, -1}
  PROVE  /\ IsForm(Combine(f, k, g))
         /\ \A t : Coef(Combine(f, k, g), t) = Coef(f, t) + k * Coef(g, t)
<1> DEFINE c(t) == Coef(f, t) + k * Coef(g, t)
           C == {p \in {<<t, c(t)>> : t \in Terms(f) \cup Terms(g)} : p[2] # 0}
<1>1. \A t : c(t) \in Int /\ (t \notin Terms(f) \cup Terms(g) => c(t) = 0)
  BY CoefOf
<1>2. Combine(f, k, g) = C
  BY DEF Combine
<1> HIDE DEF c
<1>3. \A x : x \in C <=> \E t : x = <<t, c(t)>> /\ c(t) # 0
  BY <1>1
<1> HIDE DEF C
<1>4. IsForm(C)
  BY <1>1, <1>3 DEF IsForm
<1>5. ASSUME NEW t PROVE Coef(C, t) = c(t)
  <2>1. CASE c(t) # 0
    <3>1. <<t, c(t)>> \in C
      BY <1>3, <2>1
    <3> QED
      BY <1>4, <3>1, CoefOf
  <2>2. CASE c(t) = 0
    <3>1. t \notin Terms(C)
      BY <1>3, <2>2 DEF Terms
    <3> QED
      BY <2>2, <3>1 DEF Coef
  <2> QED
    BY <2>1, <2>2
<1> QED
  BY <1>2, <1>4, <1>5 DEF c

LEMMA PlusIs ==
  ASSUME NEW f, IsForm(f), NEW g, IsForm(g)
  PROVE  IsForm(Plus(f, g)) /\ \A t : Coef(Plus(f, g), t) = Coef(f, t) + Coef(g, t)
<1>1. \A t : Coef(g, t) \in Int
  BY CoefOf
<1>2. IsForm(Combine(f, 1, g)) /\ \A t : Coef(Combine(f, 1, g), t) = Coef(f, t) + 1 * Coef(g, t)
  BY CombineIs
<1> QED
  BY <1>1, <1>2 DEF Plus

LEMMA MinusIs ==
  ASSUME NEW f, IsForm(f), NEW g, IsForm(g)
  PROVE  IsForm(Minus(f, g)) /\ \A t : Coef(Minus(f, g), t) = Coef(f, t) - Coef(g, t)
<1>1. \A t : Coef(g, t) \in Int /\ Coef(f, t) \in Int
  BY CoefOf
<1>2. IsForm(Combine(f, -1, g)) /\ \A t : Coef(Combine(f, -1, g), t) = Coef(f, t) + (-1) * Coef(g, t)
  BY CombineIs
<1> QED
  BY <1>1, <1>2 DEF Minus

LEMMA ZeroIs == IsForm(Zero) /\ \A t : Coef(Zero, t) = 0
BY DEF Zero, IsForm, Coef, Terms

LEMMA SumIs ==
  ASSUME NEW S
  PROVE  IsForm(Sum(S)) /\ \A t : Coef(Sum(S), t) = IF t \in S THEN 1 ELSE 0
<1>1. IsForm(Sum(S))
  BY DEF Sum, IsForm
<1>2. ASSUME NEW t \in S PROVE Coef(Sum(S), t) = 1
  <2>1. <<t, 1>> \in Sum(S)
    BY DEF Sum
  <2> QED
    BY <1>1, <2>1, CoefOf
<1>3. ASSUME NEW t, t \notin S PROVE Coef(Sum(S), t) = 0
  BY <1>3 DEF Sum, Terms, Coef
<1> QED
  BY <1>1, <1>2, <1>3

LEMMA DiffIs ==
  ASSUME NEW f, IsForm(f), NEW g, IsForm(g), NEW s, IsForm(s)
  PROVE  /\ IsForm(bpf_csum_diff(f, g, s))
         /\ \A t : Coef(bpf_csum_diff(f, g, s), t) = Coef(s, t) - Coef(f, t) + Coef(g, t)
<1>1. IsForm(Minus(s, f)) /\ \A t : Coef(Minus(s, f), t) = Coef(s, t) - Coef(f, t)
  BY MinusIs
<1>2. /\ IsForm(Plus(Minus(s, f), g))
      /\ \A t : Coef(Plus(Minus(s, f), g), t) = Coef(Minus(s, f), t) + Coef(g, t)
  BY <1>1, PlusIs
<1> QED
  BY <1>1, <1>2 DEF bpf_csum_diff

(* The sums of which packets are made. *)
LEMMA PacketForms ==
  /\ \A a, b : IsForm(Addr4(a, b)) /\ IsForm(Addr6(a, b)) /\ IsForm(LenProto(a, b))
  /\ \A tc : IsForm(TypeWord(tc))
  /\ \A l4 : IsForm(OwnBytes(l4)) /\ IsForm(Payload(l4))
  /\ \A a, b, n, pr : IsForm(Pseudo4(a, b, n, pr)) /\ IsForm(Pseudo6(a, b, n, pr))
<1>1. \A a, b : IsForm(Addr4(a, b)) /\ IsForm(Addr6(a, b)) /\ IsForm(LenProto(a, b))
  BY SumIs DEF Addr4, Addr6, LenProto
<1>2. \A tc : IsForm(TypeWord(tc))
  BY SumIs DEF TypeWord
<1>3. \A l4 : IsForm(OwnBytes(l4)) /\ IsForm(Payload(l4))
  BY <1>2, SumIs, PlusIs DEF OwnBytes, Payload
<1>4. \A a, b, n, pr : IsForm(Pseudo6(a, b, n, pr))
  BY <1>1, PlusIs DEF Pseudo6
<1>5. \A a, b, n, pr : IsForm(Pseudo4(a, b, n, pr))
  BY <1>1, PlusIs, ZeroIs DEF Pseudo4
<1> QED
  BY <1>1, <1>2, <1>3, <1>4, <1>5

-----------------------------------------------------------------------------
(* Chains of early returns.                                                *)

LEMMA LeastIndex ==
  ASSUME NEW T \in SUBSET (1..6), T # {}
  PROVE  \E m \in T : \A n \in T : m <= n
<1>1. \A n \in T : n \in {1, 2, 3, 4, 5, 6}
  OBVIOUS
<1>2. CASE 1 \in T
  BY <1>1, <1>2
<1>3. CASE 1 \notin T /\ 2 \in T
  BY <1>1, <1>3
<1>4. CASE 1 \notin T /\ 2 \notin T /\ 3 \in T
  BY <1>1, <1>4
<1>5. CASE 1 \notin T /\ 2 \notin T /\ 3 \notin T /\ 4 \in T
  BY <1>1, <1>5
<1>6. CASE 1 \notin T /\ 2 \notin T /\ 3 \notin T /\ 4 \notin T /\ 5 \in T
  BY <1>1, <1>6
<1>7. CASE 1 \notin T /\ 2 \notin T /\ 3 \notin T /\ 4 \notin T /\ 5 \notin T
  <2>1. \A n \in T : n = 6
    BY <1>1, <1>7
  <2>2. PICK m \in T : TRUE
    BY Zenon
  <2>3. \A n \in T : m <= n
    BY <2>1, <2>2
  <2> QED
    BY <2>3, Zenon
<1> QED
  BY <1>2, <1>3, <1>4, <1>5, <1>6, <1>7

LEMMA NoDrop ==
  ASSUME NEW s, DOMAIN s \subseteq 1..6, \A i \in DOMAIN s : s[i][2] # "none",
         FirstDrop(s) = "none", NEW i \in DOMAIN s
  PROVE  ~s[i][1]
<1> DEFINE hit == {j \in DOMAIN s : s[j][1]}
<1>1. SUFFICES ASSUME s[i][1] PROVE FALSE
  OBVIOUS
<1>2. i \in hit
  BY <1>1, Zenon
<1>3. hit \subseteq 1..6
  OBVIOUS
<1> HIDE DEF hit
<1>4. \E m \in hit : \A n \in hit : m <= n
  BY <1>2, <1>3, LeastIndex
<1>5. (CHOOSE m \in hit : \A n \in hit : m <= n) \in hit
  BY <1>4
<1>6. FirstDrop(s) = s[CHOOSE m \in hit : \A n \in hit : m <= n][2]
  BY <1>2, Zenon DEF FirstDrop, hit
<1>7. (CHOOSE m \in hit : \A n \in hit : m <= n) \in DOMAIN s
  BY <1>5 DEF hit
<1> QED
  BY <1>6, <1>7

-----------------------------------------------------------------------------
(* clat_egress.                                                            *)

LEMMA PassedHeader4 ==
  ASSUME NEW p, FirstDrop(HeaderChecks4(p)) = "none"
  PROVE  /\ p.ver = 4 /\ ~(p.hl < IP4_HLEN) /\ p.src = Pod4 /\ p.dst \notin NoMapping
         /\ ~(p.tot_len < p.hl) /\ (IsFrag(p) => p.proto # "icmp")
<1> DEFINE s == HeaderChecks4(p)
<1>1. DOMAIN s = 1..6 /\ \A i \in 1..6 : s[i][2] # "none"
  BY DEF HeaderChecks4
<1>2. /\ s[1][1] = (p.ver # 4 \/ p.hl < IP4_HLEN) /\ s[2][1] = (p.src # Pod4)
      /\ s[3][1] = (p.dst \in NoMapping) /\ s[4][1] = (p.tot_len < p.hl)
      /\ s[5][1] = (IsFrag(p) /\ p.proto = "icmp")
  BY DEF HeaderChecks4
<1> HIDE DEF s
<1>3. \A i \in 1..6 : ~s[i][1]
  BY <1>1, NoDrop DEF s
<1>4. ~s[1][1] /\ ~s[2][1] /\ ~s[3][1] /\ ~s[4][1] /\ ~s[5][1]
  BY <1>3
<1> QED
  BY <1>2, <1>4, Zenon

LEMMA PassedTransport4 ==
  ASSUME NEW p, First(p), FirstDrop(TransportChecks4(p)) = "none"
  PROVE  /\ p.proto = "udp" => ~(FullCsum(p) /\ IsFrag(p))
         /\ p.proto = "icmp" => EchoTo6(p.l4.tc[1]) # -1
<1> DEFINE s == TransportChecks4(p)
<1>1. ASSUME p.proto = "udp" PROVE ~(FullCsum(p) /\ IsFrag(p))
  <2>1. s = << <<p.l4.n < 8, "EGRESS_DROP_TRUNCATED">>,
                 <<FullCsum(p) /\ IsFrag(p), "EGRESS_DROP_FRAG_NO_CSUM">>,
                 <<FullCsum(p) /\ udp_full_csum_fails(p), "EGRESS_DROP_TOO_BIG">> >>
    BY <1>1 DEF TransportChecks4
  <2>2. DOMAIN s = 1..3 /\ \A i \in 1..3 : s[i][2] # "none"
    BY <2>1
  <2>3. s[2][1] = (FullCsum(p) /\ IsFrag(p))
    BY <2>1
  <2> HIDE DEF s
  <2>4. ~s[2][1]
    BY <2>2, NoDrop DEF s
  <2> QED
    BY <2>3, <2>4, Zenon
<1>2. ASSUME p.proto = "icmp" PROVE EchoTo6(p.l4.tc[1]) # -1
  <2>1. s = << <<p.l4.n < 2, "EGRESS_DROP_TRUNCATED">>,
                 <<EchoTo6(p.l4.tc[1]) = -1, "EGRESS_DROP_ICMP_UNSUPPORTED">>,
                 <<p.l4.n < 4, "EGRESS_DROP_HELPER">> >>
    BY <1>2 DEF TransportChecks4
  <2>2. DOMAIN s = 1..3 /\ \A i \in 1..3 : s[i][2] # "none"
    BY <2>1
  <2>3. s[2][1] = (EchoTo6(p.l4.tc[1]) = -1)
    BY <2>1
  <2> HIDE DEF s
  <2>4. ~s[2][1]
    BY <2>2, NoDrop DEF s
  <2> QED
    BY <2>3, <2>4, Zenon
<1> QED
  BY <1>1, <1>2
(* What is left of a transport part when its checksum field is rewritten. *)
SameBut(l, m) ==
  /\ IsTransport(m) /\ m.info = l.info /\ m.data = l.data /\ m.n = l.n /\ m.dlen = l.dlen
  /\ m.part = l.part /\ m.q = l.q

LEMMA Rewritten ==
  ASSUME NEW l, IsTransport(l), NEW tc, tc = <<tc[1], tc[2]>>, NEW f, IsForm(f), NEW m,
         m = [tc |-> tc, info |-> l.info, data |-> l.data, n |-> l.n, dlen |-> l.dlen,
              field |-> f, part |-> l.part, q |-> l.q]
  PROVE  SameBut(l, m) /\ m.tc = tc /\ m.field = f
<1>1. /\ m.tc = tc /\ m.field = f /\ m.info = l.info /\ m.data = l.data /\ m.n = l.n
      /\ m.dlen = l.dlen /\ m.q = l.q /\ m.part = l.part
  OBVIOUS
<1>2. IsTransport(m)
  BY <1>1 DEF IsTransport
<1> QED
  BY <1>1, <1>2 DEF SameBut

LEMMA FieldSet ==
  ASSUME NEW l, IsTransport(l), NEW f, IsForm(f)
  PROVE  /\ SameBut(l, [l EXCEPT !.field = f]) /\ [l EXCEPT !.field = f].tc = l.tc
         /\ [l EXCEPT !.field = f].field = f
<1> DEFINE m == [l EXCEPT !.field = f]
<1>1. l = [tc |-> l.tc, info |-> l.info, data |-> l.data, n |-> l.n, dlen |-> l.dlen,
           field |-> l.field, part |-> l.part, q |-> l.q]
      /\ l.tc = <<l.tc[1], l.tc[2]>>
  BY DEF IsTransport
<1>2. m = [tc |-> l.tc, info |-> l.info, data |-> l.data, n |-> l.n, dlen |-> l.dlen,
           field |-> f, part |-> l.part, q |-> l.q]
  BY <1>1
<1> HIDE DEF m
<1>3. SameBut(l, m) /\ m.tc = l.tc /\ m.field = f
  BY <1>1, <1>2, Rewritten
<1> QED
  BY <1>3 DEF m

(* TCP, UDP: the addresses are exchanged in the sum. *)
LEMMA UpdateIs ==
  ASSUME NEW p, IsPodFrame4(p), First(p), p.proto \in {"tcp", "udp"}, ~FullCsum(p)
  PROVE  LET l == Transport6Of(p)
             d(t) == Coef(Addr6(POD_IP6, Mapped(p.dst)), t) - Coef(Addr4(p.src, p.dst), t)
         IN /\ SameBut(p.l4, l) /\ l.tc = p.l4.tc
            /\ \A t : Coef(l.field, t) = Coef(p.l4.field, t) + (IF p.l4.part THEN d(t) ELSE - d(t))
<1> DEFINE D == AddressDiff4(p)
           A4 == Addr4(p.src, p.dst)
           A6 == Addr6(POD_IP6, Mapped(p.dst))
           f == bpf_l4_csum_replace(p.l4.field, p.l4.part, D)
<1>1. Transport6Of(p) = [p.l4 EXCEPT !.field = f]
  BY DEF Transport6Of, UpdateAddresses4, FullCsum
<1>2. IsTransport(p.l4) /\ IsForm(p.l4.field) /\ IsForm(A4) /\ IsForm(A6)
  BY PacketForms, Zenon DEF IsPodFrame4, IsTransport
<1> HIDE DEF A4, A6
<1>3. IsForm(D) /\ \A t : Coef(D, t) = Coef(Zero, t) - Coef(A4, t) + Coef(A6, t)
  BY <1>2, DiffIs, ZeroIs DEF AddressDiff4, A4, A6
<1>4. \A t : Coef(D, t) = Coef(A6, t) - Coef(A4, t)
  BY <1>2, <1>3, ZeroIs, CoefOf
<1> HIDE DEF D
<1>5. /\ IsForm(f)
      /\ \A t : Coef(f, t) = Coef(p.l4.field, t)
                             + (IF p.l4.part THEN Coef(D, t) ELSE - Coef(D, t))
  <2>1. CASE p.l4.part
    BY <1>2, <1>3, <2>1, PlusIs DEF bpf_l4_csum_replace
  <2>2. CASE ~p.l4.part
    <3>1. f = Minus(p.l4.field, D)
      BY <2>2 DEF bpf_l4_csum_replace
    <3>2. IsForm(f) /\ \A t : Coef(f, t) = Coef(p.l4.field, t) - Coef(D, t)
      BY <1>2, <1>3, <3>1, MinusIs
    <3>3. \A t : Coef(p.l4.field, t) \in Int /\ Coef(D, t) \in Int
      BY <1>2, <1>3, CoefOf
    <3> QED
      BY <2>2, <3>2, <3>3
  <2> QED
    BY <2>1, <2>2
<1> HIDE DEF f
<1> QED
  BY <1>1, <1>2, <1>4, <1>5, FieldSet DEF A4, A6
(* Echo: the type changes, and the pseudo-header enters the sum. *)
LEMMA EchoIs ==
  ASSUME NEW p, IsPodFrame4(p), First(p), p.proto = "icmp"
  PROVE  LET l == Transport6Of(p)
             p6 == Pseudo6(POD_IP6, Mapped(p.dst), l4len(p), "icmp6")
         IN /\ SameBut(p.l4, l) /\ l.tc = <<EchoTo6(p.l4.tc[1]), p.l4.tc[2]>> /\ ~l.part
            /\ \A t : Coef(l.field, t) = Coef(p.l4.field, t) - Coef(p6, t)
                                         + Coef(TypeWord(p.l4.tc), t) - Coef(TypeWord(l.tc), t)
<1> DEFINE tc6 == <<EchoTo6(p.l4.tc[1]), p.l4.tc[2]>>
           p6 == Pseudo6(POD_IP6, Mapped(p.dst), l4len(p), "icmp6")
           w == TypeWord(p.l4.tc)
           w6 == TypeWord(tc6)
           e == bpf_csum_diff(Zero, p6, Zero)
           d == bpf_csum_diff(w, w6, e)
           f == bpf_l4_csum_replace(p.l4.field, p.l4.part, d)
           k == [p.l4 EXCEPT !.tc = tc6]
<1>0. Transport6Of(p) = [p.l4 EXCEPT !.tc = tc6,
                                     !.field = bpf_l4_csum_replace(@, p.l4.part, d)]
  <2>1. Transport6Of(p) = EchoToIcmp6(p)
    BY DEF Transport6Of, FullCsum, NoCheck
  <2> QED
    BY <2>1, Zenon DEF EchoToIcmp6
<1>1. Transport6Of(p) = [tc |-> tc6, info |-> p.l4.info, data |-> p.l4.data, n |-> p.l4.n,
                         dlen |-> p.l4.dlen, field |-> f, part |-> p.l4.part, q |-> p.l4.q]
  <2> HIDE DEF tc6, d
  <2>1. p.l4 = [tc |-> p.l4.tc, info |-> p.l4.info, data |-> p.l4.data, n |-> p.l4.n,
                dlen |-> p.l4.dlen, field |-> p.l4.field, part |-> p.l4.part, q |-> p.l4.q]
    BY DEF IsPodFrame4, IsTransport
  <2>2. k = [tc |-> tc6, info |-> p.l4.info, data |-> p.l4.data, n |-> p.l4.n,
             dlen |-> p.l4.dlen, field |-> p.l4.field, part |-> p.l4.part, q |-> p.l4.q]
    BY <2>1
  <2>3. Transport6Of(p) = [k EXCEPT !.field = bpf_l4_csum_replace(k.field, p.l4.part, d)]
    BY <1>0, <2>1
  <2> HIDE DEF k
  <2> QED
    BY <2>2, <2>3
<1>2. IsTransport(p.l4) /\ IsForm(p.l4.field) /\ ~p.l4.part
  BY DEF IsPodFrame4, IsTransport
<1>3. IsForm(p6) /\ IsForm(w) /\ IsForm(w6) /\ IsForm(Zero)
  BY PacketForms, ZeroIs
<1>4. tc6 = <<tc6[1], tc6[2]>>
  OBVIOUS
<1>5. f = Minus(p.l4.field, d)
  BY <1>2 DEF bpf_l4_csum_replace
<1> HIDE DEF tc6, p6, w, w6, f, d, e
<1>6. IsForm(e) /\ \A t : Coef(e, t) = Coef(Zero, t) - Coef(Zero, t) + Coef(p6, t)
  BY <1>3, DiffIs DEF e
<1>7. IsForm(d) /\ \A t : Coef(d, t) = Coef(e, t) - Coef(w, t) + Coef(w6, t)
  BY <1>3, <1>6, DiffIs DEF d
<1>8. IsForm(f) /\ \A t : Coef(f, t) = Coef(p.l4.field, t) - Coef(d, t)
  BY <1>2, <1>5, <1>7, MinusIs
<1>9. \A t : /\ Coef(p.l4.field, t) \in Int /\ Coef(p6, t) \in Int /\ Coef(w, t) \in Int
             /\ Coef(w6, t) \in Int
  BY <1>2, <1>3, CoefOf
<1>10. \A t : Coef(f, t) = Coef(p.l4.field, t) - Coef(p6, t) + Coef(w, t) - Coef(w6, t)
  BY <1>6, <1>7, <1>8, <1>9, ZeroIs
<1>11. /\ SameBut(p.l4, Transport6Of(p)) /\ Transport6Of(p).tc = tc6
       /\ Transport6Of(p).field = f
  BY <1>1, <1>2, <1>4, <1>8, Rewritten
<1>12. ~Transport6Of(p).part
  BY <1>2, <1>11, Zenon DEF SameBut
<1> QED
  BY <1>10, <1>11, <1>12 DEF p6, w, w6, tc6

(* UDP without a checksum: the sum of the datagram. *)
LEMMA SumDatagramIs ==
  ASSUME NEW p, IsPodFrame4(p), First(p), FullCsum(p)
  PROVE  LET l == Transport6Of(p)
             p6 == Pseudo6(POD_IP6, Mapped(p.dst), l4len(p), "udp")
         IN /\ SameBut(p.l4, l) /\ l.tc = p.l4.tc
            /\ \A t : Coef(l.field, t) = - Coef(p6, t) - Coef(OwnBytes(p.l4), t)
                                         - Coef(Payload(p.l4), t)
<1> DEFINE p6 == Pseudo6(POD_IP6, Mapped(p.dst), l4len(p), "udp")
           o == OwnBytes(p.l4)
           y == Payload(p.l4)
           b == Plus(o, y)
           f == Minus(Zero, Plus(p6, b))
<1>1. p.proto = "udp" /\ IsTransport(p.l4) /\ p.l4.q = <<>>
  BY DEF FullCsum, NoCheck, IsPodFrame4
<1>2. Bytes(p.l4) = b
  BY <1>1 DEF Bytes
<1>3. Transport6Of(p) = [p.l4 EXCEPT !.field = f]
  BY <1>1, <1>2 DEF Transport6Of, SumDatagram
<1>4. IsForm(p6) /\ IsForm(o) /\ IsForm(y) /\ IsForm(Zero)
  BY PacketForms, ZeroIs
<1> HIDE DEF p6, o, y, b, f
<1>5. IsForm(b) /\ \A t : Coef(b, t) = Coef(o, t) + Coef(y, t)
  BY <1>4, PlusIs DEF b
<1>6. IsForm(Plus(p6, b)) /\ \A t : Coef(Plus(p6, b), t) = Coef(p6, t) + Coef(b, t)
  BY <1>4, <1>5, PlusIs
<1>7. IsForm(f) /\ \A t : Coef(f, t) = Coef(Zero, t) - Coef(Plus(p6, b), t)
  BY <1>4, <1>6, MinusIs DEF f
<1>8. \A t : Coef(p6, t) \in Int /\ Coef(o, t) \in Int /\ Coef(y, t) \in Int
  BY <1>4, CoefOf
<1>9. \A t : Coef(f, t) = - Coef(p6, t) - Coef(o, t) - Coef(y, t)
  BY <1>5, <1>6, <1>7, <1>8, ZeroIs
<1>10. /\ SameBut(p.l4, Transport6Of(p)) /\ Transport6Of(p).tc = p.l4.tc
       /\ Transport6Of(p).field = f
  BY <1>1, <1>3, <1>7, FieldSet
<1> QED
  BY <1>9, <1>10 DEF p6, o, y

(* Anything else keeps its transport part. *)
LEMMA PlainIs ==
  ASSUME NEW p, ~(First(p) /\ p.proto \in {"tcp", "udp", "icmp"})
  PROVE  Transport6Of(p) = p.l4
BY DEF Transport6Of, FullCsum, NoCheck

(* Whichever it is, the transport part keeps its shape. *)
LEMMA Transport6Is ==
  ASSUME NEW p, IsPodFrame4(p)
  PROVE  /\ SameBut(p.l4, Transport6Of(p))
         /\ ~(First(p) /\ p.proto = "icmp") => Transport6Of(p).tc = p.l4.tc
         /\ First(p) /\ p.proto = "icmp"
              => Transport6Of(p).tc = <<EchoTo6(p.l4.tc[1]), p.l4.tc[2]>>
<1>1. CASE First(p) /\ p.proto = "icmp"
  BY <1>1, EchoIs
<1>2. CASE First(p) /\ p.proto # "icmp" /\ FullCsum(p)
  BY <1>2, SumDatagramIs
<1>3. CASE First(p) /\ p.proto \in {"tcp", "udp"} /\ ~FullCsum(p)
  BY <1>3, UpdateIs
<1>4. CASE ~(First(p) /\ p.proto \in {"tcp", "udp", "icmp"})
  BY <1>4, PlainIs DEF SameBut, IsPodFrame4
<1> QED
  BY <1>1, <1>2, <1>3, <1>4
-----------------------------------------------------------------------------
(* When a receiver accepts.                                                *)

LEMMA SumsToZero ==
  ASSUME NEW f, IsForm(f), NEW g, IsForm(g), NEW h, IsForm(h)
  PROVE  Plus(f, Plus(g, h)) = Zero <=> \A t : Coef(f, t) + Coef(g, t) + Coef(h, t) = 0
<1>1. IsForm(Plus(g, h)) /\ \A t : Coef(Plus(g, h), t) = Coef(g, t) + Coef(h, t)
  BY PlusIs
<1>2. /\ IsForm(Plus(f, Plus(g, h)))
      /\ \A t : Coef(Plus(f, Plus(g, h)), t) = Coef(f, t) + Coef(Plus(g, h), t)
  BY <1>1, PlusIs
<1>3. \A t : Coef(f, t) \in Int /\ Coef(g, t) \in Int /\ Coef(h, t) \in Int
  BY CoefOf
<1>4. \A t : Coef(Plus(f, Plus(g, h)), t) = Coef(f, t) + Coef(g, t) + Coef(h, t)
  BY <1>1, <1>2, <1>3
<1>5. Plus(f, Plus(g, h)) = Zero <=> \A t : Coef(Plus(f, Plus(g, h)), t) = 0
  BY <1>2, ZeroIs, FormEqual
<1> QED
  BY <1>4, <1>5

(* The bytes of a message that quotes nothing. *)
LEMMA BytesIs ==
  ASSUME NEW l, l.q = <<>>
  PROVE  /\ IsForm(Bytes(l))
         /\ \A t : Coef(Bytes(l), t) = Coef(TypeWord(l.tc), t) + Coef(Sum({<<"info", l.info>>}), t)
                                       + Coef(Sum({<<"data", l.data, l.dlen>>}), t)
<1> DEFINE w == TypeWord(l.tc)
           u == Sum({<<"info", l.info>>})
           y == Sum({<<"data", l.data, l.dlen>>})
<1>1. IsForm(w) /\ IsForm(u) /\ IsForm(y)
  BY SumIs DEF TypeWord
<1>2. Bytes(l) = Plus(Plus(w, u), y)
  BY DEF Bytes, OwnBytes, Payload
<1> HIDE DEF w, u, y
<1>3. IsForm(Plus(w, u)) /\ \A t : Coef(Plus(w, u), t) = Coef(w, t) + Coef(u, t)
  BY <1>1, PlusIs
<1>4. /\ IsForm(Plus(Plus(w, u), y))
      /\ \A t : Coef(Plus(Plus(w, u), y), t) = Coef(Plus(w, u), t) + Coef(y, t)
  BY <1>1, <1>3, PlusIs
<1> QED
  BY <1>2, <1>3, <1>4, Zenon DEF w, u, y

LEMMA PseudoIs ==
  ASSUME NEW a, NEW b, NEW n, NEW pr
  PROVE  /\ \A t : Coef(Pseudo6(a, b, n, pr), t) = Coef(Addr6(a, b), t) + Coef(LenProto(n, pr), t)
         /\ pr # "icmp" =>
              \A t : Coef(Pseudo4(a, b, n, pr), t) = Coef(Addr4(a, b), t) + Coef(LenProto(n, pr), t)
         /\ pr = "icmp" => \A t : Coef(Pseudo4(a, b, n, pr), t) = 0
<1>1. IsForm(Addr4(a, b)) /\ IsForm(Addr6(a, b)) /\ IsForm(LenProto(n, pr))
  BY PacketForms
<1>2. \A t : Coef(Pseudo6(a, b, n, pr), t) = Coef(Addr6(a, b), t) + Coef(LenProto(n, pr), t)
  BY <1>1, PlusIs DEF Pseudo6
<1>3. pr # "icmp" =>
        \A t : Coef(Pseudo4(a, b, n, pr), t) = Coef(Addr4(a, b), t) + Coef(LenProto(n, pr), t)
  BY <1>1, PlusIs DEF Pseudo4
<1>4. pr = "icmp" => \A t : Coef(Pseudo4(a, b, n, pr), t) = 0
  BY ZeroIs DEF Pseudo4
<1> QED
  BY <1>2, <1>3, <1>4

(* A pseudo-header is not nothing: a partial checksum is not an absent one. *)
LEMMA PseudoNotZero ==
  ASSUME NEW a, NEW b, NEW n, NEW pr, pr # "icmp"
  PROVE  Pseudo4(a, b, n, pr) # Zero
<1> DEFINE t == <<"a4", a>>
<1>1. Coef(Addr4(a, b), t) = 1
  BY SumIs DEF Addr4
<1>2. t \notin {<<"len", n>>, <<"proto", pr>>}
  OBVIOUS
<1>3. Coef(LenProto(n, pr), t) = 0
  BY <1>2, SumIs DEF LenProto
<1>4. Coef(Pseudo4(a, b, n, pr), t) = Coef(Addr4(a, b), t) + Coef(LenProto(n, pr), t)
  BY PseudoIs
<1>5. Coef(Pseudo4(a, b, n, pr), t) = 1
  BY <1>1, <1>3, <1>4
<1> QED
  BY <1>5, ZeroIs
(* What leaves the pod. *)
LEMMA Packet6Is ==
  ASSUME NEW p
  PROVE  LET q == Packet6Of(p)
         IN /\ q.eth = "ip6" /\ q.ver = 6 /\ q.src = POD_IP6 /\ q.dst = Mapped(p.dst)
            /\ q.frag = p.frag /\ q.l4 = Transport6Of(p) /\ q.plen = Payload6(p)
            /\ q.nh = (IF p.proto = "icmp" THEN "icmp6" ELSE p.proto)
            /\ q.len = p.len - optlen(p) + (IP6_HLEN - IP4_HLEN)
                       + (IF IsFrag(p) THEN FRAG_HLEN ELSE 0)
BY DEF Packet6Of

-----------------------------------------------------------------------------
PassesEgress(s) ==
  /\ s.eth = "ip4" /\ FirstDrop(HeaderChecks4(s)) = "none"
  /\ FirstDrop(TransportChecks4(s)) = "none"

(* What the two programs may return.                                       *)

LEMMA DropName ==
  ASSUME NEW s, DOMAIN s \subseteq 1..6
  PROVE  FirstDrop(s) = "none" \/ \E i \in DOMAIN s : FirstDrop(s) = s[i][2]
<1> DEFINE hit == {j \in DOMAIN s : s[j][1]}
<1>1. SUFFICES ASSUME FirstDrop(s) # "none" PROVE \E i \in DOMAIN s : FirstDrop(s) = s[i][2]
  OBVIOUS
<1>2. hit # {} /\ FirstDrop(s) = s[CHOOSE m \in hit : \A n \in hit : m <= n][2]
  BY <1>1, Zenon DEF FirstDrop
<1>3. hit \subseteq 1..6
  OBVIOUS
<1>4. hit \subseteq DOMAIN s
  OBVIOUS
<1> HIDE DEF hit
<1>5. \E m \in hit : \A n \in hit : m <= n
  BY <1>2, <1>3, LeastIndex
<1>6. (CHOOSE m \in hit : \A n \in hit : m <= n) \in hit
  BY <1>5
<1> QED
  BY <1>2, <1>4, <1>6

LEMMA EgressDrops ==
  ASSUME NEW p
  PROVE  /\ FirstDrop(HeaderChecks4(p)) \in EgressCounters \cup {"none"}
         /\ FirstDrop(TransportChecks4(p)) \in EgressCounters \cup {"none"}
<1>1. FirstDrop(HeaderChecks4(p)) \in EgressCounters \cup {"none"}
  <2> DEFINE s == HeaderChecks4(p)
  <2>1. DOMAIN s \subseteq 1..6 /\ \A i \in DOMAIN s : s[i][2] \in EgressCounters
    BY SMTT(90) DEF HeaderChecks4, EgressCounters
  <2> HIDE DEF s
  <2>2. FirstDrop(s) \in EgressCounters \cup {"none"}
    BY <2>1, DropName
  <2> QED
    BY <2>2 DEF s
<1>2. FirstDrop(TransportChecks4(p)) \in EgressCounters \cup {"none"}
  <2> DEFINE s == TransportChecks4(p)
  <2>1. DOMAIN s \subseteq 1..6 /\ \A i \in DOMAIN s : s[i][2] \in EgressCounters
    <3>1. CASE ~First(p) \/ p.proto \notin {"tcp", "udp", "icmp"}
      BY <3>1, SMTT(90) DEF TransportChecks4, EgressCounters
    <3>2. CASE First(p) /\ p.proto = "tcp"
      BY <3>2 DEF TransportChecks4, EgressCounters
    <3>3. CASE First(p) /\ p.proto = "udp"
      BY <3>3 DEF TransportChecks4, EgressCounters
    <3>4. CASE First(p) /\ p.proto = "icmp"
      BY <3>4 DEF TransportChecks4, EgressCounters
    <3> QED
      BY <3>1, <3>2, <3>3, <3>4, Zenon
  <2> HIDE DEF s
  <2>2. FirstDrop(s) \in EgressCounters \cup {"none"}
    BY <2>1, DropName
  <2> QED
    BY <2>2 DEF s
<1> QED
  BY <1>1, <1>2

LEMMA EgressOutcome ==
  ASSUME NEW p, NEW o \in clat_egress(p)
  PROVE  \/ p.eth # "ip4" /\ o = Pass(p)
         \/ p.eth = "ip4" /\ \E c \in EgressCounters : o = DROP(c)
         \/ PassesEgress(p) /\ o = Translated("EGRESS_TRANSLATED", Packet6Of(p))
<1>1. {"EGRESS_DROP_TRUNCATED", "EGRESS_DROP_HELPER"} \subseteq EgressCounters
  BY DEF EgressCounters
<1> QED
  BY <1>1, EgressDrops DEF clat_egress, PassesEgress

LEMMA IngressDrops ==
  ASSUME NEW p
  PROVE  /\ FirstDrop(HeaderChecks6(p)) \in IngressCounters \cup {"none"}
         /\ FirstDrop(TransportChecks6(p)) \in IngressCounters \cup {"none"}
<1>1. FirstDrop(HeaderChecks6(p)) \in IngressCounters \cup {"none"}
  <2> DEFINE s == HeaderChecks6(p)
  <2>1. DOMAIN s \subseteq 1..6 /\ \A i \in DOMAIN s : s[i][2] \in IngressCounters
    BY DEF HeaderChecks6, IngressCounters
  <2> HIDE DEF s
  <2>2. FirstDrop(s) \in IngressCounters \cup {"none"}
    BY <2>1, DropName
  <2> QED
    BY <2>2 DEF s
<1>2. FirstDrop(TransportChecks6(p)) \in IngressCounters \cup {"none"}
  <2> DEFINE s == TransportChecks6(p)
             e == ErrorChecks(p.l4)
             b == p.l4.n < 8
  <2>1. DOMAIN s \subseteq 1..6 /\ \A i \in DOMAIN s : s[i][2] \in IngressCounters
    <3>1. CASE ~First(p) \/ p.nh \notin {"tcp", "udp", "icmp6"}
      BY <3>1, SMTT(90) DEF TransportChecks6, IngressCounters
    <3>2. CASE First(p) /\ p.nh = "tcp"
      BY <3>2 DEF TransportChecks6, IngressCounters
    <3>3. CASE First(p) /\ p.nh = "udp"
      BY <3>3 DEF TransportChecks6, IngressCounters
    <3>4. CASE First(p) /\ p.nh = "icmp6"
      <4>1. s = << <<b, "INGRESS_DROP_TRUNCATED">> >>
                \o (IF IsEcho6(p.l4.tc[1]) THEN <<>> ELSE e)
        BY <3>4 DEF TransportChecks6
      <4>2. PICK x, y, z : e = << <<x, "INGRESS_DROP_ICMP_UNSUPPORTED">>,
                                  <<y, "INGRESS_DROP_ICMP_INNER">>,
                                  <<z, "INGRESS_DROP_ICMP_INNER">> >>
        BY Zenon DEF ErrorChecks
      <4>3. CASE IsEcho6(p.l4.tc[1])
        <5>1. s = << <<b, "INGRESS_DROP_TRUNCATED">> >>
          BY <4>1, <4>3
        <5> QED
          BY <5>1 DEF IngressCounters
      <4>4. CASE ~IsEcho6(p.l4.tc[1])
        <5>1. s = << <<b, "INGRESS_DROP_TRUNCATED">> >> \o e
          BY <4>1, <4>4
        <5> HIDE DEF s, e, b
        <5>2. DOMAIN s = 1..4 /\ s[1] = <<b, "INGRESS_DROP_TRUNCATED">>
              /\ s[2] = e[1] /\ s[3] = e[2] /\ s[4] = e[3]
          BY <4>2, <5>1
        <5>3. e[1][2] = "INGRESS_DROP_ICMP_UNSUPPORTED" /\ e[2][2] = "INGRESS_DROP_ICMP_INNER"
              /\ e[3][2] = "INGRESS_DROP_ICMP_INNER"
          BY <4>2
        <5> QED
          BY <5>2, <5>3, SMTT(90) DEF IngressCounters
      <4> QED
        BY <4>3, <4>4
    <3> QED
      BY <3>1, <3>2, <3>3, <3>4, Zenon
  <2> HIDE DEF s
  <2>2. FirstDrop(s) \in IngressCounters \cup {"none"}
    BY <2>1, DropName
  <2> QED
    BY <2>2 DEF s
<1> QED
  BY <1>1, <1>2

PassesIngress(p) ==
  /\ ReturnTraffic(p) /\ FirstDrop(HeaderChecks6(p)) = "none"
  /\ FirstDrop(TransportChecks6(p)) = "none"

LEMMA IngressOutcome ==
  ASSUME NEW p, NEW o \in clat_ingress(p)
  PROVE  \/ ~ReturnTraffic(p) /\ o = Pass(p)
         \/ ReturnTraffic(p) /\ o = Unread(p)
         \/ ReturnTraffic(p) /\ \E c \in IngressCounters : o = DROP(c)
         \/ /\ PassesIngress(p)
            /\ \E lost \in BOOLEAN : /\ lost => "carry" \in Faults
                                     /\ o = Translated("INGRESS_TRANSLATED", Packet4Of(p, lost))
<1>1. "INGRESS_DROP_HELPER" \in IngressCounters
  BY DEF IngressCounters
<1>2. CASE ~ReturnTraffic(p)
  BY <1>2, Zenon DEF clat_ingress
<1>3. CASE ReturnTraffic(p)
  <2> DEFINE drop == FirstDrop(HeaderChecks6(p))
             drop2 == FirstDrop(TransportChecks6(p))
             Lost == IF "carry" \in Faults THEN BOOLEAN ELSE {FALSE}
  <2>1. \/ o = Unread(p)
        \/ drop # "none" /\ o = DROP(drop)
        \/ o = DROP("INGRESS_DROP_HELPER")
        \/ drop2 # "none" /\ o = DROP(drop2)
        \/ /\ drop = "none" /\ drop2 = "none"
           /\ \E lost \in Lost : o = Translated("INGRESS_TRANSLATED", Packet4Of(p, lost))
    BY <1>3, Zenon DEF clat_ingress
  <2>2. \A lost \in Lost : lost \in BOOLEAN /\ (lost => "carry" \in Faults)
    BY Zenon
  <2>3. CASE \/ drop # "none" /\ o = DROP(drop)
             \/ o = DROP("INGRESS_DROP_HELPER")
             \/ drop2 # "none" /\ o = DROP(drop2)
    BY <1>1, <1>3, <2>3, IngressDrops
  <2>4. CASE drop = "none" /\ drop2 = "none"
             /\ \E lost \in Lost : o = Translated("INGRESS_TRANSLATED", Packet4Of(p, lost))
    BY <1>3, <2>2, <2>4, Zenon DEF PassesIngress
  <2> QED
    BY <1>3, <2>1, <2>3, <2>4, Zenon
<1> QED
  BY <1>2, <1>3, Zenon

-----------------------------------------------------------------------------
(* What comes back: answers to packets that left for P, and native frames. *)

IsReply(q, p) ==
  q.l4.tc[1] # 129 /\ \E n \in ReplyLens, f \in ReplyFrags : p = Reply(Completed(q), n, f)
IsError(q, p) ==
  \E a \in {q, Completed(q)}, s \in ErrorSources, k \in ErrorKinds, c \in QuoteCuts :
    p = ErrorAbout(a, s, k, c)
Comes(p) == p \in NativeFrames \/ \E q \in Outgoing : IsReply(q, p) \/ IsError(q, p)

(* The inductive invariant: every frame has its cause.  What left for P is *)
(* the translation of a frame the pod sent, what is on its way to the pod  *)
(* answers it, and the last run had one of the outcomes of its program.    *)
LastRun ==
  ev # <<>> => LET r == ev[1]
               IN \/ r.hook = "egress" /\ r.in \in sent /\ r.out \in clat_egress(r.in)
                  \/ r.hook = "ingress" /\ Comes(r.in) /\ r.out \in clat_ingress(r.in)
FlowInv ==
  /\ sent \subseteq PodFrames \cup Mixed
  /\ \A q \in Outgoing : \E s \in sent : PassesEgress(s) /\ q = Packet6Of(s)
  /\ \A p \in back : Comes(p)
  /\ LastRun

LEMMA FlowAlways == Spec => []FlowInv
(* Causes are not forgotten: fwd only grows. *)
<1>stays. ASSUME fwd \subseteq fwd', NEW p, Comes(p)
          PROVE  Comes(p)'
  <2> USE <1>stays
  <2>1. Outgoing \subseteq Outgoing'
    BY DEF Outgoing
  <2>2. (\E q \in Outgoing : IsReply(q, p) \/ IsError(q, p))
          => (\E q \in Outgoing' : IsReply(q, p) \/ IsError(q, p))
    BY <2>1, Zenon
  <2>3. Comes(p)' <=> (p \in NativeFrames \/ \E q \in Outgoing' : IsReply(q, p) \/ IsError(q, p))
    BY Zenon DEF Comes, IsReply, IsError
  <2> QED
    BY <2>2, <2>3, Zenon DEF Comes
<1>init. Init => FlowInv
  BY Zenon DEF Init, FlowInv, Outgoing, LastRun
<1>send. ASSUME FlowInv, NEW p \in PodFrames \cup Mixed, PodSends(p)
         PROVE  FlowInv'
  <2> USE <1>send
  <2>1. PICK o \in clat_egress(p) : /\ Run("egress", p, o, p.eth = "ip4")
                                    /\ fwd' = fwd \cup {o.pkt[i] : i \in DOMAIN o.pkt}
    BY Zenon DEF PodSends
  <2>2. sent' = sent \cup {p} /\ back' = back /\ ev' = << [hook |-> "egress", in |-> p, out |-> o] >>
    BY <2>1, Zenon DEF PodSends, Run
  <2>3. {o.pkt[i] : i \in DOMAIN o.pkt} =
          IF \E c : o = DROP(c) THEN {} ELSE IF p.eth # "ip4" THEN {p} ELSE {Packet6Of(p)}
    BY EgressOutcome, SMTT(90) DEF Pass, DROP, Translated, PassesEgress
  <2>4. ASSUME NEW q \in Outgoing' PROVE \E s \in sent' : PassesEgress(s) /\ q = Packet6Of(s)
    <3>1. q \in fwd' /\ q.eth = "ip6" /\ q.dst.net = "clat"
      BY Zenon DEF Outgoing
    <3>2. CASE q \in fwd
      BY <2>2, <3>1, <3>2, Zenon DEF FlowInv, Outgoing
    <3>3. CASE q \notin fwd
      <4>1. p.eth = "ip4" /\ q = Packet6Of(p) /\ ~\E c : o = DROP(c)
        BY <2>1, <2>3, <3>1, <3>3, PodAssumption, SMTT(90)
      <4>2. PassesEgress(p)
        BY <4>1, EgressOutcome, Zenon
      <4> QED
        BY <2>2, <4>1, <4>2
    <3> QED
      BY <3>2, <3>3
  <2>5. fwd \subseteq fwd'
    BY <2>1, Zenon
  <2>6. \A b \in back' : Comes(b)'
    BY <2>2, <2>5, <1>stays, Zenon DEF FlowInv
  <2>7. LastRun'
    <3>1. ev'[1].hook = "egress" /\ ev'[1].in = p /\ ev'[1].out = o
      BY <2>2, Zenon
    <3>2. p \in sent'
      BY <2>2
    <3> QED
      BY <2>1, <3>1, <3>2, Zenon DEF LastRun
  <2>8. sent' \subseteq PodFrames \cup Mixed
    BY <2>2 DEF FlowInv
  <2>9. \A q \in Outgoing' : \E s \in sent' : PassesEgress(s) /\ q = Packet6Of(s)
    BY <2>4, Zenon
  <2> QED
    BY <2>6, <2>7, <2>8, <2>9, Zenon DEF FlowInv
(* A frame with a cause joins those on their way. *)
<1>answer. ASSUME FlowInv, NEW p, Comes(p), back' = back \cup {p},
                  UNCHANGED <<sent, fwd, runs, own, cnt, ev>>
           PROVE  FlowInv'
  <2> USE <1>answer
  <2>1. \A b : Comes(b) => Comes(b)'
    BY <1>stays
  <2>2. \A b \in back' : Comes(b)'
    BY <2>1 DEF FlowInv
  <2>3. LastRun'
    BY <2>1, Zenon DEF FlowInv, LastRun
  <2>4. sent' = sent /\ Outgoing' = Outgoing
    BY DEF Outgoing
  <2>5. \A q \in Outgoing' : \E s \in sent' : PassesEgress(s) /\ q = Packet6Of(s)
    BY <2>4, Zenon DEF FlowInv
  <2> QED
    BY <2>2, <2>3, <2>4, <2>5, Zenon DEF FlowInv
<1>receive. ASSUME FlowInv, NEW p \in back, PodReceives(p)
            PROVE  FlowInv'
  <2> USE <1>receive
  <2>1. PICK o \in clat_ingress(p) :
          Run("ingress", p, o, ClatFlow(p) /\ p.len >= IP6_HLEN + FRAG_HLEN)
    BY DEF PodReceives
  <2>2. /\ sent' = sent /\ fwd' = fwd /\ back' \subseteq back
        /\ ev' = << [hook |-> "ingress", in |-> p, out |-> o] >>
    BY <2>1, Zenon DEF PodReceives, Run
  <2>3. \A b : Comes(b) => Comes(b)'
    BY <2>2, <1>stays, Zenon
  <2>4. Comes(p)' /\ \A b \in back' : Comes(b)'
    BY <2>2, <2>3 DEF FlowInv
  <2>5. LastRun'
    <3>1. ev'[1].hook = "ingress" /\ ev'[1].in = p /\ ev'[1].out = o
      BY <2>2
    <3> QED
      BY <2>1, <2>4, <3>1, Zenon DEF LastRun
  <2>6. sent' = sent /\ Outgoing' = Outgoing
    BY <2>2, Zenon DEF Outgoing
  <2>7. \A q \in Outgoing' : \E s \in sent' : PassesEgress(s) /\ q = Packet6Of(s)
    BY <2>6, Zenon DEF FlowInv
  <2> QED
    BY <2>4, <2>5, <2>6, <2>7, Zenon DEF FlowInv
<1>step. FlowInv /\ [Next]_vars => FlowInv'
  <2> SUFFICES ASSUME FlowInv, [Next]_vars PROVE FlowInv'
    OBVIOUS
  <2>1. ASSUME NEW p \in PodFrames \cup Mixed, PodSends(p) PROVE FlowInv'
    BY <2>1, <1>send
  <2>2. ASSUME NEW q \in Outgoing, NEW n \in ReplyLens, NEW f \in ReplyFrags, ServerAnswers(q, n, f)
        PROVE  FlowInv'
    <3>1. Comes(Reply(Completed(q), n, f))
      BY <2>2, Zenon DEF ServerAnswers, Comes, IsReply
    <3> QED
      BY <2>2, <3>1, <1>answer, Zenon DEF ServerAnswers
  <2>3. ASSUME NEW q \in Outgoing, NEW s \in ErrorSources, NEW k \in ErrorKinds,
               NEW c \in QuoteCuts, RouterAnswers(q, s, k, c)
        PROVE  FlowInv'
    <3>1. PICK a \in {q, Completed(q)} : back' = back \cup {ErrorAbout(a, s, k, c)}
      BY <2>3 DEF RouterAnswers
    <3>2. Comes(ErrorAbout(a, s, k, c))
      BY Zenon DEF Comes, IsError
    <3> QED
      BY <2>3, <3>1, <3>2, <1>answer, Zenon DEF RouterAnswers
  <2>4. ASSUME NEW p \in NativeFrames, NativeArrives(p) PROVE FlowInv'
    <3>1. Comes(p)
      BY DEF Comes
    <3> QED
      BY <2>4, <3>1, <1>answer DEF NativeArrives
  <2>5. ASSUME NEW p \in back, PodReceives(p) PROVE FlowInv'
    BY <2>5, <1>receive
  <2>6. CASE UNCHANGED vars
    <3>1. \A b : Comes(b) => Comes(b)'
      BY <2>6, <1>stays DEF vars
    <3>2. sent' = sent /\ back' = back /\ ev' = ev /\ Outgoing' = Outgoing
      BY <2>6 DEF vars, Outgoing
    <3>3. LastRun' /\ \A b \in back' : Comes(b)'
      BY <3>1, <3>2 DEF FlowInv, LastRun
    <3>4. \A q \in Outgoing' : \E s \in sent' : PassesEgress(s) /\ q = Packet6Of(s)
      BY <3>2, Zenon DEF FlowInv
    <3> QED
      BY <3>2, <3>3, <3>4, Zenon DEF FlowInv
  <2> QED
    BY <2>1, <2>2, <2>3, <2>4, <2>5, <2>6, Zenon DEF Next
<1> QED
  BY <1>init, <1>step, PTL DEF Spec

-----------------------------------------------------------------------------
(* A run of clat_egress that lets IPv4 leave translated it. *)
LEMMA EgressRan ==
  ASSUME FlowInv, Ran("egress"), ev[1].out.act = "ok", Was.eth = "ip4"
  PROVE  /\ PassesEgress(Was) /\ Is = Packet6Of(Was) /\ IsPodFrame4(Was) /\ IsSent4(Was)
         /\ Was \in sent
<1>1. Was \in sent /\ ev[1].out \in clat_egress(Was)
  BY DEF FlowInv, LastRun, Ran, Was
<1>2. PassesEgress(Was) /\ ev[1].out = Translated("EGRESS_TRANSLATED", Packet6Of(Was))
  BY <1>1, EgressOutcome DEF DROP
<1>3. Is = Packet6Of(Was)
  BY <1>2, SMTT(90) DEF Is, Translated
<1> QED
  BY <1>1, <1>2, <1>3, PodAssumption, Zenon DEF FlowInv

(* No IPv4 leaves the pod, and every checksum clat_egress writes is one    *)
(* the receiver accepts over IPv6, if the pod's was right, partial or      *)
(* absent: for any addresses, ports, payload and lengths, whole packets    *)
(* and fragments.                                                          *)
THEOREM EgressIsAccepted == Spec => []SentIsAccepted
(* Every checksum clat_egress writes is one the receiver accepts, if the   *)
(* pod's was accepted, partial or absent.                                  *)
<1>accepted. ASSUME NEW p, IsPodFrame4(p), IsSent4(p), First(p), p.proto \in {"tcp", "udp", "icmp"},
                    FirstDrop(HeaderChecks4(p)) = "none", FirstDrop(TransportChecks4(p)) = "none",
                    p.eth = "ip4", FullCsum(p) \/ Accepted(p)
             PROVE  Accepted(Packet6Of(p))
  <2> USE <1>accepted
  <2> DEFINE q == Packet6Of(p)
             l == Transport6Of(p)
             A4(t) == Coef(Addr4(p.src, p.dst), t)
             A6(t) == Coef(Addr6(POD_IP6, Mapped(p.dst)), t)
             LP(t) == Coef(LenProto(p.l4.dlen, q.nh), t)
             W(t) == Coef(TypeWord(p.l4.tc), t)
             W6(t) == Coef(TypeWord(l.tc), t)
             U(t) == Coef(Sum({<<"info", p.l4.info>>}), t)
             Y(t) == Coef(Sum({<<"data", p.l4.data, p.l4.dlen>>}), t)
             F(t) == Coef(p.l4.field, t)
             F6(t) == Coef(l.field, t)
  <2>1. SameBut(p.l4, l) /\ p.l4.q = <<>> /\ l.q = <<>> /\ IsForm(p.l4.field) /\ IsForm(l.field)
    BY Transport6Is, Zenon DEF SameBut, IsPodFrame4, IsTransport
  <2>2. /\ q.eth = "ip6" /\ q.src = POD_IP6 /\ q.dst = Mapped(p.dst) /\ q.l4 = l
        /\ q.nh = (IF p.proto = "icmp" THEN "icmp6" ELSE p.proto)
    BY Packet6Is, Zenon
  <2>3. Pseudo(q) = Pseudo6(POD_IP6, Mapped(p.dst), p.l4.dlen, q.nh)
    BY <2>1, <2>2, Zenon DEF Pseudo, SameBut
  <2>4. Pseudo(p) = Pseudo4(p.src, p.dst, p.l4.dlen, p.proto)
    BY DEF Pseudo
  <2>5. IsForm(Pseudo(q)) /\ IsForm(Pseudo(p)) /\ IsForm(Bytes(p.l4)) /\ IsForm(Bytes(l))
    BY <2>1, <2>3, <2>4, PacketForms, BytesIs, Zenon
  <2>6. \A t : Coef(Pseudo(q), t) = A6(t) + LP(t)
    BY <2>3, PseudoIs
  <2>7. \A t : /\ Coef(Bytes(p.l4), t) = W(t) + U(t) + Y(t)
               /\ Coef(Bytes(l), t) = W6(t) + U(t) + Y(t)
    BY <2>1, BytesIs, Zenon DEF SameBut
  <2>8. \A t : /\ A4(t) \in Int /\ A6(t) \in Int /\ LP(t) \in Int /\ W(t) \in Int /\ W6(t) \in Int
               /\ U(t) \in Int /\ Y(t) \in Int /\ F(t) \in Int /\ F6(t) \in Int
    <3>1. IsForm(Addr4(p.src, p.dst)) /\ IsForm(Addr6(POD_IP6, Mapped(p.dst)))
      BY PacketForms, Zenon
    <3>2. IsForm(LenProto(p.l4.dlen, q.nh)) /\ IsForm(TypeWord(p.l4.tc)) /\ IsForm(TypeWord(l.tc))
      BY PacketForms, Zenon
    <3>3. /\ IsForm(Sum({<<"info", p.l4.info>>}))
          /\ IsForm(Sum({<<"data", p.l4.data, p.l4.dlen>>}))
      BY SumIs, ZenonT(90)
    <3> QED
      BY <2>1, <3>1, <3>2, <3>3, CoefOf, Zenon
  <2>9. ~p.l4.part => (Accepted(p) <=> \A t : F(t) + Coef(Pseudo(p), t) + Coef(Bytes(p.l4), t) = 0)
    BY <2>1, <2>5, SumsToZero, SMTT(90) DEF Accepted
  <2>10. p.l4.part => (Accepted(p) <=> p.l4.field = Pseudo(p))
    BY SMTT(90) DEF Accepted
  <2>11. ~l.part => (Accepted(q) <=> \A t : F6(t) + Coef(Pseudo(q), t) + Coef(Bytes(l), t) = 0)
    BY <2>1, <2>2, <2>5, SumsToZero, SMTT(90) DEF Accepted
  <2>12. l.part => (Accepted(q) <=> l.field = Pseudo(q))
    BY <2>2, Zenon DEF Accepted
  <2>13. l.part = p.l4.part
    BY <2>1, Zenon DEF SameBut
  <2>14. CASE p.proto = "icmp"
    <3>1. /\ ~l.part /\ Accepted(p)
          /\ \A t : F6(t) = F(t) - Coef(Pseudo6(POD_IP6, Mapped(p.dst), l4len(p), "icmp6"), t)
                            + W(t) - W6(t)
      BY <2>14, EchoIs, Zenon DEF FullCsum, NoCheck
    <3>2. ~IsFrag(p) /\ p.l4.dlen = l4len(p)
      BY <2>14, PassedHeader4, SMTT(90) DEF IsPodFrame4, IP4_HLEN
    <3>3. \A t : Coef(Pseudo(p), t) = 0
      BY <2>4, <2>14, PseudoIs, SMTT(90)
    <3>4. Pseudo(q) = Pseudo6(POD_IP6, Mapped(p.dst), l4len(p), "icmp6")
      BY <2>2, <2>3, <2>14, <3>2, Zenon
    <3>5. ~p.l4.part
      BY <2>13, <3>1, Zenon
    <3> HIDE DEF q, l, A4, A6, LP, W, W6, U, Y, F, F6
    <3>6. \A t : F(t) + W(t) + U(t) + Y(t) = 0
      BY <2>7, <2>8, <2>9, <3>1, <3>3, <3>5, SMTT(90)
    <3>7. \A t : F6(t) = F(t) - (A6(t) + LP(t)) + W(t) - W6(t)
      BY <2>6, <3>1, <3>4, Zenon
    <3>8. ASSUME NEW t PROVE F6(t) + Coef(Pseudo(q), t) + Coef(Bytes(l), t) = 0
      BY <2>6, <2>7, <2>8, <3>6, <3>7, SMTT(90)
    <3> QED
      BY <2>11, <3>1, <3>8, Zenon DEF q
  <2>15. CASE FullCsum(p)
    <3>1. p.proto = "udp" /\ ~IsFrag(p) /\ p.l4.field = Zero
      BY <2>15, PassedTransport4, ZenonT(90) DEF FullCsum, NoCheck
    <3>2. p.l4.dlen = l4len(p)
      BY <3>1, PassedHeader4, SMTT(90) DEF IsPodFrame4, IP4_HLEN
    <3>3. ~p.l4.part
      BY <2>4, <3>1, PseudoNotZero, Zenon DEF IsSent4, PartialField
    <3> DEFINE P6(t) == Coef(Pseudo6(POD_IP6, Mapped(p.dst), l4len(p), "udp"), t)
               O(t) == Coef(OwnBytes(p.l4), t)
               Z(t) == Coef(Payload(p.l4), t)
    <3>4. l.tc = p.l4.tc /\ \A t : F6(t) = - P6(t) - O(t) - Z(t)
      BY <2>15, SumDatagramIs, Zenon
    <3>5. \A t : P6(t) = A6(t) + LP(t)
      BY <2>2, <3>1, <3>2, PseudoIs, SMTT(90)
    <3>6. \A t : O(t) = W(t) + U(t) /\ Z(t) = Y(t)
      BY PacketForms, SumIs, PlusIs, SMTT(90) DEF OwnBytes, Payload
    <3>7. \A t : W6(t) = W(t)
      BY <3>4, Zenon
    <3> HIDE DEF q, l, A4, A6, LP, W, W6, U, Y, F, F6, P6, O, Z
    <3>8. ASSUME NEW t PROVE F6(t) + Coef(Pseudo(q), t) + Coef(Bytes(l), t) = 0
      BY <2>6, <2>7, <2>8, <3>4, <3>5, <3>6, <3>7, SMTT(90)
    <3> QED
      BY <2>11, <2>13, <3>3, <3>8, Zenon DEF q
  <2>16. CASE p.proto \in {"tcp", "udp"} /\ ~FullCsum(p)
    <3>1. /\ l.tc = p.l4.tc /\ Accepted(p)
          /\ \A t : F6(t) = F(t) + (IF p.l4.part THEN A6(t) - A4(t) ELSE - (A6(t) - A4(t)))
      BY <2>16, UpdateIs, Zenon
    <3>2. \A t : Coef(Pseudo(p), t) = A4(t) + LP(t)
      BY <2>2, <2>4, <2>16, PseudoIs, SMTT(90)
    <3>3. \A t : W6(t) = W(t)
      BY <3>1, Zenon
    <3> HIDE DEF q, l, A4, A6, LP, W, W6, U, Y, F6
    <3>4. CASE p.l4.part
      <4>1. \A t : F(t) = A4(t) + LP(t)
        BY <2>10, <3>1, <3>2, <3>4, Zenon
      <4> HIDE DEF F
      <4>2. \A t : F6(t) = Coef(Pseudo(q), t)
        <5> TAKE t
        <5>1. F6(t) = F(t) + (A6(t) - A4(t))
          BY <3>1, <3>4, Zenon
        <5> QED
          BY <2>6, <2>8, <4>1, <5>1
      <4>3. l.field = Pseudo(q)
        BY <2>1, <2>5, <4>2, FormEqual, Zenon DEF F6
      <4> QED
        BY <2>12, <2>13, <3>4, <4>3, Zenon DEF q
    <3>5. CASE ~p.l4.part
      <4> HIDE DEF F
      <4>1. \A t : F(t) + Coef(Pseudo(p), t) + Coef(Bytes(p.l4), t) = 0
        BY <2>9, <3>1, <3>5, Zenon
      <4>2. ASSUME NEW t PROVE F6(t) + Coef(Pseudo(q), t) + Coef(Bytes(l), t) = 0
        BY <2>6, <2>7, <2>8, <3>1, <3>2, <3>3, <3>5, <4>1, SMTT(90)
      <4> QED
        BY <2>11, <2>13, <3>5, <4>2, Zenon DEF q
    <3> QED
      BY <3>4, <3>5
  <2> QED
    BY <2>14, <2>15, <2>16
<1>1. FlowInv => SentIsAccepted
  <2> SUFFICES ASSUME FlowInv, Ran("egress"), ev[1].out.act = "ok", Was.eth = "ip4"
               PROVE  /\ Is.eth = "ip6" /\ Is.src = POD_IP6 /\ Is.dst = Mapped(Was.dst)
                      /\ Is.frag = Was.frag /\ Is.l4.info = Was.l4.info
                      /\ First(Was) /\ CsumEnd(Is.nh) # 0 /\ (FullCsum(Was) \/ Accepted(Was))
                           => Accepted(Is)
    BY Zenon DEF SentIsAccepted
  <2>1. PassesEgress(Was) /\ Is = Packet6Of(Was) /\ IsPodFrame4(Was) /\ IsSent4(Was)
    BY EgressRan
  <2> DEFINE p == Was
  <2>2. Is = Packet6Of(p) /\ IsPodFrame4(p)
    BY <2>1
  <2> HIDE DEF p
  <2>3. /\ Is.eth = "ip6" /\ Is.src = POD_IP6 /\ Is.dst = Mapped(p.dst) /\ Is.frag = p.frag
        /\ Is.l4 = Transport6Of(p) /\ Is.nh = (IF p.proto = "icmp" THEN "icmp6" ELSE p.proto)
    BY <2>2, Packet6Is, Zenon
  <2>4. Is.l4.info = p.l4.info
    BY <2>2, <2>3, Transport6Is, Zenon DEF SameBut
  <2>5. CsumEnd(Is.nh) # 0 => p.proto \in {"tcp", "udp", "icmp"}
    BY <2>2, <2>3 DEF CsumEnd, IsPodFrame4
  <2>6. First(p) /\ CsumEnd(Is.nh) # 0 /\ (FullCsum(p) \/ Accepted(p)) => Accepted(Is)
    BY <2>1, <2>2, <2>5, <1>accepted, Zenon DEF PassesEgress, p
  <2> QED
    BY <2>3, <2>4, <2>6, Zenon DEF p
<1> QED
  BY <1>1, FlowAlways, PTL

-----------------------------------------------------------------------------
(* The packets that leave for P, and the frames that answer them.          *)

Record6(len, plen, frag, nh, src, dst, l4) ==
  [eth |-> "ip6", ver |-> 6, len |-> len, plen |-> plen, frag |-> frag, nh |-> nh,
   src |-> src, dst |-> dst, l4 |-> l4]
RecordL4(tc, info, data, n, dlen, field, part, q) ==
  [tc |-> tc, info |-> info, data |-> data, n |-> n, dlen |-> dlen, field |-> field,
   part |-> part, q |-> q]
IsPacket6(a) ==
  /\ a = Record6(a.len, a.plen, a.frag, a.nh, a.src, a.dst, a.l4)
  /\ IsTransport(a.l4)

LEMMA Record6Is ==
  ASSUME NEW len, NEW plen, NEW frag, NEW nh, NEW src, NEW dst, NEW l4
  PROVE  LET p == Record6(len, plen, frag, nh, src, dst, l4)
         IN /\ p.eth = "ip6" /\ p.ver = 6 /\ p.len = len /\ p.plen = plen /\ p.frag = frag
            /\ p.nh = nh /\ p.src = src /\ p.dst = dst /\ p.l4 = l4
BY Zenon DEF Record6

LEMMA Packet6Eth ==
  ASSUME NEW a, IsPacket6(a)
  PROVE  a.eth = "ip6" /\ a.ver = 6
<1> DEFINE b == Record6(a.len, a.plen, a.frag, a.nh, a.src, a.dst, a.l4)
<1>1. b.eth = "ip6" /\ b.ver = 6
  BY Zenon DEF Record6
<1>2. a = b
  BY Zenon DEF IsPacket6
<1> HIDE DEF b
<1> QED
  BY <1>1, <1>2, Zenon

LEMMA Record6Set ==
  ASSUME NEW q, q = Record6(q.len, q.plen, q.frag, q.nh, q.src, q.dst, q.l4), NEW m
  PROVE  [q EXCEPT !.l4 = m] = Record6(q.len, q.plen, q.frag, q.nh, q.src, q.dst, m)
BY DEF Record6

LEMMA RecordL4Is ==
  ASSUME NEW tc, NEW info, NEW data, NEW n, NEW dlen, NEW field, NEW part, NEW q
  PROVE  LET l == RecordL4(tc, info, data, n, dlen, field, part, q)
         IN /\ l.tc = tc /\ l.info = info /\ l.data = data /\ l.n = n /\ l.dlen = dlen
            /\ l.field = field /\ l.part = part /\ l.q = q
            /\ tc = <<tc[1], tc[2]>> /\ n \in Nat /\ dlen \in Nat /\ part \in BOOLEAN
               /\ IsForm(field) => IsTransport(l)
<1> DEFINE l == RecordL4(tc, info, data, n, dlen, field, part, q)
<1>1. /\ l.tc = tc /\ l.info = info /\ l.data = data /\ l.n = n /\ l.dlen = dlen
      /\ l.field = field /\ l.part = part /\ l.q = q
  BY Zenon DEF RecordL4
<1>2. ASSUME tc = <<tc[1], tc[2]>>, n \in Nat, dlen \in Nat, part \in BOOLEAN, IsForm(field)
      PROVE  IsTransport(l)
  <2>1. l = [tc |-> l.tc, info |-> l.info, data |-> l.data, n |-> l.n, dlen |-> l.dlen,
             field |-> l.field, part |-> l.part, q |-> l.q]
    BY DEF RecordL4
  <2> HIDE DEF l
  <2> QED
    BY <1>1, <1>2, <2>1, Zenon DEF IsTransport
<1> QED
  BY <1>1, <1>2, Zenon

(* One field of a transport part is set. *)
LEMMA RecordL4Set ==
  ASSUME NEW l, l = RecordL4(l.tc, l.info, l.data, l.n, l.dlen, l.field, l.part, l.q), NEW x
  PROVE  /\ [l EXCEPT !.tc = x] = RecordL4(x, l.info, l.data, l.n, l.dlen, l.field, l.part, l.q)
         /\ [l EXCEPT !.info = x] = RecordL4(l.tc, x, l.data, l.n, l.dlen, l.field, l.part, l.q)
         /\ [l EXCEPT !.n = x] = RecordL4(l.tc, l.info, l.data, x, l.dlen, l.field, l.part, l.q)
         /\ [l EXCEPT !.dlen = x] = RecordL4(l.tc, l.info, l.data, l.n, x, l.field, l.part, l.q)
         /\ [l EXCEPT !.field = x] = RecordL4(l.tc, l.info, l.data, l.n, l.dlen, x, l.part, l.q)
         /\ [l EXCEPT !.part = x] = RecordL4(l.tc, l.info, l.data, l.n, l.dlen, l.field, x, l.q)
         /\ [l EXCEPT !.q = x] = RecordL4(l.tc, l.info, l.data, l.n, l.dlen, l.field, l.part, x)
BY DEF RecordL4

LEMMA TransportRecord ==
  ASSUME NEW l, IsTransport(l)
  PROVE  l = RecordL4(l.tc, l.info, l.data, l.n, l.dlen, l.field, l.part, l.q)
BY DEF IsTransport, RecordL4

(* Every packet that left for P is a translation. *)
Left(s, q) == IsPodFrame4(s) /\ IsSent4(s) /\ PassesEgress(s) /\ q = Packet6Of(s)

LEMMA OutgoingIs ==
  ASSUME FlowInv, NEW q \in Outgoing
  PROVE  \E s \in sent : Left(s, q)
BY PodAssumption, Zenon DEF FlowInv, Left, PassesEgress

LEMMA LeftIs ==
  ASSUME NEW s, NEW q, Left(s, q)
  PROVE  /\ IsPacket6(q) /\ q.src = POD_IP6 /\ q.dst = Mapped(s.dst) /\ q.frag = s.frag
         /\ q.l4 = Transport6Of(s) /\ q.plen = Payload6(s) /\ q.l4.q = <<>>
         /\ q.nh = (IF s.proto = "icmp" THEN "icmp6" ELSE s.proto)
         /\ IsFragment(q.frag)
<1>1. /\ q.src = POD_IP6 /\ q.dst = Mapped(s.dst) /\ q.frag = s.frag /\ q.eth = "ip6"
      /\ q.l4 = Transport6Of(s) /\ q.plen = Payload6(s) /\ q.ver = 6
      /\ q.nh = (IF s.proto = "icmp" THEN "icmp6" ELSE s.proto)
  BY Packet6Is, Zenon DEF Left
<1>2. IsTransport(q.l4) /\ q.l4.q = <<>>
  BY <1>1, Transport6Is, Zenon DEF Left, SameBut, IsPodFrame4
<1>3. q = Record6(q.len, q.plen, q.frag, q.nh, q.src, q.dst, q.l4)
  BY Zenon DEF Left, Packet6Of, Record6
<1>4. IsFragment(q.frag)
  BY <1>1, Zenon DEF Left, IsPodFrame4
<1> QED
  BY <1>1, <1>2, <1>3, <1>4, Zenon DEF IsPacket6

(* A completed checksum is all that the device changes. *)
LEMMA FullFieldIs ==
  ASSUME NEW p, IsForm(Pseudo(p)), IsForm(Bytes(p.l4))
  PROVE  /\ IsForm(FullField(p))
         /\ \A t : Coef(FullField(p), t) = - Coef(Pseudo(p), t) - Coef(Bytes(p.l4), t)
<1> DEFINE g == Plus(Pseudo(p), Bytes(p.l4))
<1>1. IsForm(g) /\ \A t : Coef(g, t) = Coef(Pseudo(p), t) + Coef(Bytes(p.l4), t)
  BY PlusIs
<1> HIDE DEF g
<1>2. IsForm(Minus(Zero, g)) /\ \A t : Coef(Minus(Zero, g), t) = Coef(Zero, t) - Coef(g, t)
  BY <1>1, MinusIs, ZeroIs, SMTT(90)
<1>3. \A t : Coef(Pseudo(p), t) \in Int /\ Coef(Bytes(p.l4), t) \in Int
  BY CoefOf, Zenon
<1> QED
  BY <1>1, <1>2, <1>3, ZeroIs, SMTT(90) DEF FullField, g

SameFlow(a, q) ==
  /\ IsPacket6(a) /\ a.len = q.len /\ a.plen = q.plen /\ a.frag = q.frag /\ a.nh = q.nh
  /\ a.src = q.src /\ a.dst = q.dst /\ a.l4.tc = q.l4.tc /\ a.l4.info = q.l4.info
  /\ a.l4.data = q.l4.data /\ a.l4.n = q.l4.n /\ a.l4.dlen = q.l4.dlen /\ a.l4.q = q.l4.q

LEMMA CompletedRecord ==
  ASSUME NEW q, IsPacket6(q), NEW f, NEW b
  PROVE  [q EXCEPT !.l4.field = f, !.l4.part = b] =
           Record6(q.len, q.plen, q.frag, q.nh, q.src, q.dst,
                   RecordL4(q.l4.tc, q.l4.info, q.l4.data, q.l4.n, q.l4.dlen, f, b, q.l4.q))
<1> DEFINE l == q.l4
           k == [l EXCEPT !.field = f]
           m == [k EXCEPT !.part = b]
<1>1. l = RecordL4(l.tc, l.info, l.data, l.n, l.dlen, l.field, l.part, l.q)
  BY TransportRecord DEF IsPacket6
<1>2. [q EXCEPT !.l4.field = f, !.l4.part = b] = [q EXCEPT !.l4 = m]
  BY Zenon DEF IsPacket6, Record6
<1> HIDE DEF l
<1>3. k = RecordL4(l.tc, l.info, l.data, l.n, l.dlen, f, l.part, l.q)
  BY <1>1, RecordL4Set, Zenon
<1> HIDE DEF k
<1>4. /\ k.tc = l.tc /\ k.info = l.info /\ k.data = l.data /\ k.n = l.n /\ k.dlen = l.dlen
      /\ k.field = f /\ k.part = l.part /\ k.q = l.q
  BY <1>3, Zenon DEF RecordL4
<1>5. k = RecordL4(k.tc, k.info, k.data, k.n, k.dlen, k.field, k.part, k.q)
  BY <1>3, <1>4, Zenon
<1>6. m = RecordL4(k.tc, k.info, k.data, k.n, k.dlen, k.field, b, k.q)
  BY <1>5, RecordL4Set, Zenon
<1>7. m = RecordL4(l.tc, l.info, l.data, l.n, l.dlen, f, b, l.q)
  BY <1>4, <1>6
<1> HIDE DEF m
<1>8. [q EXCEPT !.l4 = m] = Record6(q.len, q.plen, q.frag, q.nh, q.src, q.dst, m)
  BY Record6Set DEF IsPacket6
<1> QED
  BY <1>2, <1>7, <1>8 DEF l

LEMMA CompletedShape ==
  ASSUME NEW q, IsPacket6(q), NEW f, IsForm(f), NEW b \in BOOLEAN, NEW a,
         a = Record6(q.len, q.plen, q.frag, q.nh, q.src, q.dst,
                     RecordL4(q.l4.tc, q.l4.info, q.l4.data, q.l4.n, q.l4.dlen, f, b, q.l4.q))
  PROVE  SameFlow(a, q) /\ a.l4.part = b /\ a.l4.field = f
<1> DEFINE l == q.l4
           m == RecordL4(l.tc, l.info, l.data, l.n, l.dlen, f, b, l.q)
<1>1. a = Record6(q.len, q.plen, q.frag, q.nh, q.src, q.dst, m)
  OBVIOUS
<1>2. IsTransport(l)
  BY DEF IsPacket6
<1>3. /\ m.tc = l.tc /\ m.info = l.info /\ m.data = l.data /\ m.n = l.n /\ m.dlen = l.dlen
      /\ m.field = f /\ m.part = b /\ m.q = l.q
  BY Zenon DEF RecordL4
<1>4. m = [tc |-> m.tc, info |-> m.info, data |-> m.data, n |-> m.n, dlen |-> m.dlen,
           field |-> m.field, part |-> m.part, q |-> m.q]
  BY Zenon DEF RecordL4
<1> HIDE DEF m
<1>5. IsTransport(m)
  BY <1>2, <1>3, <1>4, ZenonT(90) DEF IsTransport
<1>6. /\ a.len = q.len /\ a.plen = q.plen /\ a.frag = q.frag /\ a.nh = q.nh
      /\ a.src = q.src /\ a.dst = q.dst /\ a.l4 = m
  BY <1>1, SMTT(90) DEF Record6
<1> QED
  BY <1>1, <1>3, <1>5, <1>6, Zenon DEF IsPacket6, SameFlow

LEMMA CompletedIs ==
  ASSUME NEW q, IsPacket6(q), q.l4.q = <<>>
  PROVE  LET a == Completed(q)
         IN /\ SameFlow(a, q) /\ ~a.l4.part
            /\ a.l4.field = (IF q.l4.part THEN FullField(q) ELSE q.l4.field)
<1>1. CASE ~q.l4.part
  BY <1>1, Zenon DEF Completed, SameFlow
<1>2. CASE q.l4.part
  <2> DEFINE f == FullField(q)
             a == Completed(q)
  <2>1. IsForm(f)
    <3>1. IsForm(Pseudo(q)) /\ IsForm(Bytes(q.l4))
      BY PacketForms, BytesIs, Zenon DEF Pseudo
    <3> QED
      BY <3>1, FullFieldIs, Zenon
  <2>2. a = [q EXCEPT !.l4.field = f, !.l4.part = FALSE]
    BY <1>2, Zenon DEF Completed
  <2> HIDE DEF f, a
  <2>3. PICK b \in BOOLEAN : ~b /\ a = [q EXCEPT !.l4.field = f, !.l4.part = b]
    BY <2>2, Zenon
  <2>4. a = Record6(q.len, q.plen, q.frag, q.nh, q.src, q.dst,
                    RecordL4(q.l4.tc, q.l4.info, q.l4.data, q.l4.n, q.l4.dlen, f, b, q.l4.q))
    BY <2>3, CompletedRecord, ZenonT(90)
  <2>5. SameFlow(a, q) /\ a.l4.part = b /\ a.l4.field = f
    BY <2>1, <2>4, CompletedShape, SMTT(90)
  <2>6. ~a.l4.part
    BY <2>3, <2>5, Zenon
  <2> QED
    BY <1>2, <2>5, <2>6, Zenon DEF f, a
<1> QED
  BY <1>1, <1>2, Zenon

LEMMA FullFieldSame ==
  ASSUME NEW a, NEW b, a.eth = "ip6", b.eth = "ip6", a.src = b.src, a.dst = b.dst, a.nh = b.nh,
         a.l4.dlen = b.l4.dlen, a.l4.tc = b.l4.tc, a.l4.info = b.l4.info, a.l4.data = b.l4.data,
         a.l4.q = b.l4.q
  PROVE  FullField(a) = FullField(b)
<1>1. Pseudo(a) = Pseudo(b)
  BY DEF Pseudo
<1>2. Bytes(a.l4) = Bytes(b.l4)
  BY DEF Bytes, OwnBytes, Payload
<1> QED
  BY <1>1, <1>2 DEF FullField

(* A packet gets its checksum.                                             *)
LEMMA FieldRecord ==
  ASSUME NEW q, IsPacket6(q), NEW f
  PROVE  [q EXCEPT !.l4.field = f] =
           Record6(q.len, q.plen, q.frag, q.nh, q.src, q.dst,
                   RecordL4(q.l4.tc, q.l4.info, q.l4.data, q.l4.n, q.l4.dlen, f, q.l4.part, q.l4.q))
<1> DEFINE l == q.l4
           m == [l EXCEPT !.field = f]
<1>1. l = RecordL4(l.tc, l.info, l.data, l.n, l.dlen, l.field, l.part, l.q)
  BY TransportRecord DEF IsPacket6
<1>2. [q EXCEPT !.l4.field = f] = [q EXCEPT !.l4 = m]
  BY DEF IsPacket6, Record6
<1> HIDE DEF l
<1>3. m = RecordL4(l.tc, l.info, l.data, l.n, l.dlen, f, l.part, l.q)
  BY <1>1, RecordL4Set, Zenon
<1> HIDE DEF m
<1>4. [q EXCEPT !.l4 = m] = Record6(q.len, q.plen, q.frag, q.nh, q.src, q.dst, m)
  BY Record6Set DEF IsPacket6
<1> QED
  BY <1>2, <1>3, <1>4 DEF l

LEMMA FieldSet6 ==
  ASSUME NEW q, IsPacket6(q), NEW f, IsForm(f)
  PROVE  LET a == [q EXCEPT !.l4.field = f]
         IN SameFlow(a, q) /\ a.l4.part = q.l4.part /\ a.l4.field = f
<1> DEFINE a == [q EXCEPT !.l4.field = f]
<1>1. PICK b \in BOOLEAN : b = q.l4.part
  BY Zenon DEF IsPacket6, IsTransport
<1>2. a = Record6(q.len, q.plen, q.frag, q.nh, q.src, q.dst,
                   RecordL4(q.l4.tc, q.l4.info, q.l4.data, q.l4.n, q.l4.dlen, f, b, q.l4.q))
  BY <1>1, FieldRecord, SMTT(90)
<1> HIDE DEF a
<1>3. SameFlow(a, q) /\ a.l4.part = b /\ a.l4.field = f
  BY <1>2, CompletedShape, SMTT(90)
<1> QED
  BY <1>1, <1>3 DEF a

(* The reply to a packet. *)
ReplyLen(frag) == IF frag = <<>> THEN 0 ELSE FRAG_HLEN

LEMMA ReplyIs ==
  ASSUME NEW a, IsPacket6(a), NEW n \in ReplyLens, NEW f \in ReplyFrags,
         NEW p, p = Reply(a, n, f)
  PROVE  /\ IsPacket6(p) /\ p.eth = "ip6" /\ p.ver = 6 /\ p.src = a.dst /\ p.dst = a.src
         /\ p.frag = f /\ p.nh = a.nh /\ p.len = IP6_HLEN + ReplyLen(f) + n
         /\ p.plen = ReplyLen(f) + n /\ p.l4.n = n /\ p.l4.q = <<>> /\ ~p.l4.part
         /\ p.l4.tc = (IF a.l4.tc[1] = 128 THEN <<129, 0>> ELSE a.l4.tc)
         /\ p.l4.info = a.l4.info /\ (f = <<>> => p.l4.dlen = n)
         /\ p.l4.field = (IF First(p) /\ CsumEnd(p.nh) # 0 THEN FullField(p) ELSE Zero)
<1> DEFINE more == IF f = <<>> THEN 0 ELSE 8 * f[1].off + (IF f[1].mf THEN 8 ELSE 0)
           tc == IF a.l4.tc[1] = 128 THEN <<129, 0>> ELSE a.l4.tc
           l == RecordL4(tc, a.l4.info, "reply", n, n + more, Zero, FALSE, <<>>)
           w == Record6(IP6_HLEN + ReplyLen(f) + n, ReplyLen(f) + n, f, a.nh, a.dst, a.src, l)
           F == FullField(w)
<1>1. p = IF First(w) /\ CsumEnd(w.nh) # 0 THEN [w EXCEPT !.l4.field = F] ELSE w
  BY Zenon DEF Reply, Record6, RecordL4, ReplyLen
<1>2. n \in Nat /\ more \in Nat
  <2>1. n \in Nat /\ IsFragment(f)
    BY NetworkAssumption
  <2>2. CASE f = <<>>
    BY <2>1, <2>2
  <2>3. CASE f # <<>>
    <3>1. f[1].off \in Nat
      BY <2>1, <2>3, Zenon DEF IsFragment
    <3> QED
      BY <2>1, <2>3, <3>1
  <2> QED
    BY <2>1, <2>2, <2>3
<1>3. tc = <<tc[1], tc[2]>>
  BY Zenon DEF IsPacket6, IsTransport
<1>4. f = <<>> => n + more = n
  BY <1>2
<1> HIDE DEF more, tc
<1>5. /\ l.tc = tc /\ l.info = a.l4.info /\ l.data = "reply" /\ l.n = n /\ l.dlen = n + more
      /\ l.field = Zero /\ l.q = <<>>
  BY Zenon DEF RecordL4
<1>6. l.part = FALSE
  <2>1. \A b : RecordL4(tc, a.l4.info, "reply", n, n + more, Zero, b, <<>>).part = b
    BY DEF RecordL4
  <2> QED
    BY <2>1, Zenon
<1>7. IsTransport(l)
  <2>1. \A b \in BOOLEAN :
          IsTransport(RecordL4(tc, a.l4.info, "reply", n, n + more, Zero, b, <<>>))
    BY <1>2, <1>3, RecordL4Is, ZeroIs, SMTT(90)
  <2> QED
    BY <2>1, Zenon
<1> HIDE DEF l
<1>8. /\ w.eth = "ip6" /\ w.ver = 6 /\ w.len = IP6_HLEN + ReplyLen(f) + n
      /\ w.plen = ReplyLen(f) + n /\ w.frag = f /\ w.nh = a.nh /\ w.src = a.dst
      /\ w.dst = a.src /\ w.l4 = l
  BY Zenon DEF Record6
<1>9. w = Record6(w.len, w.plen, w.frag, w.nh, w.src, w.dst, w.l4)
  BY <1>8, Zenon
<1> HIDE DEF w
<1>10. IsPacket6(w)
  BY <1>7, <1>8, <1>9, Zenon DEF IsPacket6
<1>11. IsForm(F)
  <2>1. IsForm(Pseudo(w)) /\ IsForm(Bytes(w.l4))
    BY <1>5, <1>8, PacketForms, BytesIs, Zenon DEF Pseudo
  <2> QED
    BY <2>1, FullFieldIs
<1> HIDE DEF F
<1>12. CASE First(w) /\ CsumEnd(w.nh) # 0
  <2>1. p = [w EXCEPT !.l4.field = F]
    BY <1>1, <1>12
  <2>2. SameFlow(p, w) /\ p.l4.part = w.l4.part /\ p.l4.field = F
    BY <1>10, <1>11, <2>1, FieldSet6
  <2>3. p.eth = "ip6" /\ p.ver = 6
    BY <2>2, Packet6Eth, Zenon DEF SameFlow
  <2>4. FullField(p) = FullField(w)
    BY <1>8, <2>2, <2>3, FullFieldSame, Zenon DEF SameFlow
  <2>5. ~p.l4.part
    BY <1>6, <1>8, <2>2, Zenon
  <2>6. First(p) /\ CsumEnd(p.nh) # 0
    BY <1>12, <2>2, Zenon DEF SameFlow, First, IsFrag
  <2>7. p.l4.field = FullField(p)
    BY <2>2, <2>4 DEF F
  <2> QED
    BY <1>4, <1>5, <1>8, <2>2, <2>3, <2>5, <2>6, <2>7, ZenonT(90) DEF SameFlow, tc
<1>13. CASE ~(First(w) /\ CsumEnd(w.nh) # 0)
  <2>1. p = w
    BY <1>1, <1>13
  <2>2. ~w.l4.part
    BY <1>6, <1>8, Zenon
  <2> QED
    BY <1>4, <1>5, <1>6, <1>8, <1>10, <1>13, <2>1, <2>2, ZenonT(90) DEF tc
<1> QED
  BY <1>12, <1>13, Zenon

(* The bytes of a quoted packet, and of the message that quotes it. *)
ProtoOf(q) == IF q.eth = "ip4" THEN q.proto ELSE q.nh
HeadOf(q) == IF q.eth = "ip4" THEN Header4(q) ELSE Header6(q)
QData(l) == Sum({<<"qdata", l.info, l.data, l.n>>})

LEMMA QuotedBytesIs ==
  ASSUME NEW q, IsForm(q.l4.field)
  PROVE  /\ IsForm(QuotedBytes(q)) /\ IsForm(HeadOf(q))
         /\ \A t : Coef(QuotedBytes(q), t) =
                     Coef(HeadOf(q), t) + Coef(TypeWord(q.l4.tc), t) + Coef(QData(q.l4), t)
                     + (IF HasField(ProtoOf(q), q.l4) THEN Coef(q.l4.field, t) ELSE 0)
<1> DEFINE w == TypeWord(q.l4.tc)
           d == QData(q.l4)
           h == HeadOf(q)
           f == IF HasField(ProtoOf(q), q.l4) THEN q.l4.field ELSE Zero
<1>1. QuotedBytes(q) = Plus(Plus(h, Plus(w, d)), f)
  BY Zenon DEF QuotedBytes, HeadOf, ProtoOf, QData
<1>2. IsForm(w) /\ IsForm(d) /\ IsForm(h)
  BY SumIs, Zenon DEF TypeWord, QData, HeadOf, Header4, Header6
<1>3. IsForm(f) /\ \A t : Coef(f, t) = IF HasField(ProtoOf(q), q.l4) THEN Coef(q.l4.field, t) ELSE 0
  BY ZeroIs, Zenon
<1> HIDE DEF w, d, h, f
<1>4. IsForm(Plus(w, d)) /\ \A t : Coef(Plus(w, d), t) = Coef(w, t) + Coef(d, t)
  BY <1>2, PlusIs
<1>5. /\ IsForm(Plus(h, Plus(w, d)))
      /\ \A t : Coef(Plus(h, Plus(w, d)), t) = Coef(h, t) + Coef(Plus(w, d), t)
  BY <1>2, <1>4, PlusIs, SMTT(90)
<1>6. /\ IsForm(QuotedBytes(q))
      /\ \A t : Coef(QuotedBytes(q), t) = Coef(Plus(h, Plus(w, d)), t) + Coef(f, t)
  BY <1>1, <1>3, <1>5, PlusIs, SMTT(90)
<1>7. \A t : Coef(w, t) \in Int /\ Coef(d, t) \in Int /\ Coef(h, t) \in Int /\ Coef(f, t) \in Int
  BY <1>2, <1>3, CoefOf, Zenon
<1>8. \A t : Coef(QuotedBytes(q), t) = Coef(h, t) + Coef(w, t) + Coef(d, t) + Coef(f, t)
  BY <1>4, <1>5, <1>6, <1>7, SMTT(90)
<1> QED
  BY <1>2, <1>3, <1>6, <1>8, Zenon DEF w, d, h

LEMMA ErrorBytesIs ==
  ASSUME NEW l, l.q # <<>>, IsForm(l.q[1].l4.field)
  PROVE  /\ IsForm(Bytes(l))
         /\ \A t : Coef(Bytes(l), t) = Coef(OwnBytes(l), t) + Coef(QuotedBytes(l.q[1]), t)
<1>1. IsForm(OwnBytes(l)) /\ IsForm(QuotedBytes(l.q[1]))
  BY PacketForms, QuotedBytesIs, Zenon
<1> QED
  BY <1>1, PlusIs, Zenon DEF Bytes

(* The error about a packet. *)
QuoteOf(a, c) ==
  Record6(a.len, a.plen, a.frag, a.nh, a.src, a.dst,
          RecordL4(a.l4.tc, a.l4.info, a.l4.data, Min2(a.l4.n, c), a.l4.dlen, a.l4.field,
                   a.l4.part, a.l4.q))

LEMMA QuoteIs ==
  ASSUME NEW a, IsPacket6(a), NEW c \in Nat, NEW i, i = QuoteOf(a, c)
  PROVE  /\ [a EXCEPT !.l4.n = Min2(@, c)] = i
         /\ IsPacket6(i) /\ i.eth = "ip6" /\ i.ver = 6 /\ i.len = a.len /\ i.plen = a.plen
         /\ i.frag = a.frag /\ i.nh = a.nh /\ i.src = a.src /\ i.dst = a.dst
         /\ i.l4.tc = a.l4.tc /\ i.l4.info = a.l4.info /\ i.l4.data = a.l4.data
         /\ i.l4.n = Min2(a.l4.n, c) /\ i.l4.dlen = a.l4.dlen /\ i.l4.field = a.l4.field
         /\ i.l4.part = a.l4.part /\ i.l4.q = a.l4.q
         /\ i.l4.n \in Nat /\ i.l4.n <= c
<1> DEFINE l == a.l4
           x == Min2(l.n, c)
           m == [l EXCEPT !.n = x]
<1>1. IsTransport(l) /\ l = RecordL4(l.tc, l.info, l.data, l.n, l.dlen, l.field, l.part, l.q)
  BY TransportRecord DEF IsPacket6
<1>2. x \in Nat /\ x <= c
  BY <1>1, SMTT(90) DEF IsTransport, Min2
<1>3. [a EXCEPT !.l4.n = Min2(@, c)] = [a EXCEPT !.l4 = m]
  BY <1>1 DEF IsPacket6, Record6
<1> HIDE DEF x
<1>4. m = RecordL4(l.tc, l.info, l.data, x, l.dlen, l.field, l.part, l.q)
  BY <1>1, RecordL4Set, Zenon
<1>5. i = Record6(a.len, a.plen, a.frag, a.nh, a.src, a.dst, m)
  BY <1>4 DEF QuoteOf, x
<1> HIDE DEF m, l
<1>6. [a EXCEPT !.l4 = m] = i
  BY <1>5, Record6Set DEF IsPacket6
<1>7. /\ m.tc = l.tc /\ m.info = l.info /\ m.data = l.data /\ m.n = x /\ m.dlen = l.dlen
      /\ m.field = l.field /\ m.part = l.part /\ m.q = l.q
  BY <1>4, Zenon DEF RecordL4
<1>8. m = [tc |-> m.tc, info |-> m.info, data |-> m.data, n |-> m.n, dlen |-> m.dlen,
           field |-> m.field, part |-> m.part, q |-> m.q]
  BY <1>4, <1>7, Zenon DEF RecordL4
<1>9. IsTransport(m)
  BY <1>1, <1>2, <1>7, <1>8, Zenon DEF IsTransport
<1>10. /\ i.eth = "ip6" /\ i.ver = 6 /\ i.len = a.len /\ i.plen = a.plen /\ i.frag = a.frag
       /\ i.nh = a.nh /\ i.src = a.src /\ i.dst = a.dst /\ i.l4 = m
  BY <1>5 DEF Record6
<1>11. IsPacket6(i)
  BY <1>5, <1>9, <1>10, Zenon DEF IsPacket6
<1> QED
  BY <1>2, <1>3, <1>6, <1>7, <1>10, <1>11 DEF l, x

LEMMA ErrorIs ==
  ASSUME NEW a, IsPacket6(a), NEW s \in ErrorSources, NEW k \in ErrorKinds, NEW c \in QuoteCuts,
         NEW p, p = ErrorAbout(a, s, k, c), NEW i, i = QuoteOf(a, c)
  PROVE  /\ IsPacket6(p) /\ p.eth = "ip6" /\ p.ver = 6 /\ p.src = s /\ p.dst = a.src
         /\ p.frag = <<>> /\ p.nh = "icmp6" /\ p.len = IP6_HLEN + p.l4.n /\ p.plen = p.l4.n
         /\ p.l4.n = 8 + IP6_HLEN + ReplyLen(a.frag) + i.l4.n /\ p.l4.dlen = p.l4.n
         /\ p.l4.q = << i >> /\ ~p.l4.part /\ p.l4.tc = <<k[1], k[2]>> /\ p.l4.info = k[3]
         /\ p.l4.field = FullField(p)
<1> DEFINE n == 8 + IP6_HLEN + ReplyLen(a.frag) + i.l4.n
           l == RecordL4(<<k[1], k[2]>>, k[3], "error", n, n, Zero, FALSE, << i >>)
           w == Record6(IP6_HLEN + n, n, <<>>, "icmp6", s, a.src, l)
           F == FullField(w)
<1>1. c \in Nat
  BY NetworkAssumption
<1>2. [a EXCEPT !.l4.n = Min2(@, c)] = i /\ i.l4.n \in Nat /\ IsForm(i.l4.field)
  <2>1. [a EXCEPT !.l4.n = Min2(@, c)] = i /\ i.l4.n \in Nat /\ IsPacket6(i)
    BY <1>1, QuoteIs
  <2> QED
    BY <2>1, Zenon DEF IsPacket6, IsTransport
<1>3. p = [w EXCEPT !.l4.field = F]
  <2> DEFINE j == [a EXCEPT !.l4.n = Min2(@, c)]
             N == 8 + IP6_HLEN + (IF IsFrag(a) THEN FRAG_HLEN ELSE 0) + j.l4.n
             P == [eth |-> "ip6", ver |-> 6, len |-> IP6_HLEN + N, plen |-> N,
                   frag |-> <<>>, nh |-> "icmp6", src |-> s, dst |-> a.src,
                   l4  |-> [tc |-> <<k[1], k[2]>>, info |-> k[3], data |-> "error",
                            n |-> N, dlen |-> N, field |-> Zero, part |-> FALSE,
                            q |-> << j >>]]
  <2>1. p = [P EXCEPT !.l4.field = FullField(P)]
    BY Zenon DEF ErrorAbout
  <2>2. N = n
    BY <1>2, Zenon DEF IsFrag, ReplyLen
  <2>3. j = i
    BY <1>2
  <2> HIDE DEF j, N, n
  <2>4. P = w
    BY <2>2, <2>3, Zenon DEF Record6, RecordL4
  <2> QED
    BY <2>1, <2>4, Zenon
<1>4. n \in Nat
  BY <1>2 DEF ReplyLen, IP6_HLEN, FRAG_HLEN
<1> HIDE DEF n
<1>5. /\ l.tc = <<k[1], k[2]>> /\ l.info = k[3] /\ l.data = "error" /\ l.n = n /\ l.dlen = n
      /\ l.field = Zero /\ l.q = << i >>
  BY Zenon DEF RecordL4
<1>6. l.part = FALSE
  <2>1. \A b : RecordL4(<<k[1], k[2]>>, k[3], "error", n, n, Zero, b, << i >>).part = b
    BY Zenon DEF RecordL4
  <2> QED
    BY <2>1, Zenon
<1>7. IsTransport(l)
  <2>1. \A b \in BOOLEAN :
          IsTransport(RecordL4(<<k[1], k[2]>>, k[3], "error", n, n, Zero, b, << i >>))
    BY <1>4, RecordL4Is, ZeroIs, Zenon
  <2> QED
    BY <2>1, Zenon
<1> HIDE DEF l
<1>8. /\ w.eth = "ip6" /\ w.ver = 6 /\ w.len = IP6_HLEN + n /\ w.plen = n /\ w.frag = <<>>
      /\ w.nh = "icmp6" /\ w.src = s /\ w.dst = a.src /\ w.l4 = l
  BY Zenon DEF Record6
<1>9. w = Record6(w.len, w.plen, w.frag, w.nh, w.src, w.dst, w.l4)
  BY <1>8, Zenon
<1> HIDE DEF w
<1>10. IsPacket6(w)
  BY <1>7, <1>8, <1>9, Zenon DEF IsPacket6
<1>11. IsForm(F)
  <2>0. w.l4.q = << i >>
    BY <1>5, <1>8, Zenon
  <2>1. w.l4.q # <<>> /\ w.l4.q[1] = i
    BY <2>0
  <2>2. IsForm(Pseudo(w)) /\ IsForm(Bytes(w.l4))
    BY <1>2, <1>8, <2>1, PacketForms, ErrorBytesIs DEF Pseudo
  <2> QED
    BY <2>2, FullFieldIs
<1> HIDE DEF F
<1>12. SameFlow(p, w) /\ p.l4.part = w.l4.part /\ p.l4.field = F
  BY <1>3, <1>10, <1>11, FieldSet6
<1>13. p.eth = "ip6" /\ p.ver = 6
  BY <1>12, Packet6Eth, Zenon DEF SameFlow
<1>14. FullField(p) = FullField(w)
  BY <1>8, <1>12, <1>13, FullFieldSame, ZenonT(90) DEF SameFlow
<1>15. ~p.l4.part
  BY <1>6, <1>8, <1>12, Zenon
<1> QED
  BY <1>5, <1>8, <1>12, <1>13, <1>14, <1>15, ZenonT(90) DEF SameFlow, F, n

-----------------------------------------------------------------------------
(* What an answer is about: the frame the pod sent, the packet it became,  *)
(* and what the network saw of that.                                       *)
About(s, q, a) == s \in sent /\ Left(s, q) /\ q \in Outgoing /\ a \in {q, Completed(q)}

LEMMA AboutIs ==
  ASSUME NEW s, NEW q, NEW a, About(s, q, a)
  PROVE  /\ IsPacket6(a) /\ a.src = POD_IP6 /\ a.dst = Mapped(s.dst) /\ a.frag = s.frag
         /\ IsFragment(a.frag) /\ a.plen = Payload6(s)
         /\ a.nh = (IF s.proto = "icmp" THEN "icmp6" ELSE s.proto)
         /\ a.l4.tc = Transport6Of(s).tc /\ a.l4.info = s.l4.info /\ a.l4.data = s.l4.data
         /\ a.l4.n = s.l4.n /\ a.l4.dlen = s.l4.dlen /\ a.l4.q = <<>>
<1>1. /\ IsPacket6(q) /\ q.src = POD_IP6 /\ q.dst = Mapped(s.dst) /\ q.frag = s.frag
      /\ q.l4 = Transport6Of(s) /\ q.plen = Payload6(s) /\ q.l4.q = <<>> /\ IsFragment(q.frag)
      /\ q.nh = (IF s.proto = "icmp" THEN "icmp6" ELSE s.proto)
  BY LeftIs, Zenon DEF About
<1>2. SameFlow(a, q)
  <2>1. CASE a = q
    BY <1>1, <2>1, Zenon DEF SameFlow
  <2>2. CASE a = Completed(q)
    BY <1>1, <2>2, CompletedIs, Zenon
  <2> QED
    BY <2>1, <2>2 DEF About
<1>3. SameBut(s.l4, q.l4)
  BY <1>1, Transport6Is, Zenon DEF About, Left
<1> QED
  BY <1>1, <1>2, <1>3, Zenon DEF SameFlow, SameBut

LEMMA ReplyAbout ==
  ASSUME FlowInv, NEW q \in Outgoing, NEW p, IsReply(q, p)
  PROVE  \E s : /\ About(s, q, Completed(q)) /\ Completed(q).l4.tc[1] # 129
                /\ \E n \in ReplyLens, f \in ReplyFrags : p = Reply(Completed(q), n, f)
<1>1. PICK s \in sent : Left(s, q)
  BY OutgoingIs
<1>2. About(s, q, Completed(q)) /\ About(s, q, q)
  BY <1>1 DEF About
<1>3. Completed(q).l4.tc = q.l4.tc
  <2>1. Completed(q).l4.tc = Transport6Of(s).tc /\ q.l4.tc = Transport6Of(s).tc
    BY <1>2, AboutIs, Zenon
  <2> QED
    BY <2>1, Zenon
<1> QED
  BY <1>2, <1>3, ZenonT(90) DEF IsReply

LEMMA ErrorAboutIs ==
  ASSUME FlowInv, NEW q \in Outgoing, NEW p, IsError(q, p)
  PROVE  \E s, a : /\ About(s, q, a)
                   /\ \E r \in ErrorSources, k \in ErrorKinds, c \in QuoteCuts :
                        p = ErrorAbout(a, r, k, c)
<1>1. PICK s \in sent : Left(s, q)
  BY OutgoingIs
<1>2. \A a \in {q, Completed(q)} : About(s, q, a)
  BY <1>1 DEF About
<1> QED
  BY <1>2, Zenon DEF IsError

(* The program takes on exactly the frames of CLAT flows. *)
LEMMA ReturnTrafficIs ==
  ASSUME FlowInv, NEW p, Comes(p)
  PROVE  ReturnTraffic(p) <=> ClatFlow(p) /\ p.len >= IP6_HLEN + FRAG_HLEN
<1>1. CASE p \in NativeFrames /\ p.eth # "ip6"
  BY <1>1, Zenon DEF ReturnTraffic, ClatFlow
<1>2. CASE p \in NativeFrames /\ p.eth = "ip6"
  <2>1. /\ p.ver = 6 /\ (p.l4.q = <<>> \/ p.l4.q = << p.l4.q[1] >>)
        /\ p.l4.q # <<>> => ~(p.l4.q[1].src = POD_IP6 /\ p.l4.q[1].dst.net = "clat")
    BY <1>2, NativeAssumption, Zenon
  <2>2. ~RouterError(p)
    BY <2>1, Zenon DEF RouterError, QuotesUs, addr6_eq, in_prefix
  <2>3. \A i \in DOMAIN p.l4.q : p.l4.q # <<>> /\ p.l4.q[i] = p.l4.q[1]
    <3>1. CASE p.l4.q = <<>>
      BY <3>1
    <3>2. CASE p.l4.q = << p.l4.q[1] >>
      <4> DEFINE x == p.l4.q[1]
      <4>1. p.l4.q = << x >>
        BY <3>2
      <4> HIDE DEF x
      <4>2. DOMAIN p.l4.q = {1} /\ p.l4.q # <<>>
        BY <4>1
      <4> QED
        BY <4>2
    <3> QED
      BY <2>1, <3>1, <3>2, Zenon
  <2>4. \A s \in Outgoing : s.src = POD_IP6 /\ s.dst.net = "clat"
    BY OutgoingIs, LeftIs, Zenon DEF Outgoing
  <2>5. ~\E q \in Quoted(p), s \in Outgoing : q.src = s.src /\ q.dst = s.dst
    BY <2>1, <2>3, <2>4 DEF Quoted
  <2> QED
    BY <1>2, <2>1, <2>2, <2>5, Zenon DEF ReturnTraffic, ClatFlow, addr6_eq, in_prefix
<1>3. ASSUME NEW q \in Outgoing, IsReply(q, p)
      PROVE  ReturnTraffic(p) <=> ClatFlow(p) /\ p.len >= IP6_HLEN + FRAG_HLEN
  <2>1. PICK s : /\ About(s, q, Completed(q))
                 /\ \E n \in ReplyLens, f \in ReplyFrags : p = Reply(Completed(q), n, f)
    BY <1>3, ReplyAbout, Zenon
  <2> DEFINE a == Completed(q)
  <2>2. IsPacket6(a) /\ a.src = POD_IP6 /\ a.dst = Mapped(s.dst)
    BY <2>1, AboutIs, Zenon
  <2>3. p.eth = "ip6" /\ p.ver = 6 /\ p.src = a.dst /\ p.dst = a.src
    <3>1. PICK n \in ReplyLens, f \in ReplyFrags : p = Reply(a, n, f)
      BY <2>1, Zenon
    <3> HIDE DEF a
    <3> QED
      BY <2>2, <3>1, ReplyIs
  <2>4. p.src.net = "clat" /\ p.dst = POD_IP6
    BY <2>2, <2>3 DEF Mapped
  <2> QED
    BY <2>3, <2>4 DEF ReturnTraffic, ClatFlow, addr6_eq, in_prefix
<1>4. ASSUME NEW q \in Outgoing, IsError(q, p)
      PROVE  ReturnTraffic(p) <=> ClatFlow(p) /\ p.len >= IP6_HLEN + FRAG_HLEN
  <2>1. PICK s, a : /\ About(s, q, a)
                    /\ \E r \in ErrorSources, k \in ErrorKinds, c \in QuoteCuts :
                         p = ErrorAbout(a, r, k, c)
    BY <1>4, ErrorAboutIs
  <2>2. PICK r \in ErrorSources, k \in ErrorKinds, c \in QuoteCuts : p = ErrorAbout(a, r, k, c)
    BY <2>1
  <2> DEFINE i == QuoteOf(a, c)
  <2>3. IsPacket6(a) /\ a.src = POD_IP6 /\ a.dst = Mapped(s.dst)
    BY <2>1, AboutIs, Zenon
  <2>4. c \in Nat /\ k[1] \in 1..4
    BY NetworkAssumption
  <2>5. i.ver = 6 /\ i.src = POD_IP6 /\ i.dst = Mapped(s.dst) /\ i.l4.n \in Nat
    BY <2>3, <2>4, QuoteIs
  <2>6. /\ p.eth = "ip6" /\ p.ver = 6 /\ p.dst = POD_IP6 /\ p.frag = <<>> /\ p.nh = "icmp6"
        /\ p.len = IP6_HLEN + p.l4.n /\ p.l4.n = 8 + IP6_HLEN + ReplyLen(a.frag) + i.l4.n
        /\ p.l4.q = << i >> /\ p.l4.tc = <<k[1], k[2]>>
    <3> DEFINE e == ErrorAbout(a, r, k, c)
    <3>1. IsPacket6(a)
      BY <2>3
    <3>2. e = ErrorAbout(a, r, k, c) /\ i = QuoteOf(a, c)
      OBVIOUS
    <3> HIDE DEF e, i
    <3>3. /\ e.eth = "ip6" /\ e.ver = 6 /\ e.dst = a.src /\ e.frag = <<>> /\ e.nh = "icmp6"
          /\ e.len = IP6_HLEN + e.l4.n /\ e.l4.n = 8 + IP6_HLEN + ReplyLen(a.frag) + i.l4.n
          /\ e.l4.q = << i >> /\ e.l4.tc = <<k[1], k[2]>>
      BY <3>1, <3>2, ErrorIs
    <3>4. p = e
      BY <2>2, <3>2
    <3> QED
      BY <2>3, <3>3, <3>4, Zenon
  <2> HIDE DEF i
  <2>7. p.len >= IP6_HLEN + 8 + IP6_HLEN /\ p.len >= IP6_HLEN + FRAG_HLEN
    BY <2>5, <2>6 DEF ReplyLen, IP6_HLEN, FRAG_HLEN
  <2>8. p.l4.q # <<>> /\ p.l4.q[1] = i /\ 1 \in DOMAIN p.l4.q
    BY <2>6
  <2>9. p.l4.tc[1] = k[1]
    BY <2>6
  <2>10. RouterError(p)
    BY <2>4, <2>5, <2>6, <2>7, <2>8, <2>9
       DEF RouterError, QuotesUs, addr6_eq, in_prefix, IsFrag, Mapped
  <2>11. q.src = POD_IP6 /\ q.dst = Mapped(s.dst)
    BY <2>1, LeftIs, Zenon DEF About
  <2>12. i \in Quoted(p)
    BY <2>6, <2>8, Zenon DEF Quoted
  <2>13. ClatFlow(p)
    BY <2>5, <2>6, <2>11, <2>12, Zenon DEF ClatFlow
  <2> QED
    BY <2>6, <2>7, <2>10, <2>13 DEF ReturnTraffic, addr6_eq
<1> QED
  BY <1>1, <1>2, <1>3, <1>4, Zenon DEF Comes

(* The programs touch exactly the frames of CLAT flows: any other frame    *)
(* passes unchanged and uncounted, and no frame of a CLAT flow passes as   *)
(* it is.  It holds for any mixture of flows, answers and native frames.   *)
THEOREM OnlyClatTouched == Spec => []TouchesClatOnly
<1>1. FlowInv => TouchesClatOnly
  <2> SUFFICES ASSUME FlowInv PROVE TouchesClatOnly
    OBVIOUS
  <2> DEFINE o == ev[1].out
             p == Was
  <2>1. ASSUME Ran("egress") PROVE Business("egress") <=> ev[1].out # Pass(Was)
    <3>1. o \in clat_egress(p)
      BY <2>1, ZenonT(90) DEF FlowInv, LastRun, Ran, Was
    <3> HIDE DEF o, p
    <3>2. p.eth # "ip4" <=> o = Pass(p)
      BY <3>1, EgressOutcome DEF Pass, DROP, Translated, PassesEgress
    <3> QED
      BY <3>2 DEF Business, o, p
  <2>2. ASSUME Ran("ingress") PROVE Business("ingress") <=> ev[1].out # Pass(Was)
    <3>1. o \in clat_ingress(p) /\ Comes(p)
      BY <2>2 DEF FlowInv, LastRun, Ran, Was
    <3> HIDE DEF o, p
    <3>2. Unread(p) # Pass(p)
      <4>1. "pulled" \in DOMAIN Unread(p) /\ "pulled" \notin DOMAIN Pass(p)
        BY DEF Unread, Pass
      <4> QED
        BY <4>1
    <3>3. \A c : DROP(c) # Pass(p)
      BY DEF DROP, Pass
    <3>4. \A x : Translated("INGRESS_TRANSLATED", x) # Pass(p)
      BY DEF Translated, Pass
    <3>5. \/ ~ReturnTraffic(p) /\ o = Pass(p)
          \/ ReturnTraffic(p) /\ (o = Unread(p) \/ \E c : o = DROP(c))
          \/ ReturnTraffic(p) /\ \E x : o = Translated("INGRESS_TRANSLATED", x)
      BY <3>1, IngressOutcome DEF PassesIngress
    <3>6. ReturnTraffic(p) <=> o # Pass(p)
      BY <3>2, <3>3, <3>4, <3>5, Zenon
    <3> QED
      BY <3>1, <3>6, ReturnTrafficIs DEF Business, o, p
  <2> QED
    BY <2>1, <2>2 DEF TouchesClatOnly
<1> QED
  BY <1>1, FlowAlways, PTL
=============================================================================
