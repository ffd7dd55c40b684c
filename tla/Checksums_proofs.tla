-------------------------- MODULE Checksums_proofs --------------------------
(***************************************************************************)
(* For every word size, every sum and both widths of bpf_csum_diff: what   *)
(* clat_egress and clat_ingress make of a checksum field is accepted by    *)
(* the receiver.  And for any chunk size, any number of chunks and any     *)
(* datagram: the bounded loop and the masked tail of udp_full_csum sum     *)
(* every byte once, and the function gives up exactly when it must.  That  *)
(* the bytes add up to the right checksum is left to TLC.                  *)
(***************************************************************************)
EXTENDS Checksums, TLAPS

-----------------------------------------------------------------------------
(* One's complement arithmetic is arithmetic modulo H - 1, with two forms  *)
(* of zero.                                                                *)

Cong(x, y) == \E k \in Int : x - y = k * (H - 1)

LEMMA CongSame == ASSUME NEW x \in Int PROVE Cong(x, x)
<1>1. x - x = 0 * (H - 1)
  BY HAssumption
<1> QED
  BY <1>1 DEF Cong

LEMMA CongBack ==
  ASSUME NEW x \in Int, NEW y \in Int, Cong(x, y)
  PROVE  Cong(y, x) /\ Cong(-x, -y)
<1>1. PICK k \in Int : x - y = k * (H - 1)
  BY DEF Cong
<1>2. y - x = (-k) * (H - 1) /\ (-x) - (-y) = (-k) * (H - 1)
  BY <1>1, HAssumption
<1> QED
  BY <1>2 DEF Cong

LEMMA CongAdd ==
  ASSUME NEW x \in Int, NEW y \in Int, NEW u \in Int, NEW v \in Int, Cong(x, y), Cong(u, v)
  PROVE  Cong(x + u, y + v)
<1>1. PICK k \in Int : x - y = k * (H - 1)
  BY DEF Cong
<1>2. PICK n \in Int : u - v = n * (H - 1)
  BY DEF Cong
<1>3. (x + u) - (y + v) = (k + n) * (H - 1)
  BY <1>1, <1>2, HAssumption
<1> QED
  BY <1>3 DEF Cong

LEMMA CongTrans ==
  ASSUME NEW x \in Int, NEW y \in Int, NEW z \in Int, Cong(x, y), Cong(y, z)
  PROVE  Cong(x, z)
<1>1. PICK k \in Int : x - y = k * (H - 1)
  BY DEF Cong
<1>2. PICK n \in Int : y - z = n * (H - 1)
  BY DEF Cong
<1>3. x - z = (k + n) * (H - 1)
  BY <1>1, <1>2, HAssumption
<1> QED
  BY <1>3 DEF Cong

(* The two forms of zero. *)
LEMMA TwoZeroes ==
  ASSUME NEW v \in Half, Cong(v, 0)
  PROVE  v = 0 \/ v = H - 1
<1>1. PICK k \in Int : v - 0 = k * (H - 1)
  BY DEF Cong
<1>2. CASE k <= 0
  <2>1. k * (H - 1) <= 0
    BY <1>2, HAssumption
  <2> QED
    BY <1>1, <2>1, HAssumption DEF Half
<1>3. CASE k >= 2
  <2>1. k * (H - 1) >= 2 * (H - 1)
    BY <1>3, HAssumption
  <2> QED
    BY <1>1, <2>1, HAssumption DEF Half
<1>4. CASE k = 1
  BY <1>1, <1>4, HAssumption DEF Half
<1> QED
  BY <1>2, <1>3, <1>4

LEMMA AllOnes == H - 1 \in Half /\ H - 1 # 0 /\ H - 1 \in Int /\ Cong(H - 1, 0)
<1>1. (H - 1) - 0 = 1 * (H - 1)
  BY HAssumption
<1>2. Cong(H - 1, 0)
  BY <1>1 DEF Cong
<1> QED
  BY <1>2, HAssumption DEF Half

LEMMA WSize == W \in Nat /\ W > 2 * H /\ W - 1 = (H + 1) * (H - 1) /\ H \in Nat /\ H > 2
<1>1. H * H >= 3 * H
  BY HAssumption
<1> QED
  BY <1>1, HAssumption DEF W

LEMMA Complements ==
  /\ \A x \in Half : not16(x) \in Half /\ Cong(not16(x), -x)
  /\ \A x \in Wide : not32(x) \in Wide /\ Cong(not32(x), -x)
<1>1. ASSUME NEW x \in Half PROVE not16(x) \in Half /\ Cong(not16(x), -x)
  <2>1. (H - 1 - x) - (-x) = 1 * (H - 1)
    BY HAssumption DEF Half
  <2>2. Cong(not16(x), -x)
    BY <2>1 DEF Cong, not16
  <2>3. not16(x) \in Half
    BY HAssumption DEF Half, not16
  <2> QED
    BY <2>2, <2>3
<1>2. ASSUME NEW x \in Wide PROVE not32(x) \in Wide /\ Cong(not32(x), -x)
  <2>1. (W - 1 - x) - (-x) = (H + 1) * (H - 1)
    BY WSize DEF Wide
  <2>2. H + 1 \in Int
    BY HAssumption
  <2>3. Cong(not32(x), -x)
    BY <2>1, <2>2 DEF Cong, not32
  <2>4. not32(x) \in Wide
    BY WSize DEF Wide, not32
  <2> QED
    BY <2>3, <2>4
<1> QED
  BY <1>1, <1>2

LEMMA CsumAdd ==
  ASSUME NEW a \in Wide, NEW b \in Wide
  PROVE  /\ csum_add(a, b) \in Wide
         /\ Cong(csum_add(a, b), a + b)
         /\ csum_add(a, b) = 0 <=> a = 0 /\ b = 0
<1>1. a \in Int /\ b \in Int /\ a >= 0 /\ b >= 0 /\ a < W /\ b < W
  BY WSize DEF Wide
<1>2. CASE a + b >= W
  <2>1. (a + b - W + 1) - (a + b) = (-(H + 1)) * (H - 1) /\ -(H + 1) \in Int
    BY <1>1, WSize
  <2>2. csum_add(a, b) = a + b - W + 1
    BY <1>2 DEF csum_add
  <2>3. Cong(csum_add(a, b), a + b)
    BY <2>1, <2>2 DEF Cong
  <2> QED
    BY <1>1, <1>2, <2>2, <2>3, WSize DEF Wide
<1>3. CASE ~(a + b >= W)
  BY <1>1, <1>3, CongSame, WSize DEF csum_add, Wide
<1> QED
  BY <1>2, <1>3

LEMMA DivMod ==
  ASSUME NEW s \in Nat
  PROVE  /\ s \div H \in Nat /\ s % H \in 0..(H - 1)
         /\ s = H * (s \div H) + (s % H)
  BY HAssumption

LEMMA FoldOnce ==
  ASSUME NEW s \in Nat
  PROVE  /\ fold_once(s) \in Nat /\ Cong(fold_once(s), s)
         /\ fold_once(s) = 0 <=> s = 0
         /\ s < W => fold_once(s) <= 2 * (H - 1)
         /\ s <= 2 * (H - 1) => fold_once(s) <= H - 1
<1> DEFINE q == s \div H
           r == s % H
<1>1. /\ q \in Nat /\ r \in Nat /\ r <= H - 1
      /\ s = H * q + r /\ fold_once(s) = r + q
  BY DivMod, HAssumption DEF fold_once
<1> HIDE DEF q, r
<1>2. H \in Nat /\ H > 2
  BY HAssumption
<1>3. (r + q) - s = (-q) * (H - 1) /\ -q \in Int
  BY <1>1, <1>2
<1>4. Cong(fold_once(s), s)
  BY <1>1, <1>3 DEF Cong
<1>5. H * q >= 0 /\ (H * q = 0 <=> q = 0)
  BY <1>1, <1>2
<1>6. fold_once(s) \in Nat /\ (fold_once(s) = 0 <=> s = 0)
  BY <1>1, <1>2, <1>5
<1>7. ASSUME s < W PROVE fold_once(s) <= 2 * (H - 1)
  <2>1. q <= H - 1
    <3> SUFFICES ASSUME q >= H PROVE FALSE
      BY <1>1, <1>2
    <3>1. H * q >= H * H
      BY <1>1, <1>2
    <3> QED
      BY <3>1, <1>1, <1>2, <1>7 DEF W
  <2> QED
    BY <1>1, <1>2, <2>1
<1>8. ASSUME s <= 2 * (H - 1) PROVE fold_once(s) <= H - 1
  <2>1. q <= 1
    <3> SUFFICES ASSUME q >= 2 PROVE FALSE
      BY <1>1, <1>2
    <3>1. H * q >= H * 2
      BY <1>1, <1>2
    <3> QED
      BY <3>1, <1>1, <1>2, <1>8
  <2>2. CASE q = 0
    BY <1>1, <1>2, <2>2
  <2>3. CASE q = 1
    BY <1>1, <1>2, <1>8, <2>3
  <2> QED
    BY <1>1, <2>1, <2>2, <2>3
<1> QED
  BY <1>4, <1>6, <1>7, <1>8

(* csum_fold: the complement of the sum, zero exactly of all ones.         *)
LEMMA CsumFold ==
  ASSUME NEW s \in Wide
  PROVE  /\ from32to16(s) \in Half /\ Cong(from32to16(s), s)
         /\ from32to16(s) = 0 <=> s = 0
         /\ csum_fold(s) \in Half /\ Cong(csum_fold(s), -s)
         /\ csum_fold(s) = H - 1 <=> s = 0
         /\ csum_fold(s) = H - 1 - from32to16(s)
<1> DEFINE f == fold_once(s)
           g == fold_once(f)
<1>1. s \in Nat /\ s < W
  BY WSize DEF Wide
<1>2. f \in Nat /\ Cong(f, s) /\ (f = 0 <=> s = 0) /\ f <= 2 * (H - 1)
  BY <1>1, FoldOnce
<1>3. g \in Nat /\ Cong(g, f) /\ (g = 0 <=> f = 0) /\ g <= H - 1
  BY <1>2, FoldOnce
<1> HIDE DEF g
<1>4. g \in Half /\ Cong(g, s) /\ (g = 0 <=> s = 0)
  BY <1>1, <1>2, <1>3, CongTrans, HAssumption DEF Half
<1>5. g % H = g
  BY <1>3, HAssumption
<1>6. csum_fold(s) = not16(g)
  BY <1>5 DEF csum_fold, g
<1>7. not16(g) \in Half /\ Cong(not16(g), -g) /\ not16(not16(g)) = g
  BY <1>4, Complements, HAssumption DEF not16, Half
<1>8. Cong(-g, -s)
  BY <1>1, <1>3, <1>4, CongBack
<1>9. Cong(not16(g), -s)
  <2>1. not16(g) \in Int /\ -g \in Int /\ -s \in Int
    BY <1>1, <1>3, <1>7, HAssumption DEF Half
  <2> QED
    BY <1>7, <1>8, <2>1, CongTrans
<1>10. not16(g) = H - 1 - g
  BY DEF not16
<1> QED
  BY <1>3, <1>4, <1>6, <1>7, <1>9, <1>10, HAssumption DEF from32to16

LEMMA HalfIsWide == Half \subseteq Wide /\ 0 \in Half /\ Half \subseteq Int /\ Wide \subseteq Int
  BY WSize DEF Half, Wide

(* What the helpers return, whatever width the kernel has. *)
LEMMA CsumDiff ==
  ASSUME NEW a \in Wide, NEW b \in Wide, NEW seed \in Wide, NEW w
  PROVE  /\ bpf_csum_diff(a, b, seed, w) \in Wide
         /\ Cong(bpf_csum_diff(a, b, seed, w), seed - a + b)
         /\ w = "folded" => bpf_csum_diff(a, b, seed, w) \in Half
<1> DEFINE n == not32(a)
           t == csum_add(seed, n)
           s == csum_add(t, b)
<1>1. n \in Wide /\ Cong(n, -a)
  BY Complements
<1> HIDE DEF n
<1>2. t \in Wide /\ Cong(t, seed + n)
  BY <1>1, CsumAdd
<1> HIDE DEF t
<1>3. s \in Wide /\ Cong(s, t + b)
  BY <1>2, CsumAdd
<1> HIDE DEF s
<1>4. a \in Int /\ b \in Int /\ seed \in Int /\ n \in Int /\ t \in Int /\ s \in Int
  BY <1>1, <1>2, <1>3, HalfIsWide
<1>5. Cong(seed + n, seed - a)
  BY <1>1, <1>4, CongSame, CongAdd
<1>6. Cong(t + b, seed - a + b)
  BY <1>2, <1>4, <1>5, CongSame, CongAdd, CongTrans
<1>7. Cong(s, seed - a + b)
  BY <1>3, <1>4, <1>6, CongTrans
<1>8. /\ from32to16(s) \in Half /\ Cong(from32to16(s), s) /\ from32to16(s) \in Int
      /\ from32to16(s) \in Wide
  BY <1>3, CsumFold, HalfIsWide, Zenon
<1>9. Cong(from32to16(s), seed - a + b)
  BY <1>4, <1>7, <1>8, CongTrans
<1>10. bpf_csum_diff(a, b, seed, w) = IF w = "folded" THEN from32to16(s) ELSE s
  BY DEF bpf_csum_diff, s, t, n
<1> QED
  BY <1>3, <1>7, <1>8, <1>9, <1>10

LEMMA CsumOf ==
  ASSUME NEW b \in Wide, NEW seed \in Wide, NEW w
  PROVE  /\ csum_of(b, seed, w) \in Wide
         /\ Cong(csum_of(b, seed, w), seed + b)
         /\ csum_of(b, seed, w) = 0 <=> seed = 0 /\ b = 0
<1> DEFINE s == csum_add(seed, b)
<1>1. s \in Wide /\ Cong(s, seed + b) /\ (s = 0 <=> seed = 0 /\ b = 0)
  BY CsumAdd
<1> HIDE DEF s
<1>2. b \in Int /\ seed \in Int /\ s \in Int
  BY <1>1, HalfIsWide
<1>3. /\ from32to16(s) \in Wide /\ Cong(from32to16(s), s) /\ from32to16(s) \in Int
      /\ from32to16(s) = 0 <=> s = 0
  BY <1>1, CsumFold, HalfIsWide, Zenon
<1>4. Cong(from32to16(s), seed + b)
  BY <1>1, <1>2, <1>3, CongTrans
<1>5. csum_of(b, seed, w) = IF w = "folded" THEN from32to16(s) ELSE s
  BY DEF csum_of, s
<1> QED
  BY <1>1, <1>3, <1>4, <1>5

(* A complete field loses what the sum gains, a partial one gains it.      *)
LEMMA ReplaceByDiff ==
  ASSUME NEW f \in Half, NEW dif \in Wide
  PROVE  /\ replace_by_diff(f, TRUE, dif) \in Half
         /\ Cong(replace_by_diff(f, TRUE, dif), f + dif)
         /\ replace_by_diff(f, FALSE, dif) \in Half
         /\ Cong(replace_by_diff(f, FALSE, dif), f - dif)
<1>1. f \in Int /\ dif \in Int /\ f \in Wide
  BY HalfIsWide
<1>2. /\ replace_by_diff(f, TRUE, dif) \in Half
      /\ Cong(replace_by_diff(f, TRUE, dif), f + dif)
  <2> DEFINE s == csum_add(dif, f)
  <2>1. s \in Wide /\ Cong(s, dif + f)
    BY <1>1, CsumAdd
  <2> HIDE DEF s
  <2>2. from32to16(s) \in Half /\ Cong(from32to16(s), s)
    BY <2>1, CsumFold
  <2>3. Cong(from32to16(s), dif + f)
    <3>1. s \in Int /\ from32to16(s) \in Int
      BY <2>1, <2>2, HalfIsWide, Zenon
    <3>2. dif + f \in Int
      BY <1>1
    <3> QED
      BY <2>1, <2>2, <3>1, <3>2, CongTrans
  <2>4. replace_by_diff(f, TRUE, dif) = from32to16(s)
    BY DEF replace_by_diff, from32to16, s
  <2>5. dif + f = f + dif
    BY <1>1
  <2> QED
    BY <2>2, <2>3, <2>4, <2>5, Zenon
<1>3. /\ replace_by_diff(f, FALSE, dif) \in Half
      /\ Cong(replace_by_diff(f, FALSE, dif), f - dif)
  <2> DEFINE n == not32(f)
             s == csum_add(dif, n)
  <2>1. n \in Wide /\ Cong(n, -f)
    BY <1>1, Complements
  <2> HIDE DEF n
  <2>2. s \in Wide /\ Cong(s, dif + n)
    BY <2>1, CsumAdd
  <2> HIDE DEF s
  <2>3. n \in Int /\ s \in Int /\ csum_fold(s) \in Int /\ csum_fold(s) \in Half
        /\ Cong(csum_fold(s), -s)
    BY <2>1, <2>2, CsumFold, HalfIsWide, Zenon
  <2>4. Cong(s, dif - f)
    <3>1. Cong(dif + n, dif - f)
      BY <1>1, <2>1, <2>3, CongSame, CongAdd
    <3> QED
      BY <1>1, <2>2, <2>3, <3>1, CongTrans
  <2>5. Cong(-s, -(dif - f))
    BY <1>1, <2>3, <2>4, CongBack
  <2>6. -(dif - f) = f - dif
    BY <1>1
  <2>7. Cong(csum_fold(s), f - dif)
    BY <1>1, <2>3, <2>5, <2>6, CongTrans
  <2>8. replace_by_diff(f, FALSE, dif) = csum_fold(s)
    BY DEF replace_by_diff, s, n
  <2> QED
    BY <2>3, <2>7, <2>8, Zenon
<1> QED
  BY <1>2, <1>3, Zenon

(* With BPF_F_MARK_MANGLED_0 and a field, or enforced, the result is never *)
(* the zero that means no checksum.                                        *)
LEMMA L4Replace ==
  ASSUME NEW f \in Half, NEW dif \in Wide, NEW part \in BOOLEAN, NEW mangled0 \in BOOLEAN,
         NEW enforce \in BOOLEAN, ~mangled0 \/ enforce \/ f # 0
  PROVE  LET new == bpf_l4_csum_replace(f, part, dif, mangled0, enforce)
         IN /\ new \in Half
            /\ part => Cong(new, f + dif)
            /\ ~part => Cong(new, f - dif)
            /\ mangled0 => new # 0
<1> DEFINE r == replace_by_diff(f, part, dif)
           new == bpf_l4_csum_replace(f, part, dif, mangled0, enforce)
<1>1. r \in Half /\ (part => Cong(r, f + dif)) /\ (~part => Cong(r, f - dif))
  <2>1. CASE part = TRUE
    BY <2>1, ReplaceByDiff, Zenon
  <2>2. CASE part = FALSE
    BY <2>2, ReplaceByDiff, Zenon
  <2> QED
    BY <2>1, <2>2, Zenon
<1>2. new = IF mangled0 /\ r = 0 THEN H - 1 ELSE r
  BY DEF bpf_l4_csum_replace
<1> HIDE DEF r
<1>3. CASE mangled0 /\ r = 0
  <2>1. new = H - 1 /\ H - 1 \in Half /\ H - 1 # 0 /\ H - 1 \in Int /\ Cong(H - 1, 0)
    BY <1>2, <1>3, AllOnes
  <2>2. f \in Int /\ dif \in Int
    BY HalfIsWide
  <2>3. part => Cong(H - 1, f + dif)
    BY <1>1, <1>3, <2>1, <2>2, CongTrans
  <2>4. ~part => Cong(H - 1, f - dif)
    BY <1>1, <1>3, <2>1, <2>2, CongTrans
  <2> QED
    BY <2>1, <2>3, <2>4
<1>4. CASE ~(mangled0 /\ r = 0)
  BY <1>1, <1>2, <1>4
<1> QED
  BY <1>3, <1>4

LEMMA FullFieldIs ==
  ASSUME NEW s \in Wide, NEW udp \in BOOLEAN
  PROVE  /\ full_field(s, udp) \in Half /\ Cong(full_field(s, udp), -s)
         /\ udp => full_field(s, udp) # 0
<1>1. csum_fold(s) \in Half /\ Cong(csum_fold(s), -s) /\ s \in Int
  BY CsumFold, HalfIsWide
<1>2. CASE udp /\ csum_fold(s) = 0
  <2>1. full_field(s, udp) = H - 1
    BY <1>2 DEF full_field
  <2>2. H - 1 \in Half /\ H - 1 # 0 /\ H - 1 \in Int /\ Cong(H - 1, 0)
    BY AllOnes
  <2>3. Cong(H - 1, -s)
    BY <1>1, <1>2, <2>2, CongTrans
  <2> QED
    BY <2>1, <2>2, <2>3
<1>3. CASE ~(udp /\ csum_fold(s) = 0)
  BY <1>1, <1>3 DEF full_field
<1> QED
  BY <1>2, <1>3

(* The receiver accepts a field that is the complement of a sum that is    *)
(* not zero.                                                               *)
LEMMA SumsUp ==
  ASSUME NEW s \in Wide, s # 0, NEW f \in Half, Cong(f, -s)
  PROVE  sums_up(s, f)
<1> DEFINE t == csum_add(s, f)
<1>1. f \in Wide /\ f \in Int /\ s \in Int
  BY HalfIsWide
<1>2. t \in Wide /\ Cong(t, s + f) /\ t # 0
  BY <1>1, CsumAdd
<1> HIDE DEF t
<1>3. Cong(s + f, s + (-s)) /\ s + (-s) = 0
  BY <1>1, CongSame, CongAdd
<1>4. Cong(t, 0)
  <2>1. t \in Int
    BY <1>2, HalfIsWide
  <2> QED
    BY <1>1, <1>2, <1>3, <2>1, CongTrans
<1>5. from32to16(t) = H - 1
  <2>1. /\ from32to16(t) \in Half /\ Cong(from32to16(t), t) /\ from32to16(t) # 0
        /\ from32to16(t) \in Int /\ t \in Int
    BY <1>2, CsumFold, HalfIsWide, Zenon
  <2>2. Cong(from32to16(t), 0)
    BY <1>4, <2>1, CongTrans
  <2> QED
    BY <2>1, <2>2, TwoZeroes
<1>6. csum_fold(t) = 0
  BY <1>2, <1>5, CsumFold, HAssumption
<1> QED
  BY <1>6 DEF sums_up, t

-----------------------------------------------------------------------------
(* The sums of a datagram.                                                 *)

IsDatagram(x) ==
  /\ x.a4 \in Wide \ {0} /\ x.a6 \in Wide \ {0} /\ x.lp \in Half \ {0} /\ x.body \in Half
  /\ x.proto \in {"tcp", "udp", "icmp"}

LEMMA EchoWords == Echo4 \in Wide /\ Echo6 \in Wide /\ Echo4 # 0
<1>1. H \div 2 \in Nat /\ H \div 2 <= H - 1
  BY HAssumption
<1>2. (H \div 2) * H >= 0 /\ (H \div 2) * H <= (H - 1) * H /\ (H \div 2) * H \in Int
  BY <1>1, HAssumption
<1>3. (H - 1) * H = W - H
  BY HAssumption DEF W
<1> QED
  BY <1>2, <1>3, WSize DEF Echo4, Echo6, Wide

LEMMA PseudoSums ==
  ASSUME NEW x, IsDatagram(x)
  PROVE  /\ Pseudo6(x) \in Wide /\ Cong(Pseudo6(x), x.a6 + x.lp) /\ Pseudo6(x) # 0
         /\ Pseudo4(x) \in Wide
         /\ x.proto # "icmp" => Cong(Pseudo4(x), x.a4 + x.lp) /\ Pseudo4(x) # 0
         /\ x.proto = "icmp" => Pseudo4(x) = 0
<1>1. x.a4 \in Wide /\ x.a6 \in Wide /\ x.lp \in Wide /\ x.lp # 0 /\ 0 \in Wide
  BY HalfIsWide, Zenon DEF IsDatagram
<1>2. Pseudo6(x) \in Wide /\ Cong(Pseudo6(x), x.a6 + x.lp) /\ Pseudo6(x) # 0
  BY <1>1, CsumAdd DEF Pseudo6
<1>3. /\ csum_add(x.a4, x.lp) \in Wide /\ Cong(csum_add(x.a4, x.lp), x.a4 + x.lp)
      /\ csum_add(x.a4, x.lp) # 0
  BY <1>1, CsumAdd
<1> QED
  BY <1>1, <1>2, <1>3 DEF Pseudo4

LEMMA OwnSums ==
  ASSUME NEW x, IsDatagram(x)
  PROVE  /\ Own4(x) \in Wide /\ Own6(x) \in Wide
         /\ x.proto # "icmp" => Cong(Own4(x), x.body) /\ Cong(Own6(x), x.body)
         /\ x.proto = "icmp" => /\ Cong(Own4(x), x.body + Echo4) /\ Own4(x) # 0
                                /\ Cong(Own6(x), x.body + Echo6)
<1>1. x.body \in Wide /\ x.body \in Int /\ 0 \in Wide
  BY HalfIsWide, Zenon DEF IsDatagram
<1>2. CASE x.proto = "icmp"
  <2>1. Own4(x) = csum_add(x.body, Echo4) /\ Own6(x) = csum_add(x.body, Echo6)
    BY <1>2 DEF Own4, Own6
  <2> QED
    BY <1>1, <1>2, <2>1, CsumAdd, EchoWords
<1>3. CASE x.proto # "icmp"
  <2>1. Own4(x) = csum_add(x.body, 0) /\ Own6(x) = csum_add(x.body, 0)
    BY <1>3 DEF Own4, Own6
  <2>2. csum_add(x.body, 0) \in Wide /\ Cong(csum_add(x.body, 0), x.body + 0)
    BY <1>1, CsumAdd
  <2>3. x.body + 0 = x.body
    BY <1>1
  <2> QED
    BY <1>3, <2>1, <2>2, <2>3
<1> QED
  BY <1>2, <1>3, Zenon

LEMMA WholeSums ==
  ASSUME NEW x, IsDatagram(x)
  PROVE  /\ Sum4(x) \in Wide /\ Cong(Sum4(x), Pseudo4(x) + Own4(x)) /\ Sum4(x) # 0
         /\ Sum6(x) \in Wide /\ Cong(Sum6(x), Pseudo6(x) + Own6(x)) /\ Sum6(x) # 0
<1>1. /\ Pseudo4(x) \in Wide /\ Pseudo6(x) \in Wide /\ Own4(x) \in Wide /\ Own6(x) \in Wide
      /\ Pseudo6(x) # 0
  BY PseudoSums, OwnSums
<1>2. Pseudo4(x) # 0 \/ Own4(x) # 0
  BY PseudoSums, OwnSums
<1>3. /\ Sum6(x) \in Wide /\ Cong(Sum6(x), Pseudo6(x) + Own6(x)) /\ Sum6(x) # 0
  BY <1>1, CsumAdd DEF Sum6
<1>4. /\ Sum4(x) \in Wide /\ Cong(Sum4(x), Pseudo4(x) + Own4(x)) /\ Sum4(x) # 0
  BY <1>1, <1>2, CsumAdd DEF Sum4
<1> QED
  BY <1>3, <1>4

LEMMA CongShift ==
  ASSUME NEW x \in Int, NEW y \in Int, NEW u \in Int, NEW v \in Int, Cong(x, u), Cong(y, v)
  PROVE  Cong(x, y - v + u)
<1>1. PICK k \in Int : x - u = k * (H - 1)
  BY DEF Cong
<1>2. PICK n \in Int : y - v = n * (H - 1)
  BY DEF Cong
<1>3. x - (y - v + u) = (k - n) * (H - 1)
  BY <1>1, <1>2, HAssumption
<1> QED
  BY <1>3 DEF Cong

LEMMA SumsAreInts ==
  ASSUME NEW x, IsDatagram(x)
  PROVE  /\ Sum4(x) \in Int /\ Sum6(x) \in Int /\ Pseudo4(x) \in Int /\ Pseudo6(x) \in Int
         /\ Own4(x) \in Int /\ Own6(x) \in Int /\ Echo4 \in Int /\ Echo6 \in Int
         /\ x.a4 \in Int /\ x.a6 \in Int /\ x.lp \in Int /\ x.body \in Int
<1>1. Sum4(x) \in Int /\ Sum6(x) \in Int
  BY WholeSums, HalfIsWide, Zenon
<1>2. Pseudo4(x) \in Int /\ Pseudo6(x) \in Int
  BY PseudoSums, HalfIsWide, Zenon
<1>3. Own4(x) \in Int /\ Own6(x) \in Int
  BY OwnSums, HalfIsWide, Zenon
<1>4. Echo4 \in Int /\ Echo6 \in Int
  BY EchoWords, HalfIsWide
<1>5. x.a4 \in Int /\ x.a6 \in Int /\ x.lp \in Int /\ x.body \in Int
  BY HalfIsWide, Zenon DEF IsDatagram
<1> QED
  BY <1>1, <1>2, <1>3, <1>4, <1>5

(* What translation adds to the sum. *)
LEMMA SumShift ==
  ASSUME NEW x, IsDatagram(x)
  PROVE  /\ x.proto # "icmp" => Cong(Sum6(x), Sum4(x) - x.a4 + x.a6)
         /\ x.proto = "icmp" => Cong(Sum6(x), Sum4(x) - Echo4 + (Pseudo6(x) + Echo6))
<1>1. ASSUME x.proto # "icmp" PROVE Cong(Sum6(x), Sum4(x) - x.a4 + x.a6)
  <2> DEFINE r == x.lp + x.body
  <2>1. Cong(Sum6(x), x.a6 + r)
    <3>1. Cong(Pseudo6(x) + Own6(x), (x.a6 + x.lp) + x.body)
      <4>1. Cong(Pseudo6(x), x.a6 + x.lp) /\ Cong(Own6(x), x.body)
        BY <1>1, PseudoSums, OwnSums
      <4>2. Pseudo6(x) \in Int /\ Own6(x) \in Int /\ x.a6 + x.lp \in Int /\ x.body \in Int
        BY SumsAreInts
      <4> QED
        BY <4>1, <4>2, CongAdd
    <3>2. (x.a6 + x.lp) + x.body = x.a6 + r
      BY SumsAreInts
    <3> QED
      BY <3>1, <3>2, WholeSums, SumsAreInts, CongTrans
  <2>2. Cong(Sum4(x), x.a4 + r)
    <3>1. Cong(Pseudo4(x) + Own4(x), (x.a4 + x.lp) + x.body)
      <4>1. Cong(Pseudo4(x), x.a4 + x.lp) /\ Cong(Own4(x), x.body)
        BY <1>1, PseudoSums, OwnSums
      <4>2. Pseudo4(x) \in Int /\ Own4(x) \in Int /\ x.a4 + x.lp \in Int /\ x.body \in Int
        BY SumsAreInts
      <4> QED
        BY <4>1, <4>2, CongAdd, Zenon
    <3>2. (x.a4 + x.lp) + x.body = x.a4 + r
      BY SumsAreInts
    <3> QED
      BY <3>1, <3>2, WholeSums, SumsAreInts, CongTrans
  <2>3. r \in Int
    BY SumsAreInts
  <2> HIDE DEF r
  <2>4. Cong(Sum6(x), Sum4(x) - (x.a4 + r) + (x.a6 + r))
    BY <2>1, <2>2, <2>3, SumsAreInts, CongShift
  <2>5. Sum4(x) - (x.a4 + r) + (x.a6 + r) = Sum4(x) - x.a4 + x.a6
    BY <2>3, SumsAreInts
  <2> QED
    BY <2>4, <2>5
<1>2. ASSUME x.proto = "icmp" PROVE Cong(Sum6(x), Sum4(x) - Echo4 + (Pseudo6(x) + Echo6))
  <2> DEFINE r == x.body
  <2>1. Cong(Sum6(x), Pseudo6(x) + (r + Echo6))
    <3>1. Cong(Pseudo6(x) + Own6(x), Pseudo6(x) + (x.body + Echo6))
      <4>1. Cong(Own6(x), x.body + Echo6)
        BY <1>2, OwnSums
      <4>2. Pseudo6(x) \in Int /\ Own6(x) \in Int /\ x.body + Echo6 \in Int
        BY SumsAreInts
      <4>3. Cong(Pseudo6(x), Pseudo6(x))
        BY <4>2, CongSame
      <4> QED
        BY <4>1, <4>2, <4>3, CongAdd, Zenon
    <3> QED
      BY <3>1, WholeSums, SumsAreInts, CongTrans
  <2>2. Cong(Sum4(x), r + Echo4)
    <3>1. Pseudo4(x) + Own4(x) = Own4(x)
      BY <1>2, SumsAreInts, PseudoSums
    <3>2. Cong(Own4(x), x.body + Echo4) /\ Cong(Sum4(x), Own4(x))
      BY <1>2, <3>1, OwnSums, WholeSums
    <3>3. Sum4(x) \in Int /\ Own4(x) \in Int /\ x.body + Echo4 \in Int
      BY SumsAreInts
    <3> QED
      BY <3>2, <3>3, CongTrans
  <2>3. Cong(Sum6(x), Sum4(x) - (r + Echo4) + (Pseudo6(x) + (r + Echo6)))
    BY <2>1, <2>2, SumsAreInts, CongShift
  <2>4. Sum4(x) - (r + Echo4) + (Pseudo6(x) + (r + Echo6)) = Sum4(x) - Echo4 + (Pseudo6(x) + Echo6)
    BY SumsAreInts
  <2> QED
    BY <2>3, <2>4
<1> QED
  BY <1>1, <1>2

LEMMA CongForward ==
  ASSUME NEW s \in Int, NEW t \in Int, NEW c \in Int, NEW e \in Int, Cong(t, s + c)
  PROVE  /\ Cong(e, c) => Cong(t, s + e)
         /\ Cong(e, -c) => Cong(s, t + e)
<1>1. PICK k \in Int : t - (s + c) = k * (H - 1)
  BY DEF Cong
<1>2. ASSUME Cong(e, c) PROVE Cong(t, s + e)
  <2>1. PICK n \in Int : e - c = n * (H - 1)
    BY <1>2 DEF Cong
  <2>2. t - (s + e) = (k - n) * (H - 1)
    BY <1>1, <2>1, HAssumption
  <2> QED
    BY <2>2 DEF Cong
<1>3. ASSUME Cong(e, -c) PROVE Cong(s, t + e)
  <2>1. PICK n \in Int : e - (-c) = n * (H - 1)
    BY <1>3 DEF Cong
  <2>2. s - (t + e) = (-k - n) * (H - 1)
    BY <1>1, <2>1, HAssumption
  <2> QED
    BY <2>2 DEF Cong
<1> QED
  BY <1>2, <1>3

(* The differences the programs compute are what the sums change by.       *)
LEMMA AddressDiff ==
  ASSUME NEW x, IsDatagram(x), x.proto # "icmp", NEW w
  PROVE  LET to6 == bpf_csum_diff(x.a4, x.a6, 0, w)
             to4 == bpf_csum_diff(x.a6, x.a4, 0, w)
         IN /\ to6 \in Wide /\ Cong(Sum6(x), Sum4(x) + to6)
            /\ Cong(Pseudo6(x), Pseudo4(x) + to6)
            /\ to4 \in Wide /\ (w = "folded" => to4 \in Half)
            /\ Cong(Sum4(x), Sum6(x) + to4)
<1> DEFINE to6 == bpf_csum_diff(x.a4, x.a6, 0, w)
           to4 == bpf_csum_diff(x.a6, x.a4, 0, w)
           c == x.a6 - x.a4
<1>1. x.a4 \in Wide /\ x.a6 \in Wide /\ 0 \in Wide
  BY HalfIsWide DEF IsDatagram
<1>2. /\ to6 \in Wide /\ Cong(to6, 0 - x.a4 + x.a6)
      /\ to4 \in Wide /\ Cong(to4, 0 - x.a6 + x.a4) /\ (w = "folded" => to4 \in Half)
  BY <1>1, CsumDiff
<1> HIDE DEF to6, to4
<1>3. c \in Int /\ 0 - x.a4 + x.a6 = c /\ 0 - x.a6 + x.a4 = -c
  BY SumsAreInts
<1>4. Sum4(x) - x.a4 + x.a6 = Sum4(x) + c
  BY SumsAreInts
<1>5. to6 \in Int /\ to4 \in Int /\ Sum4(x) \in Int /\ Sum6(x) \in Int
  BY <1>2, SumsAreInts, HalfIsWide
<1>6. Cong(Sum6(x), Sum4(x) + c)
  BY <1>4, SumShift
<1>7. Cong(Pseudo6(x), Pseudo4(x) + c)
  <2>1. Cong(Pseudo6(x), x.a6 + x.lp) /\ Cong(Pseudo4(x), x.a4 + x.lp)
    BY PseudoSums
  <2>2. Pseudo6(x) \in Int /\ Pseudo4(x) \in Int /\ x.a6 + x.lp \in Int /\ x.a4 + x.lp \in Int
    BY SumsAreInts
  <2>3. Cong(Pseudo6(x), Pseudo4(x) - (x.a4 + x.lp) + (x.a6 + x.lp))
    BY <2>1, <2>2, CongShift
  <2>4. Pseudo4(x) - (x.a4 + x.lp) + (x.a6 + x.lp) = Pseudo4(x) + c
    BY SumsAreInts
  <2> QED
    BY <2>3, <2>4
<1>8. Pseudo6(x) \in Int /\ Pseudo4(x) \in Int
  BY SumsAreInts
<1> HIDE DEF c
<1>9. Cong(to6, c) /\ Cong(to4, -c) /\ c \in Int
  BY <1>2, <1>3
<1>10. Cong(Sum6(x), Sum4(x) + to6) /\ Cong(Sum4(x), Sum6(x) + to4)
  BY <1>5, <1>6, <1>9, CongForward, Zenon
<1>11. Cong(Pseudo6(x), Pseudo4(x) + to6)
  BY <1>5, <1>7, <1>8, <1>9, CongForward
<1> QED
  BY <1>2, <1>10, <1>11, Zenon DEF to6, to4

LEMMA EchoDiff ==
  ASSUME NEW x, IsDatagram(x), x.proto = "icmp", NEW w
  PROVE  LET to6 == bpf_csum_diff(Echo4, Echo6, csum_of(Pseudo6(x), 0, w), w)
             to4 == bpf_csum_diff(Echo6, Echo4, bpf_csum_diff(Pseudo6(x), 0, 0, w), w)
         IN /\ to6 \in Wide /\ Cong(Sum6(x), Sum4(x) + to6)
            /\ to4 \in Wide /\ (w = "folded" => to4 \in Half)
            /\ Cong(Sum4(x), Sum6(x) + to4)
<1> DEFINE s6 == csum_of(Pseudo6(x), 0, w)
           s4 == bpf_csum_diff(Pseudo6(x), 0, 0, w)
           to6 == bpf_csum_diff(Echo4, Echo6, s6, w)
           to4 == bpf_csum_diff(Echo6, Echo4, s4, w)
           e == Echo6 - Echo4
           c == e + Pseudo6(x)
<1>1. Echo4 \in Wide /\ Echo6 \in Wide /\ 0 \in Wide /\ Pseudo6(x) \in Wide
  BY EchoWords, HalfIsWide, PseudoSums
<1>2. s6 \in Wide /\ Cong(s6, 0 + Pseudo6(x)) /\ s4 \in Wide /\ Cong(s4, 0 - Pseudo6(x) + 0)
  BY <1>1, CsumOf, CsumDiff
<1> HIDE DEF s6, s4
<1>3. /\ to6 \in Wide /\ Cong(to6, s6 - Echo4 + Echo6)
      /\ to4 \in Wide /\ Cong(to4, s4 - Echo6 + Echo4) /\ (w = "folded" => to4 \in Half)
  BY <1>1, <1>2, CsumDiff
<1> HIDE DEF to6, to4
<1>4. /\ to6 \in Int /\ to4 \in Int /\ s4 \in Int /\ s6 \in Int
      /\ Sum4(x) \in Int /\ Sum6(x) \in Int /\ Pseudo6(x) \in Int
      /\ Echo4 \in Int /\ Echo6 \in Int
  BY <1>2, <1>3, SumsAreInts, HalfIsWide
<1>5. e \in Int /\ -e \in Int /\ c \in Int
  BY <1>4
<1>6. Cong(to6, c)
  <2>1. Cong(e, e) /\ Cong(s6, Pseudo6(x))
    <3>1. 0 + Pseudo6(x) = Pseudo6(x)
      BY <1>4
    <3> QED
      BY <1>2, <1>5, <3>1, CongSame
  <2>2. Cong(e + s6, e + Pseudo6(x)) /\ e + s6 \in Int
    BY <1>4, <1>5, <2>1, CongAdd
  <2>3. s6 - Echo4 + Echo6 = e + s6
    BY <1>4
  <2> QED
    BY <1>3, <1>4, <1>5, <2>2, <2>3, CongTrans
<1>7. Cong(to4, -c)
  <2>1. Cong(-e, -e) /\ Cong(s4, -Pseudo6(x)) /\ -Pseudo6(x) \in Int
    <3>1. 0 - Pseudo6(x) + 0 = -Pseudo6(x)
      BY <1>4
    <3> QED
      BY <1>2, <1>4, <1>5, <3>1, CongSame
  <2>2. Cong((-e) + s4, (-e) + (-Pseudo6(x))) /\ (-e) + s4 \in Int
    BY <1>4, <1>5, <2>1, CongAdd
  <2>3. s4 - Echo6 + Echo4 = (-e) + s4 /\ (-e) + (-Pseudo6(x)) = -c /\ -c \in Int
    BY <1>4
  <2> QED
    BY <1>3, <1>4, <1>5, <2>2, <2>3, CongTrans
<1>8. Cong(Sum6(x), Sum4(x) + c)
  <2>1. Sum4(x) - Echo4 + (Pseudo6(x) + Echo6) = Sum4(x) + c
    BY <1>4
  <2> QED
    BY <2>1, SumShift
<1> HIDE DEF c, e
<1>9. Cong(Sum6(x), Sum4(x) + to6) /\ Cong(Sum4(x), Sum6(x) + to4)
  BY <1>4, <1>5, <1>6, <1>7, <1>8, CongForward, Zenon
<1> QED
  BY <1>3, <1>9, Zenon DEF to6, to4, s6, s4

-----------------------------------------------------------------------------
(* The life of a field.  With every stage comes what the field is worth:   *)
(* the complement of the sum of its packet, or, while the device has still *)
(* to complete it, the sum of the pseudo-header.                           *)

Claimed == ~(m.kind = "none" /\ TakenForPartial(m))
Right(s) == Cong(field, -s) /\ (m.proto = "udp" => field # 0)

FieldType ==
  /\ IsDatagram(m) /\ <<m.proto, m.kind>> \in Kinds /\ width \in {"wide", "folded"}
  /\ field \in Half /\ sent \in Half /\ Cong(sent, -Sum4(m))
  /\ m = [proto |-> m.proto, kind |-> m.kind, a4 |-> m.a4, a6 |-> m.a6, lp |-> m.lp,
          body |-> m.body]
  /\ stage \in {"egress", "device", "wire", "ingress", "delivered", "quoted"}
AtEgress ==
  stage = "egress" => /\ m.kind = "full" => Right(Sum4(m))
                      /\ m.kind = "partial" => Cong(field, Pseudo4(m)) /\ field # 0
                      /\ m.kind = "none" => field = 0
AtDevice ==
  stage = "device" => IF m.kind = "partial" THEN Cong(field, Pseudo6(m))
                      ELSE Claimed => Right(Sum6(m))
OnWire == stage = "wire" /\ Claimed => Right(Sum6(m))
AtIngress == stage = "ingress" => m.kind = "full" /\ Right(Sum6(m))
AtPod == stage = "delivered" => Right(Sum4(m))
FieldInv == FieldType /\ AtEgress /\ AtDevice /\ OnWire /\ AtIngress /\ AtPod

(* What a quotation makes of the field: IsSent, in terms of Cong. *)
AsSent == \E lost \in {0, 1} : (lost = 1 => width = "wide") /\ Cong(field, sent + lost)

LEMMA KindsAre ==
  ASSUME <<m.proto, m.kind>> \in Kinds
  PROVE  /\ m.proto \in {"tcp", "udp", "icmp"} /\ m.kind \in {"full", "partial", "none"}
         /\ m.proto = "icmp" => m.kind = "full"
         /\ m.proto = "tcp" => m.kind # "none"
  BY DEF Kinds

LEMMA FieldStarts == FieldInit => FieldInv
<1> SUFFICES ASSUME FieldInit PROVE FieldInv
  OBVIOUS
<1>1. PICK t \in Kinds, a4 \in Addr4s, a6 \in Addr6s, lp \in LenProtos, b \in Bodies :
        /\ m = [proto |-> t[1], kind |-> t[2], a4 |-> a4, a6 |-> a6, lp |-> lp, body |-> b]
        /\ field = FieldOf(m)
        /\ sent = full_field(Sum4(m), m.proto = "udp")
        /\ width \in Widths /\ stage = "egress"
  BY DEF FieldInit
<1>2. /\ m.proto = t[1] /\ m.kind = t[2] /\ m.a4 = a4 /\ m.a6 = a6 /\ m.lp = lp /\ m.body = b
  BY <1>1
<1>3. <<m.proto, m.kind>> \in Kinds
  BY <1>2 DEF Kinds
<1>4. IsDatagram(m)
  BY <1>2, <1>3, KindsAre, SumsAssumption DEF IsDatagram
<1>5. Sum4(m) \in Wide /\ Pseudo4(m) \in Wide
  BY <1>4, WholeSums, PseudoSums
<1>6. sent \in Half /\ Cong(sent, -Sum4(m)) /\ (m.proto = "udp" => sent # 0)
  BY <1>1, <1>5, FullFieldIs, Zenon
<1>7. ASSUME m.kind = "full" PROVE field \in Half /\ Right(Sum4(m))
  BY <1>1, <1>6, <1>7 DEF FieldOf, Right
<1>8. ASSUME m.kind = "partial" PROVE field \in Half /\ Cong(field, Pseudo4(m)) /\ field # 0
  <2>1. field = from32to16(Pseudo4(m)) /\ m.proto # "icmp"
    BY <1>1, <1>3, <1>8, KindsAre DEF FieldOf, partial_field
  <2> QED
    BY <1>4, <2>1, PseudoSums, CsumFold
<1>9. ASSUME m.kind = "none" PROVE field \in Half /\ field = 0
  BY <1>1, <1>9, HalfIsWide DEF FieldOf
<1>10. field \in Half /\ width \in {"wide", "folded"}
  BY <1>1, <1>3, <1>7, <1>8, <1>9, KindsAre, SumsAssumption, Zenon
<1> QED
  BY <1>1, <1>3, <1>4, <1>6, <1>7, <1>8, <1>9, <1>10
  DEF FieldInv, FieldType, AtEgress, AtDevice, OnWire, AtIngress, AtPod

LEMMA UpdateField ==
  ASSUME NEW f \in Half, NEW dif \in Wide, NEW mangled0 \in BOOLEAN, NEW enforce \in BOOLEAN,
         ~mangled0 \/ enforce \/ f # 0, NEW s \in Int, NEW t \in Int, Cong(t, s + dif)
  PROVE  /\ LET new == bpf_l4_csum_replace(f, FALSE, dif, mangled0, enforce)
            IN new \in Half /\ (mangled0 => new # 0) /\ (Cong(f, -s) => Cong(new, -t))
         /\ LET new == bpf_l4_csum_replace(f, TRUE, dif, mangled0, enforce)
            IN new \in Half /\ (Cong(f, s) => Cong(new, t))
<1>1. f \in Int /\ dif \in Int
  BY HalfIsWide
<1>2. /\ LET new == bpf_l4_csum_replace(f, FALSE, dif, mangled0, enforce)
         IN new \in Half /\ (mangled0 => new # 0) /\ (Cong(f, -s) => Cong(new, -t))
  <2> DEFINE new == bpf_l4_csum_replace(f, FALSE, dif, mangled0, enforce)
  <2>1. new \in Half /\ (mangled0 => new # 0) /\ Cong(new, f - dif)
    BY L4Replace, Zenon
  <2>2. new \in Int
    BY <2>1, HalfIsWide, Zenon
  <2> HIDE DEF new
  <2>3. ASSUME Cong(f, -s) PROVE Cong(new, -t)
    <3>1. PICK k1 \in Int : f - (-s) = k1 * (H - 1)
      BY <2>3 DEF Cong
    <3>2. PICK k2 \in Int : new - (f - dif) = k2 * (H - 1)
      BY <2>1 DEF Cong
    <3>3. PICK k3 \in Int : t - (s + dif) = k3 * (H - 1)
      BY DEF Cong
    <3>4. new - (-t) = (k1 + k2 + k3) * (H - 1)
      BY <1>1, <2>2, <3>1, <3>2, <3>3, HAssumption
    <3> QED
      BY <3>4 DEF Cong
  <2> QED
    BY <2>1, <2>3, Zenon DEF new
<1>3. /\ LET new == bpf_l4_csum_replace(f, TRUE, dif, mangled0, enforce)
         IN new \in Half /\ (Cong(f, s) => Cong(new, t))
  <2> DEFINE new == bpf_l4_csum_replace(f, TRUE, dif, mangled0, enforce)
  <2>1. new \in Half /\ Cong(new, f + dif)
    BY L4Replace, Zenon
  <2>2. new \in Int
    BY <2>1, HalfIsWide, Zenon
  <2> HIDE DEF new
  <2>3. ASSUME Cong(f, s) PROVE Cong(new, t)
    <3>1. PICK k1 \in Int : f - s = k1 * (H - 1)
      BY <2>3 DEF Cong
    <3>2. PICK k2 \in Int : new - (f + dif) = k2 * (H - 1)
      BY <2>1 DEF Cong
    <3>3. PICK k3 \in Int : t - (s + dif) = k3 * (H - 1)
      BY DEF Cong
    <3>4. new - t = (k1 + k2 - k3) * (H - 1)
      BY <1>1, <2>2, <3>1, <3>2, <3>3, HAssumption
    <3> QED
      BY <3>4 DEF Cong
  <2> QED
    BY <2>1, <2>3, Zenon DEF new
<1> QED
  BY <1>2, <1>3, Zenon

LEMMA TypeKept ==
  ASSUME FieldType, UNCHANGED <<m, sent, width>>, field' \in Half,
         stage' \in {"device", "wire", "delivered", "quoted"}
  PROVE  FieldType'
  BY Zenon DEF FieldType, IsDatagram, Sum4, Pseudo4, Own4

(* clat_egress updates what is there: a complete field stays complete, a   *)
(* partial one partial.                                                    *)
LEMMA EgressUpdates ==
  ASSUME FieldType, AtEgress, stage = "egress", UNCHANGED <<m, sent, width>>, stage' = "device",
         m.kind # "none", NEW dif \in Wide, Cong(Sum6(m), Sum4(m) + dif),
         m.kind = "partial" => Cong(Pseudo6(m), Pseudo4(m) + dif),
         field' = Updated(dif, m.proto = "udp", FALSE)
  PROVE  FieldInv'
<1>1. Sum4(m) \in Int /\ Sum6(m) \in Int /\ Pseudo4(m) \in Int /\ Pseudo6(m) \in Int
  BY SumsAreInts, Zenon DEF FieldType
<1>2. m.proto = "udp" => field # 0
  BY KindsAre, Zenon DEF FieldType, AtEgress, Right
<1> DEFINE mangled == m.proto = "udp"
<1>3. mangled \in BOOLEAN /\ FALSE \in BOOLEAN /\ field \in Half /\ (~mangled \/ FALSE \/ field # 0)
  BY <1>2 DEF FieldType
<1> HIDE DEF mangled
<1>4. CASE m.kind = "partial"
  <2>1. field' = bpf_l4_csum_replace(field, TRUE, dif, m.proto = "udp", FALSE)
    BY <1>4, Zenon DEF Updated
  <2>2. Cong(field, Pseudo4(m))
    BY <1>4 DEF AtEgress
  <2>3. Cong(Pseudo6(m), Pseudo4(m) + dif)
    BY <1>4
  <2>4. LET new == bpf_l4_csum_replace(field, TRUE, dif, mangled, FALSE)
        IN new \in Half /\ (Cong(field, Pseudo4(m)) => Cong(new, Pseudo6(m)))
    BY <1>1, <1>3, <2>3, UpdateField, Zenon
  <2>5. field' \in Half /\ Cong(field', Pseudo6(m))
    BY <2>1, <2>2, <2>4, Zenon DEF mangled
  <2> QED
    BY <1>4, <2>5, TypeKept, Zenon
    DEF FieldInv, AtEgress, AtDevice, OnWire, AtIngress, AtPod
<1>5. CASE m.kind # "partial"
  <2>1. field' = bpf_l4_csum_replace(field, FALSE, dif, m.proto = "udp", FALSE)
    BY <1>5, Zenon DEF Updated
  <2>2. Cong(field, -Sum4(m))
    BY <1>5, KindsAre, Zenon DEF AtEgress, FieldType, Right
  <2>3. LET new == bpf_l4_csum_replace(field, FALSE, dif, mangled, FALSE)
        IN new \in Half /\ (mangled => new # 0) /\ (Cong(field, -Sum4(m)) => Cong(new, -Sum6(m)))
    BY <1>1, <1>3, UpdateField, Zenon
  <2>4. field' \in Half /\ Cong(field', -Sum6(m)) /\ (m.proto = "udp" => field' # 0)
    BY <2>1, <2>2, <2>3, Zenon DEF mangled
  <2> QED
    BY <1>5, <2>4, TypeKept, Zenon
    DEF FieldInv, AtEgress, AtDevice, OnWire, AtIngress, AtPod, Right
<1> QED
  BY <1>4, <1>5

LEMMA EgressTcpKeeps == FieldInv /\ EgressTcp => FieldInv'
<1> SUFFICES ASSUME FieldInv, EgressTcp PROVE FieldInv'
  OBVIOUS
<1> DEFINE dif == bpf_csum_diff(m.a4, m.a6, 0, width)
<1>1. IsDatagram(m) /\ m.proto = "tcp" /\ m.kind # "none"
  BY KindsAre, Zenon DEF FieldInv, FieldType, EgressTcp
<1>2. dif \in Wide /\ Cong(Sum6(m), Sum4(m) + dif) /\ Cong(Pseudo6(m), Pseudo4(m) + dif)
  BY <1>1, AddressDiff, Zenon
<1>3. field' = Updated(dif, m.proto = "udp", FALSE)
  <2>1. (m.proto = "udp") = FALSE
    BY <1>1
  <2> QED
    BY <2>1, Zenon DEF EgressTcp
<1> HIDE DEF dif
<1> QED
  BY <1>1, <1>2, <1>3, EgressUpdates, Zenon DEF EgressTcp, FieldInv

LEMMA EgressUdpKeeps == FieldInv /\ EgressUdp => FieldInv'
<1> SUFFICES ASSUME FieldInv, EgressUdp PROVE FieldInv'
  OBVIOUS
<1> DEFINE dif == bpf_csum_diff(m.a4, m.a6, 0, width)
<1>1. IsDatagram(m) /\ m.proto = "udp" /\ m.kind # "none"
  BY DEF FieldInv, FieldType, AtEgress, EgressUdp
<1>2. dif \in Wide /\ Cong(Sum6(m), Sum4(m) + dif) /\ Cong(Pseudo6(m), Pseudo4(m) + dif)
  BY <1>1, AddressDiff, Zenon
<1>3. field' = Updated(dif, m.proto = "udp", FALSE)
  <2>1. (m.proto = "udp") = TRUE
    BY <1>1
  <2> QED
    BY <2>1, Zenon DEF EgressUdp
<1> HIDE DEF dif
<1> QED
  BY <1>1, <1>2, <1>3, EgressUpdates, Zenon DEF EgressUdp, FieldInv

LEMMA EgressEchoKeeps == FieldInv /\ EgressEcho => FieldInv'
<1> SUFFICES ASSUME FieldInv, EgressEcho PROVE FieldInv'
  OBVIOUS
<1> DEFINE dif == bpf_csum_diff(Echo4, Echo6, csum_of(Pseudo6(m), 0, width), width)
<1>1. IsDatagram(m) /\ m.proto = "icmp" /\ m.kind = "full"
  BY KindsAre, Zenon DEF FieldInv, FieldType, EgressEcho
<1>2. dif \in Wide /\ Cong(Sum6(m), Sum4(m) + dif)
  BY <1>1, EchoDiff, Zenon
<1>3. field' = Updated(dif, m.proto = "udp", FALSE)
  <2>1. (m.proto = "udp") = FALSE
    BY <1>1
  <2> QED
    BY <2>1, Zenon DEF EgressEcho
<1> HIDE DEF dif
<1> QED
  BY <1>1, <1>2, <1>3, EgressUpdates, Zenon DEF EgressEcho, FieldInv

(* A field made from a sum s, where s and the packet's sum t have the same  *)
(* two parts.                                                              *)
LEMMA CongParts ==
  ASSUME NEW f \in Int, NEW s \in Int, NEW t \in Int, NEW a \in Int, NEW b \in Int,
         NEW c \in Int, NEW e \in Int, Cong(f, -s), Cong(s, a + b), Cong(t, c + e),
         Cong(a, c), Cong(b, e)
  PROVE  Cong(f, -t)
<1>1. Cong(a + b, c + e)
  BY CongAdd
<1>2. a + b \in Int /\ c + e \in Int /\ -s \in Int /\ -t \in Int
  OBVIOUS
<1>3. Cong(s, c + e)
  BY <1>1, <1>2, CongTrans, Zenon
<1>4. Cong(c + e, t)
  BY <1>2, CongBack, Zenon
<1>5. Cong(s, t)
  BY <1>2, <1>3, <1>4, CongTrans
<1>6. Cong(-s, -t)
  BY <1>5, CongBack
<1> QED
  BY <1>2, <1>6, CongTrans

LEMMA EgressUdpZeroKeeps == FieldInv /\ EgressUdpZero => FieldInv'
<1> SUFFICES ASSUME FieldInv, EgressUdpZero PROVE FieldInv'
  OBVIOUS
<1>1. IsDatagram(m) /\ m.proto = "udp" /\ m.kind = "none" /\ field = 0 /\ field \in Half
  BY KindsAre, Zenon DEF FieldInv, FieldType, AtEgress, Right, EgressUdpZero
<1>2. CASE TakenForPartial(m)
  <2> DEFINE dif == bpf_csum_diff(m.a4, m.a6, 0, width)
  <2>1. dif \in Wide
    BY <1>1, AddressDiff, Zenon
  <2>2. field' = bpf_l4_csum_replace(field, m.kind = "partial", dif, TRUE, TRUE)
    BY <1>2 DEF EgressUdpZero, Updated
  <2> HIDE DEF dif
  <2>3. field' = bpf_l4_csum_replace(field, FALSE, dif, TRUE, TRUE)
    <3>1. (m.kind = "partial") = FALSE
      BY <1>1
    <3> QED
      BY <2>2, <3>1, Zenon
  <2>4. field' \in Half
    BY <1>1, <2>1, <2>3, L4Replace, Zenon
  <2>5. UNCHANGED <<m, sent, width>> /\ stage' = "device"
    BY DEF EgressUdpZero
  <2>6. FieldType'
    BY <2>4, <2>5, TypeKept DEF FieldInv
  <2>7. ~Claimed'
    BY <1>1, <1>2, <2>5 DEF Claimed, TakenForPartial, Pseudo4
  <2> QED
    BY <1>1, <2>5, <2>6, <2>7
    DEF FieldInv, AtEgress, AtDevice, OnWire, AtIngress, AtPod
<1>3. CASE ~TakenForPartial(m)
  <2> DEFINE p == csum_of(Pseudo6(m), 0, width)
             s == csum_of(m.body, p, width)
  <2>1. Pseudo6(m) \in Wide /\ m.body \in Wide /\ 0 \in Wide
    BY <1>1, PseudoSums, HalfIsWide, Zenon DEF IsDatagram
  <2>2. p \in Wide /\ Cong(p, 0 + Pseudo6(m))
    BY <2>1, CsumOf
  <2> HIDE DEF p
  <2>3. s \in Wide /\ Cong(s, p + m.body)
    BY <2>1, <2>2, CsumOf
  <2>4. field' = full_field(s, TRUE)
    BY <1>3 DEF EgressUdpZero, p
  <2> HIDE DEF s
  <2>5. field' \in Half /\ Cong(field', -s) /\ field' # 0
    BY <2>3, <2>4, FullFieldIs, Zenon
  <2>6. /\ Cong(Sum6(m), Pseudo6(m) + Own6(m)) /\ Cong(Own6(m), m.body)
        /\ Sum6(m) \in Int /\ Pseudo6(m) \in Int /\ Own6(m) \in Int /\ m.body \in Int
    BY <1>1, WholeSums, OwnSums, SumsAreInts, Zenon
  <2>7. p \in Int /\ s \in Int /\ field' \in Int
    BY <2>2, <2>3, <2>5, HalfIsWide
  <2>8. Cong(field', -Sum6(m))
    <3>1. 0 + Pseudo6(m) = Pseudo6(m)
      BY <2>6
    <3>2. Cong(p, Pseudo6(m)) /\ Cong(m.body, Own6(m))
      BY <2>2, <2>6, <3>1, CongBack
    <3> QED
      BY <2>3, <2>5, <2>6, <2>7, <3>2, CongParts
  <2>9. UNCHANGED <<m, sent, width>> /\ stage' = "device"
    BY DEF EgressUdpZero
  <2>10. FieldType'
    BY <2>5, <2>9, TypeKept DEF FieldInv
  <2> QED
    BY <1>1, <2>5, <2>8, <2>9, <2>10, Zenon
    DEF FieldInv, AtEgress, AtDevice, OnWire, AtIngress, AtPod, Right
<1> QED
  BY <1>2, <1>3

(* The device completes a partial checksum and leaves a complete one.      *)
LEMMA DeviceKeeps == FieldInv /\ Device => FieldInv'
<1> SUFFICES ASSUME FieldInv, Device PROVE FieldInv'
  OBVIOUS
<1>1. IsDatagram(m) /\ field \in Half /\ AtDevice /\ stage = "device"
  BY DEF FieldInv, FieldType, Device
<1>2. UNCHANGED <<m, sent, width>> /\ stage' = "wire"
  BY DEF Device
<1>3. CASE m.kind = "partial"
  <2> DEFINE s == csum_add(Own6(m), field)
  <2>1. Own6(m) \in Wide /\ field \in Wide
    BY <1>1, OwnSums, HalfIsWide
  <2>2. s \in Wide /\ Cong(s, Own6(m) + field)
    BY <2>1, CsumAdd
  <2>3. field' = full_field(s, m.proto = "udp")
    BY <1>3 DEF Device
  <2> HIDE DEF s
  <2>4. field' \in Half /\ Cong(field', -s) /\ (m.proto = "udp" => field' # 0)
    BY <2>2, <2>3, FullFieldIs, Zenon
  <2>5. Cong(field, Pseudo6(m))
    BY <1>1, <1>3 DEF AtDevice
  <2>6. Cong(Sum6(m), Pseudo6(m) + Own6(m)) /\ Sum6(m) \in Int /\ Pseudo6(m) \in Int
    BY <1>1, WholeSums, SumsAreInts
  <2>7. Own6(m) \in Int /\ s \in Int /\ field \in Int /\ field' \in Int
    BY <1>1, <2>1, <2>2, <2>4, HalfIsWide, Zenon
  <2>8. Cong(field', -Sum6(m))
    <3>1. Own6(m) + field = field + Own6(m)
      BY <2>7
    <3>2. Cong(s, field + Own6(m)) /\ Cong(Own6(m), Own6(m))
      BY <2>2, <2>7, <3>1, CongSame
    <3> QED
      BY <2>4, <2>5, <2>6, <2>7, <3>2, CongParts
  <2>9. FieldType'
    BY <1>2, <2>4, TypeKept DEF FieldInv
  <2> QED
    BY <1>2, <2>4, <2>8, <2>9
    DEF FieldInv, AtEgress, AtDevice, OnWire, AtIngress, AtPod, Right
<1>4. CASE m.kind # "partial"
  <2>1. field' = field
    BY <1>4 DEF Device
  <2>2. FieldType'
    BY <1>1, <1>2, <2>1, TypeKept DEF FieldInv
  <2>3. Claimed' => Claimed
    BY <1>2 DEF Claimed, TakenForPartial, Pseudo4
  <2> QED
    BY <1>1, <1>2, <1>4, <2>1, <2>2, <2>3, Zenon
    DEF FieldInv, AtEgress, AtDevice, OnWire, AtIngress, AtPod, Right
<1> QED
  BY <1>3, <1>4

(* The server's answer carries a complete checksum of its own bytes.       *)
LEMMA AnswerKeeps == FieldInv /\ Answer => FieldInv'
<1> SUFFICES ASSUME FieldInv, Answer PROVE FieldInv'
  OBVIOUS
<1>1. PICK b \in Bodies :
        /\ m' = [m EXCEPT !.body = b, !.kind = "full"]
        /\ field' = full_field(Sum6(m'), m'.proto = "udp")
        /\ sent' = full_field(Sum4(m'), m'.proto = "udp")
  BY Zenon DEF Answer
<1>2. IsDatagram(m) /\ <<m.proto, m.kind>> \in Kinds /\ width \in {"wide", "folded"}
  BY DEF FieldInv, FieldType
<1>3. stage' = "ingress" /\ width' = width
  BY DEF Answer
<1>4. m = [proto |-> m.proto, kind |-> m.kind, a4 |-> m.a4, a6 |-> m.a6, lp |-> m.lp,
           body |-> m.body]
  BY DEF FieldInv, FieldType
<1>5. /\ m'.proto = m.proto /\ m'.kind = "full" /\ m'.body = b
      /\ m'.a4 = m.a4 /\ m'.a6 = m.a6 /\ m'.lp = m.lp
      /\ m' = [proto |-> m.proto, kind |-> "full", a4 |-> m.a4, a6 |-> m.a6, lp |-> m.lp,
               body |-> b]
  BY <1>1, <1>4, Zenon
<1>6. IsDatagram(m')
  BY <1>2, <1>5, SumsAssumption, Zenon DEF IsDatagram
<1>7. <<m'.proto, m'.kind>> \in Kinds
  BY <1>2, <1>5, KindsAre, Zenon DEF Kinds
<1>8. Sum4(m') \in Wide /\ Sum6(m') \in Wide
  BY <1>6, WholeSums
<1>9. field' \in Half /\ Cong(field', -Sum6(m')) /\ (m'.proto = "udp" => field' # 0)
  BY <1>1, <1>8, FullFieldIs, Zenon
<1>10. sent' \in Half /\ Cong(sent', -Sum4(m'))
  BY <1>1, <1>8, FullFieldIs, Zenon
<1> QED
  BY <1>2, <1>3, <1>5, <1>6, <1>7, <1>9, <1>10, Zenon
  DEF FieldInv, FieldType, AtEgress, AtDevice, OnWire, AtIngress, AtPod, Right

(* clat_ingress updates the checksum of an answer.                         *)
LEMMA IngressUpdates ==
  ASSUME FieldType, AtIngress, stage = "ingress", UNCHANGED <<m, sent, width>>,
         stage' = "delivered", NEW dif \in Wide, Cong(Sum4(m), Sum6(m) + dif),
         field' = Updated(dif, m.proto = "udp", FALSE)
  PROVE  FieldInv'
<1> DEFINE mangled == m.proto = "udp"
<1>1. Sum4(m) \in Int /\ Sum6(m) \in Int
  BY SumsAreInts, Zenon DEF FieldType
<1>2. m.kind = "full" /\ Cong(field, -Sum6(m)) /\ (mangled => field # 0)
  BY DEF AtIngress, Right
<1>3. mangled \in BOOLEAN /\ FALSE \in BOOLEAN /\ field \in Half /\ (~mangled \/ FALSE \/ field # 0)
  BY <1>2, Zenon DEF FieldType
<1>4. field' = bpf_l4_csum_replace(field, FALSE, dif, mangled, FALSE)
  <2>1. (m.kind = "partial") = FALSE
    BY <1>2
  <2> QED
    BY <2>1, Zenon DEF Updated
<1> HIDE DEF mangled
<1>5. LET new == bpf_l4_csum_replace(field, FALSE, dif, mangled, FALSE)
      IN new \in Half /\ (mangled => new # 0) /\ (Cong(field, -Sum6(m)) => Cong(new, -Sum4(m)))
  BY <1>1, <1>3, UpdateField, Zenon
<1>6. field' \in Half /\ Cong(field', -Sum4(m)) /\ (m.proto = "udp" => field' # 0)
  BY <1>2, <1>4, <1>5, Zenon DEF mangled
<1>7. FieldType'
  BY <1>6, TypeKept
<1> QED
  BY <1>6, <1>7, Zenon DEF FieldInv, AtEgress, AtDevice, OnWire, AtIngress, AtPod, Right

LEMMA IngressTcpUdpKeeps == FieldInv /\ IngressTcpUdp => FieldInv'
<1> SUFFICES ASSUME FieldInv, IngressTcpUdp PROVE FieldInv'
  OBVIOUS
<1> DEFINE dif == bpf_csum_diff(m.a6, m.a4, 0, width)
<1>1. IsDatagram(m) /\ m.proto # "icmp"
  BY Zenon DEF FieldInv, FieldType, IngressTcpUdp
<1>2. dif \in Wide /\ Cong(Sum4(m), Sum6(m) + dif)
  BY <1>1, AddressDiff, Zenon
<1>3. field' = Updated(dif, m.proto = "udp", FALSE)
  BY DEF IngressTcpUdp
<1> HIDE DEF dif
<1> QED
  BY <1>2, <1>3, IngressUpdates, Zenon DEF IngressTcpUdp, FieldInv

LEMMA IngressEchoKeeps == FieldInv /\ IngressEcho => FieldInv'
<1> SUFFICES ASSUME FieldInv, IngressEcho PROVE FieldInv'
  OBVIOUS
<1> DEFINE dif == bpf_csum_diff(Echo6, Echo4, bpf_csum_diff(Pseudo6(m), 0, 0, width), width)
<1>1. IsDatagram(m) /\ m.proto = "icmp"
  BY Zenon DEF FieldInv, FieldType, IngressEcho
<1>2. dif \in Wide /\ Cong(Sum4(m), Sum6(m) + dif)
  BY <1>1, EchoDiff, Zenon
<1>3. field' = Updated(dif, m.proto = "udp", FALSE)
  <2>1. (m.proto = "udp") = FALSE
    BY <1>1
  <2> QED
    BY <2>1, Zenon DEF IngressEcho
<1> HIDE DEF dif
<1> QED
  BY <1>2, <1>3, IngressUpdates, Zenon DEF IngressEcho, FieldInv

(* The checksum of a quoted packet.  The plain addition may lose a carry,  *)
(* that is 1, and only if the difference has more than 16 bits.            *)
LEMMA Embedded ==
  ASSUME NEW oc \in Half, NEW dif \in Wide
  PROVE  /\ EmbeddedCsum(oc, dif) \in Half
         /\ \E lost \in {0, 1} : /\ lost = 1 => dif \notin Half
                                 /\ Cong(EmbeddedCsum(oc, dif), oc - dif + lost)
<1> DEFINE n == not16(oc)
           x == dif + n
           y == x % W
           new == EmbeddedCsum(oc, dif)
<1>1. n \in Half /\ Cong(n, -oc)
  BY Complements
<1> HIDE DEF n
<1>2. /\ dif \in Int /\ n \in Int /\ oc \in Int /\ dif >= 0 /\ dif < W /\ n >= 0 /\ n < H
      /\ x \in Int /\ x >= 0 /\ x < 2 * W
  BY <1>1, WSize DEF Half, Wide
<1>3. y = IF x < W THEN x ELSE x - W
  BY <1>2, WSize
<1>4. y \in Wide
  BY <1>2, <1>3, WSize DEF Wide
<1>5. new = csum_fold(y)
  BY DEF EmbeddedCsum, n
<1>6. new \in Half /\ Cong(new, -y)
  BY <1>4, <1>5, CsumFold
<1>7. y \in Int /\ new \in Int
  BY <1>4, <1>6, HalfIsWide, Zenon
<1> HIDE DEF new, y
<1>8. PICK k1 \in Int : new - (-y) = k1 * (H - 1)
  BY <1>6 DEF Cong
<1>9. PICK k2 \in Int : n - (-oc) = k2 * (H - 1)
  BY <1>1 DEF Cong
<1>10. CASE x < W
  <2>1. y = dif + n
    BY <1>3, <1>10
  <2>2. new - (oc - dif + 0) = (k1 - k2) * (H - 1)
    BY <1>2, <1>7, <1>8, <1>9, <2>1, HAssumption
  <2>3. Cong(new, oc - dif + 0)
    BY <2>2 DEF Cong
  <2> QED
    BY <1>6, <2>3 DEF new
<1>11. CASE ~(x < W)
  <2>1. y = dif + n - W
    BY <1>2, <1>3, <1>11, WSize
  <2>2. W - 1 = (H + 1) * (H - 1) /\ W \in Int
    BY WSize
  <2>3. new - (oc - dif + 1) = k1 * (H - 1) - k2 * (H - 1) + (H + 1) * (H - 1)
    BY <1>2, <1>7, <1>8, <1>9, <2>1, <2>2, HAssumption
  <2>4. new - (oc - dif + 1) = (k1 - k2 + (H + 1)) * (H - 1) /\ k1 - k2 + (H + 1) \in Int
    BY <2>3, HAssumption
  <2>5. Cong(new, oc - dif + 1)
    BY <2>4 DEF Cong
  <2>6. dif \notin Half
    BY <1>2, <1>11, WSize DEF Half
  <2> QED
    BY <1>6, <2>5, <2>6 DEF new
<1> QED
  BY <1>10, <1>11

LEMMA QuoteUpdates ==
  ASSUME FieldType, OnWire, stage = "wire", UNCHANGED <<m, sent, width>>, stage' = "quoted",
         NEW dif \in Wide, width = "folded" => dif \in Half, Cong(Sum4(m), Sum6(m) + dif),
         field' = EmbeddedCsum(field, dif)
  PROVE  FieldInv' /\ (Claimed => AsSent')
<1>1. /\ field \in Half /\ sent \in Half /\ Cong(sent, -Sum4(m)) /\ IsDatagram(m)
      /\ width \in {"wide", "folded"}
  BY Zenon DEF FieldType
<1>2. Sum4(m) \in Int /\ Sum6(m) \in Int /\ field \in Int /\ sent \in Int /\ dif \in Int
  BY <1>1, SumsAreInts, HalfIsWide
<1>3. field' \in Half /\ field' \in Int
  BY <1>1, Embedded, HalfIsWide, Zenon
<1>4. PICK lost \in {0, 1} : (lost = 1 => dif \notin Half) /\ Cong(field', field - dif + lost)
  BY <1>1, Embedded
<1>5. FieldType'
  BY <1>3, TypeKept
<1>6. ASSUME Claimed PROVE Cong(field', sent + lost)
  <2>1. Cong(field, -Sum6(m))
    BY <1>6 DEF OnWire, Right
  <2>2. PICK k1 \in Int : field - (-Sum6(m)) = k1 * (H - 1)
    BY <2>1 DEF Cong
  <2>3. PICK k2 \in Int : sent - (-Sum4(m)) = k2 * (H - 1)
    BY <1>1 DEF Cong
  <2>4. PICK k3 \in Int : Sum4(m) - (Sum6(m) + dif) = k3 * (H - 1)
    BY DEF Cong
  <2>5. field - dif - sent = k1 * (H - 1) - k2 * (H - 1) + k3 * (H - 1)
    BY <1>2, <2>2, <2>3, <2>4, HAssumption
  <2> DEFINE k == k1 - k2 + k3
  <2>6. k \in Int /\ (field - dif + lost) - (sent + lost) = k * (H - 1)
    BY <1>2, <2>5, HAssumption
  <2> HIDE DEF k
  <2>7. Cong(field - dif + lost, sent + lost)
    BY <2>6 DEF Cong
  <2>8. field - dif + lost \in Int /\ sent + lost \in Int
    BY <1>2
  <2> QED
    BY <1>3, <1>4, <2>7, <2>8, CongTrans
<1>7. lost = 1 => width = "wide"
  BY <1>1, <1>4
<1>8. Claimed => AsSent'
  BY <1>6, <1>7, Zenon DEF AsSent
<1> QED
  BY <1>5, <1>8, Zenon DEF FieldInv, AtEgress, AtDevice, OnWire, AtIngress, AtPod

(* A field of zero is only found in TCP: that of a UDP datagram is marked. *)
LEMMA QuotedKeeps ==
  ASSUME FieldInv, Quoted
  PROVE  FieldInv' /\ (Claimed => AsSent' \/ (m.proto = "tcp" /\ field = 0 /\ field' = 0))
<1> DEFINE dif == bpf_csum_diff(m.a6, m.a4, 0, width)
<1>1. IsDatagram(m) /\ m.proto # "icmp"
  BY Zenon DEF FieldInv, FieldType, Quoted
<1>2. dif \in Wide /\ (width = "folded" => dif \in Half) /\ Cong(Sum4(m), Sum6(m) + dif)
  BY <1>1, AddressDiff, Zenon
<1>3. CASE field = 0
  <2>1. field' = field /\ field' \in Half /\ stage' = "quoted" /\ UNCHANGED <<m, sent, width>>
    BY <1>3, Zenon DEF Quoted, FieldInv, FieldType
  <2>2. FieldInv'
    BY <2>1, TypeKept, Zenon DEF FieldInv, AtEgress, AtDevice, OnWire, AtIngress, AtPod
  <2>3. Claimed => m.proto # "udp"
    BY <1>3, Zenon DEF Quoted, FieldInv, OnWire, Right
  <2>4. m.proto \in {"tcp", "udp", "icmp"}
    BY KindsAre, Zenon DEF FieldInv, FieldType
  <2> QED
    BY <1>1, <1>3, <2>1, <2>2, <2>3, <2>4, Zenon
<1>4. CASE field # 0
  <2>1. field' = EmbeddedCsum(field, dif)
    BY <1>4, Zenon DEF Quoted
  <2> HIDE DEF dif
  <2> QED
    BY <1>2, <2>1, QuoteUpdates, Zenon DEF Quoted, FieldInv
<1> QED
  BY <1>3, <1>4, Zenon

LEMMA QuotedEchoKeeps ==
  ASSUME FieldInv, QuotedEcho
  PROVE  FieldInv' /\ (Claimed => AsSent')
<1> DEFINE dif == bpf_csum_diff(Echo6, Echo4, bpf_csum_diff(Pseudo6(m), 0, 0, width), width)
<1>1. IsDatagram(m) /\ m.proto = "icmp"
  BY Zenon DEF FieldInv, FieldType, QuotedEcho
<1>2. dif \in Wide /\ (width = "folded" => dif \in Half) /\ Cong(Sum4(m), Sum6(m) + dif)
  BY <1>1, EchoDiff, Zenon
<1>3. field' = EmbeddedCsum(field, dif)
  BY DEF QuotedEcho
<1> HIDE DEF dif
<1> QED
  BY <1>2, <1>3, QuoteUpdates DEF QuotedEcho, FieldInv

LEMMA FieldStepKeeps == FieldInv /\ [FieldStep]_checksum => FieldInv'
<1>1. FieldInv /\ FieldStep => FieldInv'
  BY EgressTcpKeeps, EgressUdpKeeps, EgressUdpZeroKeeps, EgressEchoKeeps, DeviceKeeps,
     AnswerKeeps, IngressTcpUdpKeeps, IngressEchoKeeps, QuotedKeeps, QuotedEchoKeeps
  DEF FieldStep
<1>2. ASSUME FieldInv, UNCHANGED checksum PROVE FieldInv'
  <2>1. m' = m /\ field' = field /\ sent' = sent /\ width' = width /\ stage' = stage
    BY <1>2 DEF checksum
  <2>2. FieldType'
    BY <1>2, <2>1 DEF FieldInv, FieldType, IsDatagram
  <2>3. AtEgress'
    BY <1>2, <2>1
    DEF FieldInv, AtEgress, Right, Claimed, TakenForPartial, Sum4, Sum6, Pseudo4, Pseudo6,
        Own4, Own6
  <2>4. AtDevice'
    BY <1>2, <2>1
    DEF FieldInv, AtDevice, Right, Claimed, TakenForPartial, Sum4, Sum6, Pseudo4, Pseudo6,
        Own4, Own6
  <2>5. OnWire'
    BY <1>2, <2>1
    DEF FieldInv, OnWire, Right, Claimed, TakenForPartial, Sum4, Sum6, Pseudo4, Pseudo6,
        Own4, Own6
  <2>6. AtIngress'
    BY <1>2, <2>1
    DEF FieldInv, AtIngress, Right, Claimed, TakenForPartial, Sum4, Sum6, Pseudo4, Pseudo6,
        Own4, Own6
  <2>7. AtPod'
    BY <1>2, <2>1
    DEF FieldInv, AtPod, Right, Claimed, TakenForPartial, Sum4, Sum6, Pseudo4, Pseudo6,
        Own4, Own6
  <2> QED
    BY <2>2, <2>3, <2>4, <2>5, <2>6, <2>7 DEF FieldInv
<1> QED
  BY <1>1, <1>2

LEMMA FieldInvHolds == FieldSpec => []FieldInv
  BY FieldStarts, FieldStepKeeps, PTL DEF FieldSpec

(* For every word size and all sums the IPv6 server accepts what           *)
(* clat_egress sends (clat.bpf.c: the bpf_l4_csum_replace calls).          *)
THEOREM ServerAccepts == FieldSpec => []WireValid
<1>1. FieldInv => WireValid
  <2> SUFFICES ASSUME FieldInv, stage = "wire", Claimed PROVE Valid6
    BY DEF WireValid, Claimed
  <2>1. Right(Sum6(m)) /\ IsDatagram(m) /\ field \in Half
    BY Zenon DEF FieldInv, FieldType, OnWire
  <2>2. Sum6(m) \in Wide /\ Sum6(m) # 0
    BY <2>1, WholeSums
  <2>3. sums_up(Sum6(m), field)
    BY <2>1, <2>2, SumsUp DEF Right
  <2> QED
    BY <2>1, <2>3 DEF Valid6, Right
<1> QED
  BY <1>1, FieldInvHolds, PTL

(* For every word size and all sums the pod accepts what clat_ingress      *)
(* delivers, and a UDP answer keeps a checksum.                            *)
THEOREM PodAccepts == FieldSpec => []DeliveredValid
<1>1. FieldInv => DeliveredValid
  <2> SUFFICES ASSUME FieldInv, stage = "delivered" PROVE Valid4
    BY DEF DeliveredValid
  <2>1. Right(Sum4(m)) /\ IsDatagram(m) /\ field \in Half
    BY Zenon DEF FieldInv, FieldType, AtPod
  <2>2. Sum4(m) \in Wide /\ Sum4(m) # 0
    BY <2>1, WholeSums
  <2>3. sums_up(Sum4(m), field)
    BY <2>1, <2>2, SumsUp DEF Right
  <2> QED
    BY <2>1, <2>3 DEF Valid4, Right
<1> QED
  BY <1>1, FieldInvHolds, PTL

LEMMA AsSentIsSent == ASSUME FieldInv, AsSent PROVE IsSent
<1>1. field \in Int /\ sent \in Int
  BY HalfIsWide DEF FieldInv, FieldType
<1>2. PICK lost \in {0, 1} : (lost = 1 => width = "wide") /\ Cong(field, sent + lost)
  BY DEF AsSent
<1>3. PICK k \in Int : field - (sent + lost) = k * (H - 1)
  BY <1>2 DEF Cong
<1>4. field - sent - lost = k * (H - 1)
  BY <1>1, <1>3, HAssumption
<1>5. (k * (H - 1)) % (H - 1) = 0
  BY HAssumption
<1> QED
  BY <1>2, <1>4, <1>5 DEF IsSent

(* For every word size and all sums a quotation makes the checksum the one *)
(* the pod sent, up to the two zeroes and, with 32-bit differences, one    *)
(* lost carry; the only field it leaves is a zero, which only TCP has      *)
(* there (clat_ingress on a quoted packet: "oc != 0").                     *)
THEOREM QuoteKeepsCsum == FieldSpec => QuotedIsSent
<1> DEFINE Kept == stage' = "quoted" /\ Claimed =>
                     IsSent' \/ (m.proto = "tcp" /\ field = 0 /\ field' = 0)
<1>1. ASSUME FieldInv, FieldInv', FieldStep PROVE Kept
  <2> SUFFICES ASSUME stage' = "quoted", Claimed
               PROVE  IsSent' \/ (m.proto = "tcp" /\ field = 0 /\ field' = 0)
    OBVIOUS
  <2>1. Quoted \/ QuotedEcho
    BY <1>1 DEF FieldStep, EgressTcp, EgressUdp, EgressUdpZero, EgressEcho, Device, Answer,
                IngressTcpUdp, IngressEcho
  <2>2. AsSent' \/ (m.proto = "tcp" /\ field = 0 /\ field' = 0)
    BY <1>1, <2>1, QuotedKeeps, QuotedEchoKeeps, Zenon
  <2>3. FieldInv /\ AsSent => IsSent
    BY AsSentIsSent
  <2>4. FieldInv' /\ AsSent' => IsSent'
    BY AsSentIsSent, PTL
  <2> QED
    BY <1>1, <2>2, <2>4, Zenon
<1>2. FieldInv /\ FieldInv' /\ [FieldStep]_checksum => [Kept]_checksum
  BY <1>1, Zenon
<1> QED
  BY <1>2, FieldInvHolds, PTL DEF FieldSpec, QuotedIsSent, Kept, Claimed
-----------------------------------------------------------------------------
(* udp_full_csum.                                                          *)

(* The inductive invariant: the loop has summed i whole chunks, all of     *)
(* them in the datagram and in the skb; behind it less than a chunk is     *)
(* left, so that the mask that pleases the verifier cuts nothing off.      *)
Typed ==
  /\ d \in Seq(Nat) /\ d # <<>>
  /\ avail \in {ulen, ulen - 1}
  /\ off \in Nat /\ i \in Nat /\ got \in Nat
  /\ pc \in {"check", "chunk", "tail", "fold", "done", "failed"}
Chunks ==
  /\ off = CSUM_CHUNK * i /\ off <= ulen
  /\ off = 0 \/ off <= avail
  /\ pc \in {"check", "chunk", "tail"} => got = off
InRange ==
  pc \in {"chunk", "tail", "fold", "done"} =>
    ulen <= CSUM_CHUNK * CSUM_MAX_CHUNKS
LessThanAChunk == pc \in {"tail", "fold", "done"} => off + CSUM_CHUNK > ulen
Summed == pc \in {"fold", "done"} => got = ulen /\ avail >= ulen
Failed == pc = "failed" => ulen > CSUM_CHUNK * CSUM_MAX_CHUNKS \/ avail < ulen
IInv == Typed /\ Chunks /\ InRange /\ LessThanAChunk /\ Summed /\ Failed

(* A remainder below the divisor is the number itself. *)
LEMMA ModBelow == ASSUME NEW n \in Nat, NEW k \in Nat, n < k PROVE n % k = n
  OBVIOUS

LEMMA ChunkProduct ==
  ASSUME NEW n \in Nat
  PROVE  /\ CSUM_CHUNK * n \in Nat
         /\ CSUM_CHUNK * (n + 1) = CSUM_CHUNK * n + CSUM_CHUNK
  BY ChunkAssumption

(* Once less than a chunk is left, the tail is all that is left. *)
LEMMA TailIsRest ==
  ASSUME Typed, off <= ulen, off + CSUM_CHUNK > ulen
  PROVE  tail = ulen - off
<1>1. ulen \in Nat
  BY DEF Typed, ulen
<1>2. ulen - off \in Nat /\ ulen - off < CSUM_CHUNK /\ CSUM_CHUNK \in Nat
  BY <1>1, ChunkAssumption DEF Typed
<1>3. QED
  BY <1>2, ModBelow DEF tail

LEMMA InitIInv == Init => IInv
<1> SUFFICES ASSUME Init PROVE IInv
  OBVIOUS
<1>1. d \in Seq(Nat) /\ d # <<>> /\ ulen \in Nat
  BY DatagramAssumption DEF Init, ulen
<1>2. CSUM_CHUNK * 0 = 0
  BY ChunkAssumption
<1>3. QED
  BY <1>1, <1>2 DEF Init, IInv, Typed, Chunks, InRange, LessThanAChunk, Summed, Failed, ulen

LEMMA CheckLengthIInv == IInv /\ CheckLength => IInv'
<1> SUFFICES ASSUME IInv, CheckLength PROVE IInv'
  OBVIOUS
<1>1. UNCHANGED <<d, avail, off, i, got>> /\ ulen' = ulen
  BY DEF CheckLength, Input, ulen
<1>2. ulen \in Nat /\ CSUM_CHUNK * CSUM_MAX_CHUNKS \in Nat
  BY ChunkAssumption, ChunkProduct DEF IInv, Typed, ulen
<1>3. pc = "check"
  BY DEF CheckLength
<1>4. \/ pc' = "failed" /\ ulen > CSUM_CHUNK * CSUM_MAX_CHUNKS
      \/ pc' = "chunk" /\ ulen <= CSUM_CHUNK * CSUM_MAX_CHUNKS
  BY <1>2 DEF CheckLength
<1>5. QED
  BY <1>1, <1>3, <1>4
  DEF IInv, Typed, Chunks, InRange, LessThanAChunk, Summed, Failed

LEMMA WholeChunkIInv == IInv /\ WholeChunk => IInv'
<1> SUFFICES ASSUME IInv, WholeChunk PROVE IInv'
  OBVIOUS
<1>1. UNCHANGED <<d, avail>> /\ ulen' = ulen /\ pc = "chunk"
  BY DEF WholeChunk, Input, ulen
<1>2. ulen \in Nat /\ avail \in Int /\ CSUM_CHUNK \in Nat \ {0}
  BY ChunkAssumption DEF IInv, Typed, ulen
<1>3. off + CSUM_CHUNK <= ulen
  BY <1>2 DEF WholeChunk, ChunksDone, IInv, Typed
<1>4. CASE off + CSUM_CHUNK > avail
  <2>1. pc' = "failed" /\ UNCHANGED <<off, i, got>>
    BY <1>4 DEF WholeChunk
  <2>2. avail < ulen
    BY <1>2, <1>3, <1>4 DEF IInv, Typed
  <2>3. QED
    BY <1>1, <2>1, <2>2
    DEF IInv, Typed, Chunks, InRange, LessThanAChunk, Summed, Failed
<1>5. CASE ~(off + CSUM_CHUNK > avail)
  <2>1. pc' = "chunk" /\ off' = off + CSUM_CHUNK /\ got' = got + CSUM_CHUNK /\ i' = i + 1
    BY <1>5 DEF WholeChunk
  <2>2. off' = CSUM_CHUNK * i'
    BY <2>1, ChunkProduct DEF IInv, Typed, Chunks
  <2>3. off' <= avail /\ off' <= ulen /\ got' = off' /\ off' \in Nat /\ i' \in Nat
    BY <1>1, <1>2, <1>3, <1>5, <2>1 DEF IInv, Typed, Chunks
  <2>4. QED
    BY <1>1, <2>1, <2>2, <2>3
    DEF IInv, Typed, Chunks, InRange, LessThanAChunk, Summed, Failed
<1>6. QED
  BY <1>4, <1>5

LEMMA EndChunksIInv == IInv /\ EndChunks => IInv'
<1> SUFFICES ASSUME IInv, EndChunks PROVE IInv'
  OBVIOUS
<1>1. UNCHANGED <<d, avail, off, i, got>> /\ ulen' = ulen /\ pc = "chunk" /\ pc' = "tail"
  BY DEF EndChunks, Input, ulen
<1>2. ulen \in Nat /\ CSUM_CHUNK \in Nat \ {0}
  BY ChunkAssumption DEF IInv, Typed, ulen
<1>3. off + CSUM_CHUNK > ulen
  <2>1. CASE i = CSUM_MAX_CHUNKS
    <3>1. off >= ulen
      BY <1>1, <2>1, <1>2 DEF IInv, Chunks, InRange
    <3>2. QED
      BY <3>1, <1>2 DEF IInv, Typed
  <2>2. CASE off + CSUM_CHUNK > ulen
    BY <2>2
  <2>3. QED
    BY <2>1, <2>2 DEF EndChunks, ChunksDone
<1>4. QED
  BY <1>1, <1>3
  DEF IInv, Typed, Chunks, InRange, LessThanAChunk, Summed, Failed

LEMMA TailBytesIInv == IInv /\ TailBytes => IInv'
<1> SUFFICES ASSUME IInv, TailBytes PROVE IInv'
  OBVIOUS
<1>1. UNCHANGED <<d, avail, off, i>> /\ ulen' = ulen /\ pc = "tail"
  BY DEF TailBytes, Input, ulen
<1>2. ulen \in Nat \ {0} /\ off \in Nat /\ avail \in Int
  BY DEF IInv, Typed, ulen
<1>3. tail = ulen - off
  BY <1>1, TailIsRest DEF IInv, Chunks, LessThanAChunk
<1>4. CASE tail # 0 /\ off + tail > avail
  <2>1. pc' = "failed" /\ UNCHANGED got
    BY <1>4 DEF TailBytes
  <2>2. avail < ulen
    BY <1>2, <1>3, <1>4
  <2>3. QED
    BY <1>1, <2>1, <2>2
    DEF IInv, Typed, Chunks, InRange, LessThanAChunk, Summed, Failed
<1>5. CASE ~(tail # 0 /\ off + tail > avail)
  <2>1. pc' = "fold" /\ got' = got + tail
    BY <1>5 DEF TailBytes
  <2>2. got' = ulen
    BY <1>1, <1>2, <1>3, <2>1 DEF IInv, Chunks
  <2>3. avail >= ulen
    <3>1. CASE tail = 0
      <4>1. off = ulen
        BY <1>2, <1>3, <3>1
      <4>2. QED
        BY <1>2, <4>1 DEF IInv, Chunks
    <3>2. CASE tail # 0
      BY <1>2, <1>3, <1>5, <3>2
    <3>3. QED
      BY <3>1, <3>2
  <2>4. QED
    BY <1>1, <1>2, <2>1, <2>2, <2>3
    DEF IInv, Typed, Chunks, InRange, LessThanAChunk, Summed, Failed
<1>6. QED
  BY <1>4, <1>5

LEMMA StepIInv == IInv /\ [Next]_vars => IInv'
<1> SUFFICES ASSUME IInv, [Next]_vars PROVE IInv'
  OBVIOUS
<1>1. CASE Fold
  <2>1. UNCHANGED <<d, avail, off, i, got>> /\ ulen' = ulen /\ pc = "fold" /\ pc' = "done"
    BY <1>1 DEF Fold, Input, ulen
  <2>2. QED
    BY <2>1 DEF IInv, Typed, Chunks, InRange, LessThanAChunk, Summed, Failed
<1>2. CASE UNCHANGED vars
  BY <1>2 DEF vars, IInv, Typed, Chunks, InRange, LessThanAChunk, Summed, Failed, ulen
<1>3. QED
  BY <1>1, <1>2, CheckLengthIInv, WholeChunkIInv, EndChunksIInv, TailBytesIInv DEF Next

(* udp_full_csum (clat.c:272-309) sums every byte of the datagram once.    *)
THEOREM EveryByteOnce == Spec => []AllSummed
<1>1. IInv => AllSummed
  <2> SUFFICES ASSUME IInv, pc \in {"fold", "done"} PROVE got = ulen /\ off + tail = ulen
    BY DEF AllSummed
  <2>1. tail = ulen - off
    BY TailIsRest DEF IInv, Chunks, LessThanAChunk
  <2>2. ulen \in Nat /\ off \in Nat
    BY DEF IInv, Typed, ulen
  <2>3. QED
    BY <2>1, <2>2 DEF IInv, Summed
<1>2. QED
  BY InitIInv, StepIInv, <1>1, PTL DEF Spec

(* It gives up exactly on a datagram too long for its chunks, or one whose *)
(* bytes are not all there (clat.c:281, 288, 300).                         *)
THEOREM GivesUpExactly == Spec => []FailsExactly
<1>1. IInv => FailsExactly
  BY DEF IInv, InRange, Summed, Failed, FailsExactly
<1>2. QED
  BY InitIInv, StepIInv, <1>1, PTL DEF Spec
=============================================================================
