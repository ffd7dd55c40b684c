---------------------------- MODULE UdpFullCsum -----------------------------
(***************************************************************************)
(* udp_full_csum of bpf/clat.c: the checksum of a whole datagram, summed   *)
(* in chunks of CSUM_CHUNK bytes, one call of bpf_skb_load_bytes per step. *)
(* The bytes are those of the packet; the program sums them as 32-bit      *)
(* words in the byte order of the machine and stores the result in it.     *)
(***************************************************************************)
EXTENDS CsumArith, Sequences

CONSTANTS
  B,                 \* number of values of a byte
  CSUM_CHUNK,
  CSUM_MAX_CHUNKS,
  Datagrams,         \* the UDP datagrams, with their checksum bytes zero
  Addresses,         \* source and destination of p6, as bytes
  IPPROTO_UDP,
  FieldAt            \* offset of the checksum in the datagram

ASSUME ChunkAssumption == CSUM_CHUNK \in Nat \ {0} /\ CSUM_MAX_CHUNKS \in Nat
ASSUME DatagramAssumption == \A x \in Datagrams : x \in Seq(Nat) /\ x # <<>>
ASSUME ByteAssumption == H = B * B

VARIABLES
  d, addresses, \* the datagram and its addresses
  order,       \* "le" or "be"
  avail,       \* bytes of the datagram the skb really has
  sum, off, i, \* the variables of the function
  got,         \* bytes summed
  pc, out

vars == <<d, addresses, order, avail, sum, off, i, got, pc, out>>
Input == <<d, addresses, order, avail>>

ulen == Len(d)

-----------------------------------------------------------------------------
(* Bytes and words (external: the machine).                                *)

Load16(b, o) == IF o = "be" THEN b[1] * B + b[2] ELSE b[2] * B + b[1]
Load32(b, o) ==
  IF o = "be" THEN Load16(<<b[1], b[2]>>, o) * H + Load16(<<b[3], b[4]>>, o)
  ELSE Load16(<<b[3], b[4]>>, o) * H + Load16(<<b[1], b[2]>>, o)
Reversed(b) == [j \in DOMAIN b |-> b[Len(b) + 1 - j]]
Store32(v, o) ==
  LET be == <<v \div (H * B), (v \div H) % B, (v \div B) % B, v % B>>
  IN IF o = "be" THEN be ELSE Reversed(be)
Store16(v, o) == IF o = "be" THEN <<v \div B, v % B>> ELSE <<v % B, v \div B>>

__builtin_bswap32(x) == Load32(Store32(x, "be"), "le")

(* bpf_endian.h: a constant is swapped by shifts, byte n to byte m; any     *)
(* other value by the compiler's builtin.                                  *)
Power(n) == CASE n = 0 -> 1 [] n = 1 -> B [] n = 2 -> H [] n = 3 -> H * B
___bpf_mvb(x, n, m) == ((x \div Power(n)) % B) * Power(m)
___bpf_swab32(x) ==
  ___bpf_mvb(x, 0, 3) + ___bpf_mvb(x, 1, 2) + ___bpf_mvb(x, 2, 1) + ___bpf_mvb(x, 3, 0)
(* Mutant: a constant is not swapped. *)
Mut__bpf_constant_htonl(x) == x
__bpf_constant_htonl(x) == IF order = "le" THEN ___bpf_swab32(x) ELSE x
__bpf_htonl(x) == IF order = "le" THEN __builtin_bswap32(x) ELSE x

(* bpf_csum_diff(NULL, 0, buf, ...), 32 bits at a time. *)
csum_words(buf, seed) ==
  LET s[j \in 0..(Len(buf) \div 4)] ==
        IF j = 0 THEN seed
        ELSE csum_add(s[j - 1], Load32(SubSeq(buf, 4 * j - 3, 4 * j), order))
  IN s[Len(buf) \div 4]

(* Zero-padded to a whole chunk. *)
Padded(bytes) == bytes \o [j \in 1..(CSUM_CHUNK - Len(bytes)) |-> 0]

(* The pseudo-header as clat_egress lays it out in memory. *)
p6 ==
  addresses \o Store32(__bpf_htonl(ulen), order)
            \o Store32(__bpf_constant_htonl(IPPROTO_UDP), order)

-----------------------------------------------------------------------------
Init ==
  /\ d \in Datagrams
  /\ addresses \in Addresses
  /\ order \in {"le", "be"}
  /\ avail \in {Len(d), Len(d) - 1}
  /\ sum = 0 /\ off = 0 /\ i = 0 /\ got = 0
  /\ pc = "check" /\ out = 0

(* Mutant: the last length is rejected, too. *)
MutCheckLength ==
  /\ pc = "check"
  /\ IF ulen >= CSUM_CHUNK * CSUM_MAX_CHUNKS THEN pc' = "failed" ELSE pc' = "chunk"
  /\ sum' = csum_words(p6, 0)
  /\ UNCHANGED <<off, i, got, out, Input>>
CheckLength ==
  /\ pc = "check"
  /\ IF ulen > CSUM_CHUNK * CSUM_MAX_CHUNKS THEN pc' = "failed" ELSE pc' = "chunk"
  /\ sum' = csum_words(p6, 0)
  /\ UNCHANGED <<off, i, got, out, Input>>

(* Where the loop ends.  Mutant: it leaves a last whole chunk to the tail. *)
MutChunksDone == i = CSUM_MAX_CHUNKS \/ off + CSUM_CHUNK >= ulen
ChunksDone == i = CSUM_MAX_CHUNKS \/ off + CSUM_CHUNK > ulen

WholeChunk ==
  /\ pc = "chunk" /\ ~ChunksDone
  /\ IF off + CSUM_CHUNK > avail
     THEN pc' = "failed" /\ UNCHANGED <<sum, off, i, got>>
     ELSE /\ sum' = csum_words(SubSeq(d, off + 1, off + CSUM_CHUNK), sum)
          /\ off' = off + CSUM_CHUNK
          /\ got' = got + CSUM_CHUNK
          /\ i' = i + 1
          /\ pc' = "chunk"
  /\ UNCHANGED <<out, Input>>

EndChunks ==
  /\ pc = "chunk" /\ ChunksDone
  /\ pc' = "tail"
  /\ UNCHANGED <<sum, off, i, got, out, Input>>

(* The mask CSUM_CHUNK - 1: the chunk size is a power of two. *)
tail == (ulen - off) % CSUM_CHUNK

TailBytes ==
  /\ pc = "tail"
  /\ IF tail # 0 /\ off + tail > avail
     THEN pc' = "failed" /\ UNCHANGED <<sum, got>>
     ELSE /\ sum' = IF tail = 0 THEN sum
                    ELSE csum_words(Padded(SubSeq(d, off + 1, off + tail)), sum)
          /\ got' = got + tail
          /\ pc' = "fold"
  /\ UNCHANGED <<off, i, out, Input>>

Fold ==
  /\ pc = "fold"
  /\ out' = IF csum_fold(sum) = 0 THEN H - 1 ELSE csum_fold(sum)
  /\ pc' = "done"
  /\ UNCHANGED <<sum, off, i, got, Input>>

Next == CheckLength \/ WholeChunk \/ EndChunks \/ TailBytes \/ Fold

Spec == Init /\ [][Next]_vars

-----------------------------------------------------------------------------
(* RFC 1071 at the receiver: 16-bit words in network order, odd bytes      *)
(* padded, pseudo-header included, add up to all ones.                     *)
Filled ==
  LET b == Store16(out, order)
  IN [j \in 1..ulen |-> IF j = FieldAt + 1 THEN b[1]
                        ELSE IF j = FieldAt + 2 THEN b[2] ELSE d[j]]
Pseudo == addresses \o Store32(ulen, "be") \o Store32(IPPROTO_UDP, "be")
NetworkSum(bytes) ==
  LET At(j) == IF j \in DOMAIN bytes THEN bytes[j] ELSE 0
      s[j \in 0..((Len(bytes) + 1) \div 2)] ==
        IF j = 0 THEN 0 ELSE s[j - 1] + At(2 * j - 1) * B + At(2 * j)
  IN s[(Len(bytes) + 1) \div 2]

(* The receiver accepts the datagram with the stored checksum, on machines *)
(* of either byte order and at every length; the stored checksum is never  *)
(* zero, which IPv6 forbids.                                               *)
ReceiverAccepts ==
  pc = "done" =>
    /\ out # 0
    /\ LET s == NetworkSum(Pseudo \o Filled) IN s > 0 /\ s % (H - 1) = 0

(* It gives up exactly on a datagram longer than the chunks can hold, or   *)
(* one whose bytes are not all there.                                      *)
FailsExactly ==
  /\ pc = "failed" => ulen > CSUM_CHUNK * CSUM_MAX_CHUNKS \/ avail < ulen
  /\ pc = "done" => ulen <= CSUM_CHUNK * CSUM_MAX_CHUNKS /\ avail >= ulen

(* When the sum is folded, every byte of the datagram has entered it, and  *)
(* none twice: the bounded loop and the masked tail meet.                  *)
AllSummed == pc \in {"fold", "done"} => got = ulen /\ off + tail = ulen
=============================================================================
