----------------------------- MODULE CsumArith ------------------------------
(***************************************************************************)
(* The checksum arithmetic of bpf/clat.c and of the kernel helpers it      *)
(* calls, on numbers.  H is the number of values of a 16-bit half word, so *)
(* that small H give small instances of the same arithmetic; a 32-bit sum  *)
(* (__wsum) is a number below H * H.  __u16 and __u32 wrap.                *)
(***************************************************************************)
EXTENDS Integers

CONSTANT H

ASSUME HAssumption == H \in Nat /\ H > 2

W == H * H
Half == 0..(H - 1)
Wide == 0..(W - 1)

not16(x) == H - 1 - x
not32(x) == W - 1 - x

(* clat.c csum_fold, in its 32-bit arithmetic. *)
fold_once(s) == (s % H) + (s \div H)
csum_fold(s) == not16(fold_once(fold_once(s)) % H)

-----------------------------------------------------------------------------
(* The kernel's part (external).                                           *)

(* csum_add: a 32-bit addition with the carry brought around. *)
csum_add(a, b) == IF a + b >= W THEN a + b - W + 1 ELSE a + b

from32to16(s) == not16(csum_fold(s))

(* bpf_csum_diff adds the complement of the old words and the new words to *)
(* the seed.  Kernels differ in what they return: the 32-bit sum as it is, *)
(* or folded to 16 bits.                                                   *)
bpf_csum_diff(out, in, seed, width) ==
  LET s == csum_add(csum_add(seed, not32(out)), in)
  IN IF width = "folded" THEN from32to16(s) ELSE s

(* The same without words that leave. *)
csum_of(in, seed, width) ==
  LET s == csum_add(seed, in) IN IF width = "folded" THEN from32to16(s) ELSE s

(* bpf_l4_csum_replace with BPF_F_PSEUDO_HDR: a complete field holds the   *)
(* complement of a sum, a CHECKSUM_PARTIAL one the sum itself.             *)
replace_by_diff(field, partial, diff) ==
  IF partial THEN not16(csum_fold(csum_add(diff, field)))
  ELSE csum_fold(csum_add(diff, not32(field)))

(* With BPF_F_MARK_MANGLED_0 a zero field stays, unless BPF_F_MARK_ENFORCE *)
(* is given, and a zero result is written as all ones.                     *)
bpf_l4_csum_replace(field, partial, diff, mangled0, enforce) ==
  LET new == replace_by_diff(field, partial, diff)
  IN IF mangled0 /\ ~enforce /\ field = 0 THEN field
     ELSE IF mangled0 /\ new = 0 THEN H - 1
     ELSE new

(* A receiver adds everything up: all ones is right.                       *)
sums_up(sum, field) == csum_fold(csum_add(sum, field)) = 0

(* What a sender writes; UDP writes a zero as all ones.                    *)
full_field(sum, udp) == IF udp /\ csum_fold(sum) = 0 THEN H - 1 ELSE csum_fold(sum)
partial_field(pseudo) == from32to16(pseudo)
=============================================================================
