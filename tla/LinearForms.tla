---------------------------- MODULE LinearForms -----------------------------
(***************************************************************************)
(* Checksums as linear forms.  Ones' complement sums form a commutative    *)
(* group, so what a sum is worth, whatever the bytes are, is an integer    *)
(* combination of the pieces that entered it, and an incremental update is *)
(* right exactly when its form is.  The arithmetic below that, with its    *)
(* widths and its two zeroes, is the subject of module CsumArith.          *)
(***************************************************************************)
EXTENDS Integers

(* A form is a set of <<term, coefficient>> pairs, one for each term whose *)
(* coefficient is not zero.                                                *)
IsForm(f) ==
  \A x \in f : /\ x = <<x[1], x[2]>> /\ x[2] \in Int \ {0}
               /\ \A y \in f : x[1] = y[1] => x = y
Zero == {}
Sum(S) == {<<t, 1>> : t \in S}
Terms(f) == {p[1] : p \in f}
Coef(f, t) == IF t \in Terms(f) THEN (CHOOSE p \in f : p[1] = t)[2] ELSE 0
Combine(f, k, g) ==
  {p \in {<<t, Coef(f, t) + k * Coef(g, t)>> : t \in Terms(f) \cup Terms(g)} : p[2] # 0}
Plus(f, g) == Combine(f, 1, g)
Minus(f, g) == Combine(f, -1, g)

(* bpf_csum_diff: the bytes of from leave the sum, those of to enter it.   *)
bpf_csum_diff(from, to, seed) == Plus(Minus(seed, from), to)
=============================================================================
