------------------------------- MODULE MCCsum -------------------------------
(* Bytes of three values, half words of nine: every 32-bit address sum.    *)
(* Chunks of one word, two of them; every length up to one more than they  *)
(* hold.                                                                   *)
EXTENDS Checksums

MCAddrs == Wide \ {0}
MCDatagrams ==
  UNION {{f \in [1..n -> {0, 1, 2}] : f[3] = 0 /\ f[4] = 0} : n \in 4..9}
MCAddresses == {<<0, 0, 0, 1>>, <<2, 2, 2, 2>>, <<2, 0, 2, 1>>, <<0, 2, 1, 0>>}
=============================================================================
