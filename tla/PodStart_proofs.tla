-------------------------- MODULE PodStart_proofs ---------------------------
(***************************************************************************)
(* Proofs about PodStart: what is decided of a pod is right, what was      *)
(* decided loads, and what is reported of the counters was counted.        *)
(***************************************************************************)
EXTENDS PodStart, SumTheorems

-----------------------------------------------------------------------------
(* The invariant of the decision.                                          *)

(* The namespace lists admit the pod. *)
Admitted ==
  LET Named == {j \in DOMAIN args : Len(args[j]) = 2 /\ args[j][1] = "K8S_POD_NAMESPACE"}
      ns == IF Named = {} THEN ""
            ELSE args[CHOOSE j \in Named : \A h \in 1..(j - 1) : h \notin Named][2]
  IN res # <<>> /\ ns \notin conf.exclude /\ (conf.include = {} \/ ns \in conf.include)

(* Decide's loop has passed the addresses before n: they are IPv6, and the *)
(* first of them is the pod's.                                             *)
Seen(n) ==
  /\ \A j \in Addresses : j < n => res[1][j].kind = "v6"
  /\ pod6 = <<>> => \A j \in Addresses : j >= n
  /\ pod6 # <<>> => \E j \in Addresses : /\ j < n /\ pod6 = <<res[1][j]>>
                                         /\ \A k \in Addresses : j <= k

DecideInv ==
  /\ pc # "running" => conf \in Confs /\ args \in ArgLists /\ res \in Results
  /\ pc \in {"parse", "decide"} => pod6 = <<>> /\ i = 1
  /\ pc \in {"decide", "ips", "spec"}
       => /\ cfg.prefix.kind = "v6" /\ cfg.prefix.bits = 96
          /\ cfg.pod.kind = "v4" /\ cfg.err.kind = "v4"
  /\ pc \in {"ips", "spec", "loaded"} => Admitted
  /\ pc = "ips" => i \in 1..(Len(res[1]) + 1) /\ Seen(i)
  /\ pc \in {"spec", "loaded"} => pod6 # <<>> /\ Seen(Len(res[1]) + 1)
  /\ pc = "skipped" => ~Deserves
  /\ NeverRefused
-----------------------------------------------------------------------------
(* PodNamespace is the value of the first key, whichever way one says it. *)
LEMMA FirstNamespace ==
  ASSUME IsList(args)
  PROVE  Admitted <=> NamespaceSkip(PodNamespace) = ""
<1> DEFINE Named == {j \in DOMAIN args : Len(args[j]) = 2 /\ args[j][1] = "K8S_POD_NAMESPACE"}
           Least(j) == \A h \in Named : j <= h
           First(j) == \A h \in 1..(j - 1) : h \notin Named
           ns == IF Named = {} THEN "" ELSE args[CHOOSE j \in Named : First(j)][2]
<1>1. Named \subseteq Nat /\ Named \subseteq 1..Len(args) /\ Len(args) \in Nat
  BY DEF IsList
<1>2. PodNamespace = ns
  <2>1. CASE Named = {}
    BY <2>1, Zenon DEF PodNamespace
  <2>2. CASE Named # {}
    <3> HIDE DEF Named
    <3>1. PICK m \in Named : Least(m)
      BY <1>1, <2>2, LeastNumber
    <3>2. \A j \in Named : Least(j) <=> j = m
      BY <1>1, <3>1
    <3>3. \A j \in Named : First(j) <=> j = m
      BY <1>1, <3>1
    <3>4. (CHOOSE j \in Named : Least(j)) = m
      BY <3>1, <3>2
    <3>5. (CHOOSE j \in Named : First(j)) = m
      BY <3>1, <3>3
    <3>6. PodNamespace = args[CHOOSE j \in Named : Least(j)][2]
      BY <2>2, Zenon DEF PodNamespace, Named
    <3>7. ns = args[CHOOSE j \in Named : First(j)][2]
      BY <2>2, Zenon
    <3> HIDE DEF ns
    <3> QED
      BY <3>4, <3>5, <3>6, <3>7, Zenon
  <2> QED
    BY <2>1, <2>2, Zenon
<1>3. Admitted <=> res # <<>> /\ ns \notin conf.exclude /\ (conf.include = {} \/ ns \in conf.include)
  BY DEF Admitted
<1> HIDE DEF ns
<1>4. CASE res = <<>>
  BY <1>3, <1>4 DEF NamespaceSkip
<1>5. CASE res # <<>>
  BY <1>2, <1>3, <1>5 DEF NamespaceSkip
<1> QED
  BY <1>4, <1>5, Zenon

(* What Decide promises is that the lists admit the pod and its addresses  *)
(* are IPv6.                                                               *)
LEMMA DeservesIs ==
  Deserves <=> Admitted /\ Addresses # {} /\ \A j \in Addresses : res[1][j].kind = "v6"
BY DEF Deserves, Admitted

(* The inputs of a decision under way are lists and texts. *)
LEMMA InputTypes ==
  ASSUME DecideInv, pc # "running"
  PROVE  /\ IsList(args) /\ \A t \in {conf.prefix, conf.pod, conf.gw, conf.err} : IsText(t)
         /\ res # <<>> => /\ Len(res[1]) \in Nat /\ DOMAIN res[1] = 1..Len(res[1])
                          /\ \A j \in 1..Len(res[1]) : IsText(res[1][j])
BY ConfAssumption DEF DecideInv, IsList

(* ParseConfig accepts only what Constants.Spec accepts. *)
LEMMA ParseKeeps ==
  ASSUME DecideInv, ParseConfig
  PROVE  DecideInv'
<1>1. /\ pc = "parse" /\ UNCHANGED <<conf, args, res, pod6, i, skip>>
      /\ pod6 = <<>> /\ i = 1 /\ conf \in Confs /\ args \in ArgLists /\ res \in Results
  BY DEF ParseConfig, Input, DecideInv
<1>2. CASE pc' = "error" /\ UNCHANGED cfg
  BY <1>1, <1>2 DEF DecideInv, NeverRefused
<1>3. CASE pc' = "decide"
  <2> DEFINE pod == OrDefault(conf.pod, DefaultPod)
             gw == OrDefault(conf.gw, DefaultGateway)
             err == OrDefault(conf.err, DefaultErrorSource)
  <2>1. /\ PrefixOK(conf.prefix) /\ pod.kind = "v4" /\ GatewayOK(gw, pod) /\ err.kind = "v4"
        /\ cfg' = [prefix |-> conf.prefix, pod |-> pod, gw |-> gw, err |-> err]
    BY <1>3 DEF ParseConfig
  <2> HIDE DEF pod, gw, err
  <2>2. /\ cfg'.prefix.kind = "v6" /\ cfg'.prefix.bits = 96
        /\ cfg'.pod.kind = "v4" /\ cfg'.err.kind = "v4"
    BY <2>1 DEF PrefixOK
  <2> QED
    BY <1>1, <1>3, <2>2 DEF DecideInv, NeverRefused
<1> QED
  BY <1>2, <1>3 DEF ParseConfig

(* The namespace lists, up to Decide's loop. *)
LEMMA NamespaceKeeps ==
  ASSUME DecideInv, DecideNamespace
  PROVE  DecideInv'
<1>0. /\ pc = "decide" /\ UNCHANGED <<conf, args, res, cfg, pod6, i>> /\ pod6 = <<>> /\ i = 1
  BY Zenon DEF DecideNamespace, Input, DecideInv
<1>1. Admitted <=> NamespaceSkip(PodNamespace) = ""
  BY <1>0, InputTypes, FirstNamespace, Zenon
<1>2. CASE NamespaceSkip(PodNamespace) # ""
  <2>1. pc' = "skipped"
    BY <1>2, Zenon DEF DecideNamespace, Skipped
  <2>2. ~Deserves
    BY <1>1, <1>2, DeservesIs, Zenon
  <2>3. ~Deserves'
    BY <1>0, <2>2, Zenon DEF Deserves, Addresses
  <2> QED
    BY <1>0, <2>1, <2>3 DEF DecideInv, NeverRefused
<1>3. CASE NamespaceSkip(PodNamespace) = ""
  <2>1. pc' = "ips"
    BY <1>3, Zenon DEF DecideNamespace
  <2>2. Admitted'
    BY <1>0, <1>1, <1>3, Zenon DEF Admitted
  <2>3. res # <<>>
    BY <1>1, <1>3, Zenon DEF Admitted
  <2>4. Len(res[1]) \in Nat /\ DOMAIN res[1] = 1..Len(res[1])
    BY <1>0, <2>3, InputTypes
  <2>5. i' \in 1..(Len(res[1]) + 1) /\ Seen(i)'
    BY <1>0, <2>4 DEF Seen, Addresses
  <2> QED
    BY <1>0, <2>1, <2>2, <2>5 DEF DecideInv, NeverRefused
<1> QED
  BY <1>2, <1>3, Zenon

(* One turn of Decide's loop. *)
LEMMA NextIPKeeps ==
  ASSUME DecideInv, NextIP
  PROVE  DecideInv'
<1> DEFINE a == res[1][i]
<1>0. /\ pc = "ips" /\ UNCHANGED <<conf, args, res, cfg>> /\ i <= Len(res[1])
      /\ Admitted /\ Seen(i) /\ i \in 1..(Len(res[1]) + 1)
  BY Zenon DEF NextIP, Input, DecideInv
<1>1. /\ Len(res[1]) \in Nat /\ DOMAIN res[1] = 1..Len(res[1])
      /\ \A j \in 1..Len(res[1]) : IsText(res[1][j])
  BY <1>0, InputTypes, Zenon DEF Admitted
<1>2. i \in 1..Len(res[1]) /\ i \in Nat /\ IsText(a)
  BY <1>0, <1>1
<1>3. Admitted' /\ Addresses' = Addresses /\ Addresses \subseteq 1..Len(res[1])
  BY <1>0, <1>1, Zenon DEF Admitted, Addresses
<1>4. i \in Addresses <=> a.kind \notin {"empty", "junk"}
  BY <1>1, <1>2 DEF Addresses
<1>5. CASE a.kind \in {"empty", "junk"}
  <2>0. Unmap(a) # "v4"
    BY <1>5 DEF Unmap
  <2>1. i' = i + 1 /\ UNCHANGED <<pod6, skip, pc>>
    BY <1>5, <2>0 DEF NextIP
  <2>2. \A j \in Addresses : j < i + 1 <=> j < i
    BY <1>2, <1>3, <1>4, <1>5
  <2>3. Seen(i)'
    BY <1>0, <1>2, <1>3, <2>1, <2>2 DEF Seen
  <2>4. i' \in 1..(Len(res'[1]) + 1) /\ pc' = "ips"
    BY <1>0, <1>1, <1>2, <2>1
  <2> QED
    BY <1>0, <1>3, <2>1, <2>3, <2>4, Zenon DEF DecideInv, NeverRefused
<1>6. CASE a.kind \notin {"empty", "junk"} /\ Unmap(a) = "v4"
  <2>1. pc' = "skipped" /\ UNCHANGED <<pod6, i>>
    BY <1>6, Zenon DEF NextIP, Skipped
  <2>2. a.kind # "v6"
    BY <1>6 DEF Unmap
  <2>3. ~Deserves'
    BY <1>0, <1>3, <1>4, <1>6, <2>2, Zenon DEF Deserves
  <2> QED
    BY <1>0, <2>1, <2>3 DEF DecideInv, NeverRefused
<1>7. CASE a.kind \notin {"empty", "junk"} /\ Unmap(a) # "v4"
  <2>1. /\ pod6' = (IF pod6 = <<>> THEN <<a>> ELSE pod6)
        /\ i' = i + 1 /\ UNCHANGED <<skip, pc>>
    BY <1>7 DEF NextIP
  <2>2. a.kind = "v6"
    BY <1>2, <1>7 DEF Unmap, IsText
  <2>3. \A j \in Addresses : j < i + 1 <=> j < i \/ j = i
    BY <1>2, <1>3
  <2> HIDE DEF a
  <2>4. Seen(i)'
    <3>1. \A j \in Addresses : j < i' => res[1][j].kind = "v6"
      BY <1>0, <2>1, <2>2, <2>3 DEF Seen, a
    <3>2. pod6' # <<>>
      BY <2>1
    <3>3. \E j \in Addresses : /\ j < i' /\ pod6' = <<res[1][j]>>
                               /\ \A k \in Addresses : j <= k
      <4>1. CASE pod6 = <<>>
        <5>1. i \in Addresses /\ i < i' /\ \A k \in Addresses : i <= k
          BY <1>0, <1>2, <1>3, <1>4, <1>7, <2>1, <4>1 DEF Seen
        <5>2. pod6' = <<res[1][i]>>
          BY <2>1, <4>1 DEF a
        <5> QED
          BY <5>1, <5>2
      <4>2. CASE pod6 # <<>>
        BY <1>0, <2>1, <2>3, <4>2 DEF Seen
      <4> QED
        BY <4>1, <4>2
    <3> QED
      BY <1>0, <1>3, <3>1, <3>2, <3>3 DEF Seen
  <2>5. i' \in 1..(Len(res'[1]) + 1) /\ pc' = "ips"
    BY <1>0, <1>1, <1>2, <2>1
  <2> QED
    BY <1>0, <1>3, <2>1, <2>4, <2>5, Zenon DEF DecideInv, NeverRefused
<1> QED
  BY <1>5, <1>6, <1>7

(* The end of the loop. *)
LEMMA EndKeeps ==
  ASSUME DecideInv, EndOfIPs
  PROVE  DecideInv'
<1>0. /\ pc = "ips" /\ UNCHANGED <<conf, args, res, cfg, pod6, i>> /\ i > Len(res[1])
      /\ Admitted /\ Seen(i) /\ i \in 1..(Len(res[1]) + 1)
  BY Zenon DEF EndOfIPs, Input, DecideInv
<1>1. Len(res[1]) \in Nat /\ DOMAIN res[1] = 1..Len(res[1])
  BY <1>0, InputTypes, Zenon DEF Admitted
<1>2. i = Len(res[1]) + 1 /\ Addresses \subseteq 1..Len(res[1]) /\ Addresses' = Addresses
  BY <1>0, <1>1 DEF Addresses
<1>2a. Admitted'
  BY <1>0, Zenon DEF Admitted
<1>3. CASE pod6 = <<>>
  <2>1. pc' = "skipped"
    BY <1>3, Zenon DEF EndOfIPs, Skipped
  <2>2. Addresses = {}
    BY <1>0, <1>1, <1>2, <1>3 DEF Seen
  <2>3. ~Deserves'
    BY <1>2, <2>2 DEF Deserves
  <2> QED
    BY <1>0, <2>1, <2>3 DEF DecideInv, NeverRefused
<1>4. CASE pod6 # <<>>
  <2>1. pc' = "spec"
    BY <1>4 DEF EndOfIPs
  <2>2. Seen(Len(res[1]) + 1)'
    BY <1>0, <1>2 DEF Seen
  <2> QED
    BY <1>0, <1>2, <1>2a, <1>4, <2>1, <2>2 DEF DecideInv, NeverRefused
<1> QED
  BY <1>3, <1>4

(* Constants.Spec finds nothing to refuse. *)
LEMMA SpecKeeps ==
  ASSUME DecideInv, ConstantsSpec
  PROVE  DecideInv'
<1>0. /\ pc = "spec" /\ UNCHANGED <<conf, args, res, cfg, pod6, i>> /\ Admitted
      /\ pod6 # <<>> /\ Seen(Len(res[1]) + 1)
      /\ cfg.prefix.kind = "v6" /\ cfg.prefix.bits = 96
      /\ cfg.pod.kind = "v4" /\ cfg.err.kind = "v4"
  BY DEF ConstantsSpec, Input, DecideInv
<1>1. PICK j \in Addresses : j < Len(res[1]) + 1 /\ pod6 = <<res[1][j]>> /\ res[1][j].kind = "v6"
  BY <1>0 DEF Seen
<1>2. pod6[1].kind = "v6"
  BY <1>1
<1>3. pc' = "loaded"
  BY <1>0, <1>2 DEF ConstantsSpec
<1>4. Admitted' /\ Addresses' = Addresses
  BY <1>0, ZenonT(90) DEF Admitted, Addresses
<1>5. Seen(Len(res[1]) + 1)'
  BY <1>0, <1>4 DEF Seen
<1> QED
  BY <1>0, <1>3, <1>4, <1>5 DEF DecideInv, NeverRefused

LEMMA DecideAlways == Spec => []DecideInv
<1>1. Init => DecideInv
  BY Zenon DEF Init, DecideInit, DecideInv, NeverRefused
<1>2. DecideInv /\ [Next]_vars => DecideInv'
  <2> SUFFICES ASSUME DecideInv, [Next]_vars PROVE DecideInv'
    OBVIOUS
  <2>1. CASE DecideStep
    BY <2>1, ParseKeeps, NamespaceKeeps, NextIPKeeps, EndKeeps, SpecKeeps DEF DecideStep
  <2>2. CASE Install
    BY <2>2, Zenon DEF Install, DecideInv, NeverRefused
  <2>3. CASE UNCHANGED decision
    <3>1. UNCHANGED <<conf, args, res, cfg, pod6, i, skip, pc>>
      BY <2>3 DEF decision
    <3>2. (Admitted' <=> Admitted) /\ (Deserves' <=> Deserves) /\ Addresses' = Addresses
      BY <3>1 DEF Admitted, Deserves, Addresses
    <3>3. (Seen(i)' <=> Seen(i)) /\ (Seen(Len(res[1]) + 1)' <=> Seen(Len(res[1]) + 1))
      BY <3>1, <3>2 DEF Seen
    <3> QED
      BY <3>1, <3>2, <3>3, Zenon DEF DecideInv, NeverRefused
  <2> QED
    BY <2>1, <2>2, <2>3 DEF Next, vars
<1> QED
  BY <1>1, <1>2, PTL DEF Spec

(* What ParseConfig accepts and Decide picks never fails Constants.Spec:   *)
(* for any conflist entries, CNI_ARGS and results of any length.           *)
THEOREM LoadNeverRefuses == Spec => []NeverRefused
<1>1. DecideInv => NeverRefused
  BY DEF DecideInv
<1> QED
  BY <1>1, DecideAlways, PTL

(* Decide gives a CLAT exactly to the pods that are to have one, and takes *)
(* the first IPv6 address of the result, whatever its length and order.    *)
THEOREM DecisionRight == Spec => []DecidedRight
<1>1. DecideInv => DecidedRight
  <2> SUFFICES ASSUME DecideInv PROVE DecidedRight
    OBVIOUS
  <2>1. CASE pc = "skipped"
    BY <2>1 DEF DecideInv, DecidedRight
  <2>2. CASE pc = "loaded"
    <3>1. Admitted /\ Seen(Len(res[1]) + 1) /\ pod6 # <<>>
      BY <2>2 DEF DecideInv
    <3>2. Len(res[1]) \in Nat /\ Addresses \subseteq 1..Len(res[1])
      BY <2>2, <3>1, InputTypes, Zenon DEF Admitted, Addresses
    <3>3. \A j \in Addresses : j < Len(res[1]) + 1
      BY <3>2
    <3>4. Deserves
      BY <3>1, <3>3, DeservesIs DEF Seen
    <3> QED
      BY <2>2, <3>1, <3>4 DEF Seen, DecidedRight
  <2> QED
    BY <2>1, <2>2 DEF DecidedRight
<1> QED
  BY <1>1, DecideAlways, PTL

-----------------------------------------------------------------------------
(* The counters.  While a key is read, the sum so far is at most what the  *)
(* CPUs already read hold now, and together with what the others hold now  *)
(* at least what all held when the read began.                             *)
Held(g, k) == SumOf(map[g][k], DOMAIN CPUs)
Below(f, n) == [c \in DOMAIN CPUs |-> IF c < n THEN f[c] ELSE 0]
From(f, n) == [c \in DOMAIN CPUs |-> IF c < n THEN 0 ELSE f[c]]

ReaderType ==
  /\ rpc \in {"open", "read", "done"} => rgen \in Gens
  /\ rkey \in Keys /\ rcpu \in 1..(Len(CPUs) + 1) /\ sum \in Nat /\ out \in [Keys -> Nat]
  /\ \A k \in Keys : before[1][k] \in Nat /\ before[2][k] \in Nat
CountersType ==
  /\ loads \in Nat /\ loads <= MaxLoads /\ apc \in {"idle", "ingress"}
  /\ at \in [{"egress", "ingress"} -> 0..loads]
  /\ map \in [Gens -> [Keys -> [DOMAIN CPUs -> Nat]]]
  /\ \A g \in Gens, k \in Keys : Held(g, k) \in Nat
  /\ counted \in [Keys -> Nat] /\ ReaderType

(* After a full Attach both hooks run the last collection, and its map has *)
(* all that was counted since.                                             *)
Attached ==
  /\ apc = "ingress" => at["egress"] = loads /\ loads # 0
  /\ whole => /\ apc = "idle" /\ loads # 0 /\ at["egress"] = loads /\ at["ingress"] = loads
              /\ \A k \in Keys : counted[k] <= Held(loads, k)

Reading ==
  /\ rpc = "open" => rkey = 1 /\ rcpu = 1 /\ sum = 0
  /\ rpc \in {"open", "read"} => \A k \in Keys : before[1][k] <= Held(rgen, k)
  /\ rpc = "read" =>
       /\ \A k \in Keys : k < rkey => before[1][k] <= out[k] /\ out[k] <= Held(rgen, k)
       /\ sum <= SumOf(Below(map[rgen][rkey], rcpu), DOMAIN CPUs)
       /\ before[1][rkey] <= sum + SumOf(From(map[rgen][rkey], rcpu), DOMAIN CPUs)
  /\ rpc = "done" => \A k \in Keys : before[1][k] <= out[k] /\ out[k] <= Held(rgen, k)
  /\ rpc \in {"open", "read", "done"} /\ quiet => \A k \in Keys : before[2][k] <= before[1][k]

CountersInv == CountersType /\ Attached /\ Reading

LEMMA TotalIs ==
  ASSUME NEW g, NEW k
  PROVE  Total(g, k) = Held(g, k)
BY DEF Total, Held, MapThenSumSet, MapThenFoldSet, SumOf, Pick, IsIter

LEMMA CPUsFinite == IsFiniteSet(DOMAIN CPUs)
BY CountersAssumption, FS_Interval

(* What has been read of a key and what has not, as the read goes on.      *)
LEMMA PartEnds ==
  ASSUME NEW f \in [DOMAIN CPUs -> Nat]
  PROVE  /\ SumOf(f, DOMAIN CPUs) \in Int
         /\ SumOf(Below(f, 1), DOMAIN CPUs) = 0
         /\ SumOf(From(f, 1), DOMAIN CPUs) = SumOf(f, DOMAIN CPUs)
         /\ SumOf(Below(f, Len(CPUs) + 1), DOMAIN CPUs) = SumOf(f, DOMAIN CPUs)
         /\ SumOf(From(f, Len(CPUs) + 1), DOMAIN CPUs) = 0
<1>1. \A c \in DOMAIN CPUs : c \in Nat /\ ~(c < 1) /\ c < Len(CPUs) + 1 /\ f[c] \in Int
  BY CountersAssumption
<1>2. \A c \in DOMAIN CPUs : Below(f, 1)[c] = 0 /\ From(f, 1)[c] = f[c]
  BY <1>1 DEF Below, From
<1>3. \A c \in DOMAIN CPUs : /\ Below(f, Len(CPUs) + 1)[c] = f[c]
                             /\ From(f, Len(CPUs) + 1)[c] = 0
  BY <1>1 DEF Below, From
<1>4. /\ SumOf(Below(f, 1), DOMAIN CPUs) = 0
      /\ SumOf(From(f, Len(CPUs) + 1), DOMAIN CPUs) = 0
  BY <1>2, <1>3, CPUsFinite, SumZero
<1>5. /\ SumOf(From(f, 1), DOMAIN CPUs) = SumOf(f, DOMAIN CPUs)
      /\ SumOf(f, DOMAIN CPUs) \in Int
  BY <1>1, <1>2, CPUsFinite, SumSame
<1>6. SumOf(Below(f, Len(CPUs) + 1), DOMAIN CPUs) = SumOf(f, DOMAIN CPUs)
  BY <1>1, <1>3, CPUsFinite, SumSame
<1> QED
  BY <1>4, <1>5, <1>6

LEMMA PartReads ==
  ASSUME NEW f \in [DOMAIN CPUs -> Nat], NEW n \in DOMAIN CPUs
  PROVE  /\ SumOf(Below(f, n), DOMAIN CPUs) \in Int
         /\ SumOf(Below(f, n + 1), DOMAIN CPUs) = SumOf(Below(f, n), DOMAIN CPUs) + f[n]
         /\ SumOf(From(f, n + 1), DOMAIN CPUs) \in Int
         /\ SumOf(From(f, n), DOMAIN CPUs) = SumOf(From(f, n + 1), DOMAIN CPUs) + f[n]
<1> DEFINE b == Below(f, n)
           c == Below(f, n + 1)
           s == From(f, n)
           t == From(f, n + 1)
<1>1. \A x \in DOMAIN CPUs : x \in Int /\ f[x] \in Int
  BY CountersAssumption
<1>2. Differs(c, b, DOMAIN CPUs, n, f[n])
  BY <1>1 DEF Below, Differs
<1>3. Differs(s, t, DOMAIN CPUs, n, f[n])
  BY <1>1 DEF From, Differs
<1> HIDE DEF b, c, s, t
<1>4. f[n] \in Int
  BY <1>1
<1>5. /\ SumOf(b, DOMAIN CPUs) \in Int
      /\ SumOf(c, DOMAIN CPUs) = SumOf(b, DOMAIN CPUs) + (IF n \in DOMAIN CPUs THEN f[n] ELSE 0)
  BY <1>2, <1>4, CPUsFinite, SumChange
<1>6. /\ SumOf(t, DOMAIN CPUs) \in Int
      /\ SumOf(s, DOMAIN CPUs) = SumOf(t, DOMAIN CPUs) + (IF n \in DOMAIN CPUs THEN f[n] ELSE 0)
  BY <1>3, <1>4, CPUsFinite, SumChange
<1> QED
  BY <1>5, <1>6 DEF b, c, s, t

LEMMA PartGrows ==
  ASSUME NEW f \in [DOMAIN CPUs -> Nat], NEW c \in DOMAIN CPUs, NEW n \in Int,
         NEW h, h = [f EXCEPT ![c] = @ + 1]
  PROVE  /\ SumOf(f, DOMAIN CPUs) \in Int
         /\ SumOf(h, DOMAIN CPUs) = SumOf(f, DOMAIN CPUs) + 1
         /\ SumOf(Below(f, n), DOMAIN CPUs) \in Int /\ SumOf(Below(h, n), DOMAIN CPUs) \in Int
         /\ SumOf(Below(f, n), DOMAIN CPUs) <= SumOf(Below(h, n), DOMAIN CPUs)
         /\ SumOf(From(f, n), DOMAIN CPUs) \in Int /\ SumOf(From(h, n), DOMAIN CPUs) \in Int
         /\ SumOf(From(f, n), DOMAIN CPUs) <= SumOf(From(h, n), DOMAIN CPUs)
<1> DEFINE b == Below(f, n)
           d == Below(h, n)
           s == From(f, n)
           t == From(h, n)
           below == IF c < n THEN 1 ELSE 0
           above == IF c < n THEN 0 ELSE 1
<1>1. /\ \A x \in DOMAIN CPUs : x \in Int
      /\ Differs(h, f, DOMAIN CPUs, c, 1)
  BY CountersAssumption DEF Differs
<1>2. Differs(d, b, DOMAIN CPUs, c, below)
  BY <1>1 DEF Below, Differs
<1>3. Differs(t, s, DOMAIN CPUs, c, above)
  BY <1>1 DEF From, Differs
<1>4. below \in {0, 1} /\ above \in {0, 1} /\ below \in Int /\ above \in Int /\ 1 \in Int
  OBVIOUS
<1> HIDE DEF b, d, s, t, below, above
<1>5. /\ SumOf(f, DOMAIN CPUs) \in Int
      /\ SumOf(h, DOMAIN CPUs) = SumOf(f, DOMAIN CPUs) + (IF c \in DOMAIN CPUs THEN 1 ELSE 0)
  BY <1>1, <1>4, CPUsFinite, SumChange
<1>6. /\ SumOf(b, DOMAIN CPUs) \in Int
      /\ SumOf(d, DOMAIN CPUs) = SumOf(b, DOMAIN CPUs) + (IF c \in DOMAIN CPUs THEN below ELSE 0)
  BY <1>2, <1>4, CPUsFinite, SumChange
<1>7. /\ SumOf(s, DOMAIN CPUs) \in Int
      /\ SumOf(t, DOMAIN CPUs) = SumOf(s, DOMAIN CPUs) + (IF c \in DOMAIN CPUs THEN above ELSE 0)
  BY <1>3, <1>4, CPUsFinite, SumChange
<1> QED
  BY <1>4, <1>5, <1>6, <1>7 DEF b, d, s, t

LEMMA InitKeeps == CountersInit => CountersInv
<1> SUFFICES ASSUME CountersInit PROVE CountersInv
  OBVIOUS
<1>1. ASSUME NEW g \in Gens, NEW k \in Keys PROVE Held(g, k) = 0
  <2>1. \A c \in DOMAIN CPUs : map[g][k][c] = 0
    BY DEF CountersInit
  <2> QED
    BY <2>1, CPUsFinite, SumZero DEF Held
<1>2. CountersType
  BY <1>1, CountersAssumption DEF CountersInit, CountersType, ReaderType, Zeros, None
<1> QED
  BY <1>2 DEF CountersInit, CountersInv, Attached, Reading

(* A frame is counted: nothing that was read or held becomes less.         *)
LEMMA CountKeeps ==
  ASSUME CountersInv, NEW j \in Keys, NEW c \in DOMAIN CPUs, count(j, c)
  PROVE  CountersInv'
<1> DEFINE a == at[HookOf[j]]
<1>0. a \in Gens /\ a <= loads
  <2>1. HookOf[j] \in {"egress", "ingress"}
    BY CountersAssumption
  <2>2. a \in 0..loads /\ loads \in Nat /\ loads <= MaxLoads /\ MaxLoads \in Nat
    BY <2>1, CountersAssumption DEF CountersInv, CountersType
  <2>3. a # 0
    BY Zenon DEF count, None
  <2> QED
    BY <2>2, <2>3 DEF Gens
<1>1. /\ a \in Gens /\ a <= loads
      /\ map' = [map EXCEPT ![a][j][c] = @ + 1]
      /\ counted' = [counted EXCEPT ![j] = @ + 1]
      /\ at' = at /\ loads' = loads /\ apc' = apc /\ whole' = whole /\ quiet' = quiet
      /\ rpc' = rpc /\ rgen' = rgen /\ rkey' = rkey /\ rcpu' = rcpu /\ sum' = sum
      /\ out' = out /\ before' = before
  BY <1>0 DEF count, reader
<1>2. whole => a = loads
  BY CountersAssumption DEF CountersInv, Attached
<1> HIDE DEF a
<1>3. map' \in [Gens -> [Keys -> [DOMAIN CPUs -> Nat]]]
  BY <1>1 DEF CountersInv, CountersType
<1>4. ASSUME NEW g \in Gens, NEW k \in Keys, NEW n \in Int
      PROVE  /\ Held(g, k) \in Nat /\ Held(g, k)' \in Nat
             /\ Held(g, k)' = Held(g, k) + (IF g = a /\ k = j THEN 1 ELSE 0)
             /\ SumOf(Below(map[g][k], n), DOMAIN CPUs) \in Int
             /\ SumOf(Below(map'[g][k], n), DOMAIN CPUs) \in Int
             /\ SumOf(Below(map[g][k], n), DOMAIN CPUs)
                  <= SumOf(Below(map'[g][k], n), DOMAIN CPUs)
             /\ SumOf(From(map[g][k], n), DOMAIN CPUs) \in Int
             /\ SumOf(From(map'[g][k], n), DOMAIN CPUs) \in Int
             /\ SumOf(From(map[g][k], n), DOMAIN CPUs)
                  <= SumOf(From(map'[g][k], n), DOMAIN CPUs)
  <2>1. map[g][k] \in [DOMAIN CPUs -> Nat] /\ Held(g, k) \in Nat
    BY DEF CountersInv, CountersType
  <2>2. Held(g, k)' = SumOf(map'[g][k], DOMAIN CPUs)
    BY DEF Held
  <2>3. CASE g = a /\ k = j
    <3>1. map'[g][k] = [map[g][k] EXCEPT ![c] = @ + 1]
      BY <1>1, <2>3 DEF CountersInv, CountersType
    <3> QED
      BY <2>1, <2>2, <2>3, <3>1, PartGrows, SMTT(90) DEF Held
  <2>4. CASE ~(g = a /\ k = j)
    <3>1. map'[g][k] = map[g][k]
      BY <1>1, <2>4 DEF CountersInv, CountersType
    <3>2. /\ SumOf(Below(map[g][k], n), DOMAIN CPUs) \in Int
          /\ SumOf(From(map[g][k], n), DOMAIN CPUs) \in Int
      BY <2>1, PartGrows, Zenon
    <3> QED
      BY <2>1, <2>2, <2>4, <3>1, <3>2, SMTT(90) DEF Held
  <2> QED
    BY <2>3, <2>4, Zenon
<1>5. CountersType'
  <2>1. \A g \in Gens, k \in Keys : Held(g, k)' \in Nat
    BY <1>4
  <2>2. counted' \in [Keys -> Nat]
    BY <1>1 DEF CountersInv, CountersType
  <2>3. /\ loads \in Nat /\ loads <= MaxLoads /\ apc \in {"idle", "ingress"}
        /\ at \in [{"egress", "ingress"} -> 0..loads]
    BY DEF CountersInv, CountersType
  <2>4. ReaderType'
    BY <1>1 DEF CountersInv, CountersType, ReaderType
  <2> QED
    BY <1>1, <1>3, <2>1, <2>2, <2>3, <2>4 DEF CountersType
<1>6. Attached'
  <2>1. ASSUME whole, NEW k \in Keys PROVE counted'[k] <= Held(loads, k)'
    <3>1. loads \in Gens /\ counted[k] <= Held(loads, k) /\ counted[k] \in Nat
      <4>1. loads # 0 /\ counted[k] <= Held(loads, k)
        BY <2>1 DEF CountersInv, Attached
      <4>2. loads \in Nat /\ loads <= MaxLoads /\ MaxLoads \in Nat /\ counted[k] \in Nat
        BY CountersAssumption, Zenon DEF CountersInv, CountersType
      <4> QED
        BY <4>1, <4>2 DEF Gens
    <3>2. /\ Held(loads, k) \in Nat
          /\ SumOf(map'[loads][k], DOMAIN CPUs) = Held(loads, k) + (IF loads = a /\ k = j THEN 1 ELSE 0)
      BY <1>4, <3>1 DEF Held
    <3>3. counted'[k] = IF k = j THEN counted[k] + 1 ELSE counted[k]
      BY <1>1 DEF CountersInv, CountersType
    <3> QED
      BY <1>1, <1>2, <2>1, <3>1, <3>2, <3>3 DEF Held
  <2> QED
    BY <1>1, <2>1 DEF CountersInv, Attached
<1>7. Reading'
  <2>1. ASSUME rpc \in {"open", "read", "done"}, NEW k \in Keys
        PROVE  Held(rgen, k) \in Nat /\ Held(rgen, k)' \in Nat /\ Held(rgen, k) <= Held(rgen, k)'
    <3>1. rgen \in Gens
      BY <2>1, Zenon DEF CountersInv, CountersType, ReaderType
    <3>2. /\ Held(rgen, k) \in Nat
          /\ SumOf(map'[rgen][k], DOMAIN CPUs) = Held(rgen, k) + (IF rgen = a /\ k = j THEN 1 ELSE 0)
      BY <1>4, <3>1 DEF Held
    <3> QED
      BY <1>1, <3>2 DEF Held
  <2>2. ASSUME rpc = "read"
        PROVE  /\ sum <= SumOf(Below(map'[rgen][rkey], rcpu), DOMAIN CPUs)
               /\ before[1][rkey] <= sum + SumOf(From(map'[rgen][rkey], rcpu), DOMAIN CPUs)
    <3>1. rgen \in Gens /\ rkey \in Keys /\ rcpu \in Int /\ sum \in Nat /\ before[1][rkey] \in Nat
      BY <2>2, CountersAssumption DEF CountersInv, CountersType, ReaderType
    <3>2. /\ SumOf(Below(map[rgen][rkey], rcpu), DOMAIN CPUs) \in Int
          /\ SumOf(Below(map'[rgen][rkey], rcpu), DOMAIN CPUs) \in Int
          /\ SumOf(Below(map[rgen][rkey], rcpu), DOMAIN CPUs)
               <= SumOf(Below(map'[rgen][rkey], rcpu), DOMAIN CPUs)
          /\ SumOf(From(map[rgen][rkey], rcpu), DOMAIN CPUs) \in Int
          /\ SumOf(From(map'[rgen][rkey], rcpu), DOMAIN CPUs) \in Int
          /\ SumOf(From(map[rgen][rkey], rcpu), DOMAIN CPUs)
               <= SumOf(From(map'[rgen][rkey], rcpu), DOMAIN CPUs)
      BY <1>4, <3>1, Zenon
    <3>3. /\ sum <= SumOf(Below(map[rgen][rkey], rcpu), DOMAIN CPUs)
          /\ before[1][rkey] <= sum + SumOf(From(map[rgen][rkey], rcpu), DOMAIN CPUs)
      BY <2>2 DEF CountersInv, Reading
    <3> QED
      BY <3>1, <3>2, <3>3, SMTT(90)
  <2>3. \A k \in Keys : before[1][k] \in Nat /\ out[k] \in Nat
    BY DEF CountersInv, CountersType, ReaderType
  <2>4. rpc \in {"open", "read"} => \A k \in Keys : before[1][k] <= Held(rgen, k)'
    BY <2>1, <2>3, SMTT(90) DEF CountersInv, Reading
  <2>5. /\ rpc = "read" => \A k \in Keys : k < rkey => before[1][k] <= out[k] /\ out[k] <= Held(rgen, k)'
        /\ rpc = "done" => \A k \in Keys : before[1][k] <= out[k] /\ out[k] <= Held(rgen, k)'
    BY <2>1, <2>3, SMTT(90) DEF CountersInv, Reading
  <2>6. /\ rpc = "open" => rkey = 1 /\ rcpu = 1 /\ sum = 0
        /\ rpc \in {"open", "read", "done"} /\ quiet => \A k \in Keys : before[2][k] <= before[1][k]
    BY Zenon DEF CountersInv, Reading
  <2> QED
    BY <1>1, <2>2, <2>4, <2>5, <2>6 DEF Reading, Below, From
<1> QED
  BY <1>5, <1>6, <1>7 DEF CountersInv

(* What the plugin does to the filters leaves a read alone.                *)
LEMMA ReadingKept ==
  ASSUME CountersInv, map' = map, UNCHANGED reader, quiet' => quiet
  PROVE  /\ Reading'
         /\ \A g \in Gens, k \in Keys : Held(g, k)' = Held(g, k)
         /\ map' \in [Gens -> [Keys -> [DOMAIN CPUs -> Nat]]]
         /\ \A g \in Gens, k \in Keys : Held(g, k)' \in Nat
         /\ ReaderType'
<1>1. /\ rpc' = rpc /\ rgen' = rgen /\ rkey' = rkey /\ rcpu' = rcpu /\ sum' = sum
      /\ out' = out /\ before' = before
  BY DEF reader
<1>2. \A g, k : Held(g, k)' = Held(g, k)
  BY DEF Held
<1>3. \A k : Held(rgen, k)' = Held(rgen, k)
  BY <1>1 DEF Held
<1>4. Reading'
  <2>1. Reading
    BY DEF CountersInv
  <2>2. /\ Below(map'[rgen'][rkey'], rcpu') = Below(map[rgen][rkey], rcpu)
        /\ From(map'[rgen'][rkey'], rcpu') = From(map[rgen][rkey], rcpu)
    BY <1>1
  <2>3. rpc \in {"open", "read", "done"} /\ quiet' => \A k \in Keys : before[2][k] <= before[1][k]
    BY <2>1 DEF Reading
  <2> QED
    BY <1>1, <1>3, <2>1, <2>2, <2>3, Zenon DEF Reading
<1> QED
  BY <1>1, <1>2, <1>4 DEF CountersInv, CountersType, ReaderType

LEMMA AttachKeeps ==
  ASSUME CountersInv,
         AttachEgress \/ AttachIngress \/ Kill \/ \E h \in {"egress", "ingress"} : Detach(h)
  PROVE  CountersInv'
<1>1. map' = map /\ UNCHANGED reader /\ (quiet' => quiet)
  BY DEF AttachEgress, AttachIngress, Kill, Detach
<1>2. /\ Reading' /\ \A g \in Gens, k \in Keys : Held(g, k)' = Held(g, k)
      /\ map' \in [Gens -> [Keys -> [DOMAIN CPUs -> Nat]]]
      /\ \A g \in Gens, k \in Keys : Held(g, k)' \in Nat
      /\ ReaderType'
  BY <1>1, ReadingKept
<1>3. /\ loads \in Nat /\ loads <= MaxLoads /\ MaxLoads \in Nat /\ apc \in {"idle", "ingress"}
      /\ at \in [{"egress", "ingress"} -> 0..loads] /\ counted \in [Keys -> Nat]
      /\ apc = "ingress" => at["egress"] = loads /\ loads # 0 /\ ~whole
  BY CountersAssumption DEF CountersInv, CountersType, Attached
<1>4. ASSUME loads' \in Nat, loads' <= MaxLoads, apc' \in {"idle", "ingress"},
             at' \in [{"egress", "ingress"} -> 0..loads'], counted' \in [Keys -> Nat]
      PROVE  CountersType'
  BY <1>2, <1>4 DEF CountersType
<1>5. CASE AttachEgress
  <2>1. /\ loads' = loads + 1 /\ loads < MaxLoads /\ at' = [at EXCEPT !["egress"] = loads + 1]
        /\ apc' = "ingress" /\ whole' = FALSE /\ counted' = counted
    BY <1>5 DEF AttachEgress
  <2>2. CountersType'
    BY <1>3, <1>4, <2>1
  <2>3. Attached'
    BY <1>3, <2>1 DEF Attached
  <2> QED
    BY <1>2, <2>2, <2>3 DEF CountersInv
<1>6. CASE AttachIngress
  <2>1. /\ at' = [at EXCEPT !["ingress"] = loads] /\ apc = "ingress" /\ apc' = "idle"
        /\ counted' = [k \in Keys |-> 0] /\ loads' = loads
    BY <1>6 DEF AttachIngress, IngressGen, Zeros
  <2>2. CountersType'
    BY <1>3, <1>4, <2>1
  <2>3. \A k \in Keys : counted'[k] <= Held(loads, k)'
    <3>1. loads \in Gens
      BY <1>3, <2>1 DEF Gens
    <3>2. \A k \in Keys : SumOf(map'[loads][k], DOMAIN CPUs) \in Nat
      BY <1>2, <3>1 DEF Held
    <3> QED
      BY <2>1, <3>2 DEF Held
  <2>4. Attached'
    BY <1>3, <2>1, <2>3 DEF Attached
  <2> QED
    BY <1>2, <2>2, <2>4 DEF CountersInv
<1>7. CASE Kill
  <2>1. UNCHANGED <<at, loads, counted, whole>> /\ apc = "ingress" /\ apc' = "idle"
    BY <1>7 DEF Kill
  <2>2. CountersType'
    BY <1>3, <1>4, <2>1
  <2>3. Attached'
    BY <1>3, <2>1 DEF Attached
  <2> QED
    BY <1>2, <2>2, <2>3 DEF CountersInv
<1>8. CASE \E h \in {"egress", "ingress"} : Detach(h)
  <2>1. PICK h \in {"egress", "ingress"} : Detach(h)
    BY <1>8
  <2>2. /\ at' = [at EXCEPT ![h] = 0] /\ loads' = loads /\ counted' = counted
        /\ apc' = "idle" /\ whole' = FALSE
    BY <2>1 DEF Detach, None
  <2>3. CountersType'
    BY <1>3, <1>4, <2>2
  <2>4. Attached'
    BY <2>2 DEF Attached
  <2> QED
    BY <1>2, <2>3, <2>4 DEF CountersInv
<1> QED
  BY <1>5, <1>6, <1>7, <1>8

(* The reader leaves the counters alone.                                   *)
LEMMA AttachedKept ==
  ASSUME CountersInv, UNCHANGED <<at, map, loads, apc, counted, whole>>
  PROVE  /\ Attached'
         /\ \A g, k : Held(g, k)' = Held(g, k)
         /\ ReaderType' => CountersType'
<1>1. \A g, k : Held(g, k)' = Held(g, k)
  BY DEF Held
<1>2. \A k : Held(loads, k)' = Held(loads, k)
  BY DEF Held
<1> QED
  BY <1>1, <1>2 DEF CountersInv, CountersType, Attached

LEMMA ListKeeps ==
  ASSUME CountersInv, ListFilters
  PROVE  CountersInv'
<1> DEFINE a == at["egress"]
<1>1. Attached' /\ (ReaderType' => CountersType') /\ \A g, k : Held(g, k)' = Held(g, k)
  BY AttachedKept DEF ListFilters
<1>2. /\ rgen' = a /\ quiet' = whole /\ map' = map
      /\ rpc' = (IF a = 0 THEN "error" ELSE "open")
      /\ before' = <<IF a = 0 THEN [k \in Keys |-> 0] ELSE [k \in Keys |-> Held(a, k)], counted>>
      /\ rkey' = 1 /\ rcpu' = 1 /\ sum' = 0 /\ out' = [k \in Keys |-> 0]
  BY TotalIs DEF ListFilters, None, Zeros
<1>3. a # 0 => a \in Gens /\ (whole => a = loads)
  BY CountersAssumption DEF CountersInv, CountersType, Attached, Gens
<1>4. whole => \A k \in Keys : counted[k] <= Held(loads, k)
  BY DEF CountersInv, Attached
<1>5. /\ counted \in [Keys -> Nat]
      /\ \A g \in Gens, k \in Keys : Held(g, k) \in Nat
  BY DEF CountersInv, CountersType
<1> HIDE DEF a
<1>6. \A k \in Keys : /\ before'[1][k] = IF a = 0 THEN 0 ELSE Held(a, k)
                      /\ before'[2][k] = counted[k]
  BY <1>2
<1>7. ReaderType'
  <2>1. 1 \in Keys /\ 1 \in 1..(Len(CPUs) + 1)
    BY CountersAssumption
  <2>2. \A k \in Keys : before'[1][k] \in Nat /\ before'[2][k] \in Nat
    BY <1>3, <1>5, <1>6
  <2> QED
    BY <1>2, <1>3, <2>1, <2>2 DEF ReaderType
<1>8. Reading'
  <2>1. \A k \in Keys : a # 0 => Held(rgen, k)' = Held(a, k)
    BY <1>2 DEF Held
  <2> QED
    BY <1>2, <1>3, <1>4, <1>5, <1>6, <2>1 DEF Reading
<1> QED
  BY <1>1, <1>7, <1>8 DEF CountersInv

LEMMA OpenKeeps ==
  ASSUME CountersInv, OpenMap \/ LookupFails
  PROVE  CountersInv'
<1>1. Attached' /\ (ReaderType' => CountersType') /\ \A g, k : Held(g, k)' = Held(g, k)
  BY AttachedKept DEF OpenMap, LookupFails
<1>2. /\ UNCHANGED <<map, quiet, rgen, rkey, rcpu, sum, out, before>>
      /\ rpc' = "error" \/ (rpc = "open" /\ rpc' = "read")
  BY DEF OpenMap, LookupFails
<1>3. ReaderType'
  BY <1>2 DEF CountersInv, CountersType, ReaderType
<1>4. Reading'
  <2>1. CASE rpc' = "error"
    BY <2>1 DEF Reading
  <2>2. CASE rpc = "open" /\ rpc' = "read"
    <3>1. \A k : Held(rgen, k)' = Held(rgen, k)
      BY <1>2 DEF Held
    <3>2. /\ rgen \in Gens /\ rkey = 1 /\ rkey \in Keys /\ rcpu = 1 /\ sum = 0
          /\ \A k \in Keys : k \in Nat /\ ~(k < 1) /\ before[1][k] <= Held(rgen, k)
          /\ quiet => \A k \in Keys : before[2][k] <= before[1][k]
      BY <2>2, CountersAssumption, SMTT(90) DEF CountersInv, CountersType, ReaderType, Reading
    <3>3. map[rgen][rkey] \in [DOMAIN CPUs -> Nat] /\ Held(rgen, rkey) \in Nat
      BY <3>2 DEF CountersInv, CountersType
    <3>4. /\ SumOf(Below(map[rgen][rkey], 1), DOMAIN CPUs) = 0
          /\ SumOf(From(map[rgen][rkey], 1), DOMAIN CPUs) = Held(rgen, rkey)
      BY <3>3, PartEnds DEF Held
    <3>5. /\ sum <= SumOf(Below(map[rgen][rkey], rcpu), DOMAIN CPUs)
          /\ before[1][rkey] <= sum + SumOf(From(map[rgen][rkey], rcpu), DOMAIN CPUs)
      BY <3>2, <3>3, <3>4
    <3> QED
      BY <1>2, <2>2, <3>1, <3>2, <3>5 DEF Reading, Below, From
  <2> QED
    BY <1>2, <2>1, <2>2
<1> QED
  BY <1>1, <1>3, <1>4 DEF CountersInv

(* One more CPU is read: its value moves from what is to come to the sum.  *)
LEMMA ReadKeeps ==
  ASSUME CountersInv, ReadCPU
  PROVE  CountersInv'
<1> DEFINE f == map[rgen][rkey]
<1>1. Attached' /\ (ReaderType' => CountersType') /\ \A g, k : Held(g, k)' = Held(g, k)
  BY AttachedKept DEF ReadCPU
<1>2. /\ rpc = "read" /\ rcpu \in DOMAIN CPUs /\ sum' = sum + f[rcpu] /\ rcpu' = rcpu + 1
      /\ map' = map /\ quiet' = quiet /\ rpc' = rpc /\ rgen' = rgen /\ rkey' = rkey
      /\ out' = out /\ before' = before
  BY DEF ReadCPU
<1>3. rgen \in Gens /\ rkey \in Keys /\ sum \in Nat /\ before[1][rkey] \in Nat
  BY <1>2 DEF CountersInv, CountersType, ReaderType
<1>4. f \in [DOMAIN CPUs -> Nat]
  BY <1>3 DEF CountersInv, CountersType
<1>5. f[rcpu] \in Nat /\ rcpu + 1 \in 1..(Len(CPUs) + 1)
  BY <1>2, <1>4, CountersAssumption
<1>6. /\ sum <= SumOf(Below(f, rcpu), DOMAIN CPUs)
      /\ before[1][rkey] <= sum + SumOf(From(f, rcpu), DOMAIN CPUs)
  BY <1>2, Zenon DEF CountersInv, Reading
<1> HIDE DEF f
<1>7. /\ SumOf(Below(f, rcpu), DOMAIN CPUs) \in Int
      /\ SumOf(Below(f, rcpu + 1), DOMAIN CPUs) = SumOf(Below(f, rcpu), DOMAIN CPUs) + f[rcpu]
      /\ SumOf(From(f, rcpu + 1), DOMAIN CPUs) \in Int
      /\ SumOf(From(f, rcpu), DOMAIN CPUs) = SumOf(From(f, rcpu + 1), DOMAIN CPUs) + f[rcpu]
  BY <1>2, <1>4, PartReads
<1>8. /\ sum' <= SumOf(Below(f, rcpu + 1), DOMAIN CPUs)
      /\ before[1][rkey] <= sum' + SumOf(From(f, rcpu + 1), DOMAIN CPUs)
  BY <1>2, <1>3, <1>5, <1>6, <1>7
<1>9. ReaderType'
  <2>1. sum' \in Nat /\ rcpu' \in 1..(Len(CPUs) + 1)
    BY <1>2, <1>3, <1>5
  <2>2. ReaderType
    BY DEF CountersInv, CountersType
  <2> QED
    BY <1>2, <2>1, <2>2 DEF ReaderType
<1>10. Reading'
  <2>1. \A k : Held(rgen, k)' = Held(rgen, k)
    BY <1>2 DEF Held
  <2>2. /\ \A k \in Keys : before[1][k] <= Held(rgen, k)
        /\ \A k \in Keys : k < rkey => before[1][k] <= out[k] /\ out[k] <= Held(rgen, k)
        /\ quiet => \A k \in Keys : before[2][k] <= before[1][k]
    BY <1>2, Zenon DEF CountersInv, Reading
  <2> QED
    BY <1>2, <1>8, <2>1, <2>2, Zenon DEF Reading, Below, From, f
<1> QED
  BY <1>1, <1>9, <1>10 DEF CountersInv

(* All CPUs are read: the sum is between the counts, and the next key      *)
(* starts.                                                                 *)
LEMMA NextKeyKeeps ==
  ASSUME CountersInv, NextKey
  PROVE  CountersInv'
<1> DEFINE f == map[rgen][rkey]
<1>1. Attached' /\ (ReaderType' => CountersType') /\ \A g, k : Held(g, k)' = Held(g, k)
  BY AttachedKept DEF NextKey
<1>2. /\ rpc = "read" /\ rcpu \notin DOMAIN CPUs /\ sum' = 0 /\ rcpu' = 1
      /\ out' = [out EXCEPT ![rkey] = sum]
      /\ map' = map /\ quiet' = quiet /\ rgen' = rgen /\ before' = before
      /\ \/ rkey = Len(CounterNames) /\ rpc' = "done" /\ rkey' = 1
         \/ rkey # Len(CounterNames) /\ rpc' = "read" /\ rkey' = rkey + 1
  BY DEF NextKey, NextSum
<1>3. /\ rgen \in Gens /\ rkey \in Keys /\ rcpu \in 1..(Len(CPUs) + 1) /\ sum \in Nat
      /\ out \in [Keys -> Nat] /\ \A k \in Keys : before[1][k] \in Nat /\ before[2][k] \in Nat
  BY <1>2, Zenon DEF CountersInv, CountersType, ReaderType
<1>4. f \in [DOMAIN CPUs -> Nat]
  BY <1>3 DEF CountersInv, CountersType
<1>5. rcpu = Len(CPUs) + 1
  BY <1>2, <1>3, CountersAssumption
<1>6. /\ sum <= SumOf(Below(f, rcpu), DOMAIN CPUs)
      /\ before[1][rkey] <= sum + SumOf(From(f, rcpu), DOMAIN CPUs)
  BY <1>2, Zenon DEF CountersInv, Reading
<1>7. Held(rgen, rkey) = SumOf(f, DOMAIN CPUs)
  BY DEF Held
<1> HIDE DEF f
<1>8. before[1][rkey] <= sum /\ sum <= Held(rgen, rkey)
  BY <1>3, <1>4, <1>5, <1>6, <1>7, PartEnds, SMTT(90)
<1>9. ReaderType'
  <2>1. rkey' \in Keys
    BY <1>2, <1>3, CountersAssumption, SMTT(90)
  <2>2. out' \in [Keys -> Nat] /\ 1 \in 1..(Len(CPUs) + 1)
    BY <1>2, <1>3, CountersAssumption
  <2> QED
    BY <1>2, <1>3, <2>1, <2>2 DEF ReaderType
<1>10. Reading'
  <2>1. \A k : Held(rgen, k)' = Held(rgen, k)
    BY <1>2 DEF Held
  <2>2. /\ \A k \in Keys : before[1][k] <= Held(rgen, k)
        /\ \A k \in Keys : k < rkey => before[1][k] <= out[k] /\ out[k] <= Held(rgen, k)
        /\ quiet => \A k \in Keys : before[2][k] <= before[1][k]
    BY <1>2, Zenon DEF CountersInv, Reading
  <2>3. \A k \in Keys : k \in Nat /\ (out'[k] = IF k = rkey THEN sum ELSE out[k])
    BY <1>2, <1>3, CountersAssumption
  <2>4. \A k \in Keys : k < rkey + 1 => before[1][k] <= out'[k] /\ out'[k] <= Held(rgen, k)
    BY <1>3, <1>8, <2>2, <2>3
  <2>5. CASE rpc' = "done"
    <3>1. \A k \in Keys : k < rkey + 1
      BY <1>2, <2>5, CountersAssumption
    <3> QED
      BY <1>2, <2>1, <2>2, <2>4, <2>5, <3>1, Zenon DEF Reading
  <2>6. CASE rpc' = "read"
    <3> DEFINE h == map[rgen][rkey + 1]
    <3>1. rkey' = rkey + 1 /\ rkey + 1 \in Keys
      BY <1>2, <1>3, <2>6, CountersAssumption
    <3>2. h \in [DOMAIN CPUs -> Nat] /\ Held(rgen, rkey + 1) = SumOf(h, DOMAIN CPUs)
      BY <1>3, <3>1 DEF CountersInv, CountersType, Held
    <3> HIDE DEF h
    <3>3. /\ 0 <= SumOf(Below(h, 1), DOMAIN CPUs)
          /\ before[1][rkey + 1] <= 0 + SumOf(From(h, 1), DOMAIN CPUs)
      BY <1>3, <2>2, <3>1, <3>2, PartEnds, SMTT(90)
    <3> QED
      BY <1>2, <2>1, <2>2, <2>4, <2>6, <3>1, <3>3, Zenon DEF Reading, Below, From, h
  <2> QED
    BY <1>2, <2>5, <2>6
<1> QED
  BY <1>1, <1>9, <1>10 DEF CountersInv

LEMMA CountersAlways == Spec => []CountersInv
<1>1. Init => CountersInv
  BY InitKeeps DEF Init
<1>2. CountersInv /\ [Next]_vars => CountersInv'
  <2> SUFFICES ASSUME CountersInv, [Next]_vars PROVE CountersInv'
    OBVIOUS
  <2>1. CASE \E k \in Keys, c \in DOMAIN CPUs : count(k, c)
    BY <2>1, CountKeeps
  <2>2. CASE AttachEgress \/ AttachIngress \/ Kill \/ \E h \in {"egress", "ingress"} : Detach(h)
    BY <2>2, AttachKeeps
  <2>3. CASE ListFilters \/ OpenMap \/ ReadCPU \/ NextKey \/ LookupFails
    BY <2>3, ListKeeps, OpenKeeps, ReadKeeps, NextKeyKeeps
  <2>4. CASE UNCHANGED counting
    <3>1. map' = map /\ UNCHANGED reader /\ quiet' = quiet
      BY <2>4 DEF counting
    <3>2. UNCHANGED <<at, map, loads, apc, counted, whole>>
      BY <2>4 DEF counting
    <3> QED
      BY <3>1, <3>2, ReadingKept, AttachedKept DEF CountersInv
  <2> QED
    BY <2>1, <2>2, <2>3, <2>4, Zenon DEF Next, Install, CountersStep, vars
<1> QED
  BY <1>1, <1>2, PTL DEF Spec

(* Every number of a report was between the count when the read began and  *)
(* the count when it ended, although the CPUs count on while their values  *)
(* are read one after the other and the filters may be replaced: for any   *)
(* number of keys, CPUs, frames and collections.                           *)
THEOREM ReportIsBracketed == Spec => []ReportBracketed
<1>1. CountersInv => ReportBracketed
  <2> SUFFICES ASSUME CountersInv, rpc = "done", NEW k \in Keys
               PROVE  out[k] \in before[1][k]..Total(rgen, k)
    BY DEF ReportBracketed
  <2>1. before[1][k] <= out[k] /\ out[k] <= Held(rgen, k) /\ Total(rgen, k) = Held(rgen, k)
    BY TotalIs, Zenon DEF CountersInv, Reading
  <2>2. rgen \in Gens /\ before[1][k] \in Nat /\ out[k] \in Nat
    BY Zenon DEF CountersInv, CountersType, ReaderType
  <2>3. Held(rgen, k) \in Nat
    BY <2>2, Zenon DEF CountersInv, CountersType
  <2> QED
    BY <2>1, <2>2, <2>3, SMTT(90)
<1> QED
  BY <1>1, CountersAlways, PTL

(* A report that follows a full Attach and is not disturbed has every      *)
(* frame counted since, of both directions: the reader comes by way of the *)
(* egress filter, and the ingress program counts in the same map.          *)
THEOREM ReportIsComplete == Spec => []ReportComplete
<1>1. CountersInv => ReportComplete
  <2> SUFFICES ASSUME CountersInv, rpc = "done", quiet, NEW k \in Keys
               PROVE  out[k] >= before[2][k]
    BY Zenon DEF ReportComplete
  <2>1. before[1][k] <= out[k] /\ before[2][k] <= before[1][k]
    BY DEF CountersInv, Reading
  <2>2. before[1][k] \in Nat /\ before[2][k] \in Nat /\ out[k] \in Nat
    BY DEF CountersInv, CountersType, ReaderType
  <2> QED
    BY <2>1, <2>2, SMTT(90)
<1> QED
  BY <1>1, CountersAlways, PTL
=============================================================================
