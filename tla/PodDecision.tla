---------------------------- MODULE PodDecision -----------------------------
(***************************************************************************)
(* What a configuration, the runtime's CNI_ARGS and the result of the      *)
(* plugins before lead to: ParseConfig, PodNamespace and Decide of         *)
(* internal/clat/config.go, and the checks that Constants.Spec makes       *)
(* before the programs are loaded (internal/clat/attach.go).               *)
(*                                                                         *)
(* A text is what the netip package reads in it: nothing, junk, or an      *)
(* address of a family, with the length and the host bits of a prefix.     *)
(***************************************************************************)
EXTENDS Integers, Sequences

CONSTANTS
  Confs,        \* entries of the conflist
  ArgLists,     \* CNI_ARGS, as sequences of <<key, value>> or <<text>>
  Results,      \* prevResult: <<>> for none, else <<its addresses>>
  DefaultPod, DefaultGateway, DefaultErrorSource

Empty == [kind |-> "empty", addr |-> "", bits |-> 0, host |-> FALSE]
IsList(s) == Len(s) \in Nat /\ DOMAIN s = 1..Len(s)
IsText(t) == t.kind \in {"empty", "junk", "v4", "4in6", "v6"} /\ t.bits \in 0..128

ASSUME ConfAssumption ==
  /\ \A c \in Confs : \A t \in {c.prefix, c.pod, c.gw, c.err} : IsText(t)
  /\ \A a \in ArgLists : IsList(a)
  /\ \A r \in Results \ {<<>>} : IsList(r[1]) /\ \A j \in DOMAIN r[1] : IsText(r[1][j])
  /\ \A t \in {DefaultPod, DefaultGateway, DefaultErrorSource} : t.kind = "v4"

VARIABLES
  conf, args, res,   \* the inputs
  cfg,               \* what ParseConfig returns
  pod6,              \* Decide's pod address: <<>> or <<address>>
  i,                 \* its place in res.IPs
  skip,              \* its reason, "" for none
  pc

decision == <<conf, args, res, cfg, pod6, i, skip, pc>>
Input == <<conf, args, res>>

NoConfig == [prefix |-> Empty, pod |-> Empty, gw |-> Empty, err |-> Empty]

DecideInit ==
  /\ conf \in Confs /\ args \in ArgLists /\ res \in Results
  /\ cfg = NoConfig
  /\ pod6 = <<>> /\ i = 1 /\ skip = "" /\ pc = "parse"

-----------------------------------------------------------------------------
(* ParseConfig.                                                            *)

OrDefault(t, default) == IF t.kind = "empty" THEN default ELSE t

PrefixOK(p) == p.kind = "v6" /\ p.bits = 96 /\ ~p.host

GatewayOK(gw, pod) == gw.kind = "v4" /\ gw.addr # pod.addr

ParseConfig ==
  LET pod == OrDefault(conf.pod, DefaultPod)
      gw == OrDefault(conf.gw, DefaultGateway)
      err == OrDefault(conf.err, DefaultErrorSource)
  IN /\ pc = "parse"
     /\ \/ /\ PrefixOK(conf.prefix) /\ pod.kind = "v4"
           /\ GatewayOK(gw, pod) /\ err.kind = "v4"
           /\ cfg' = [prefix |-> conf.prefix, pod |-> pod, gw |-> gw, err |-> err]
           /\ pc' = "decide"
        \/ /\ ~(PrefixOK(conf.prefix) /\ pod.kind = "v4"
                /\ GatewayOK(gw, pod) /\ err.kind = "v4")
           /\ pc' = "error" /\ UNCHANGED cfg
     /\ UNCHANGED <<Input, pod6, i, skip>>

-----------------------------------------------------------------------------
(* PodNamespace: the value of the first such key. *)
PodNamespace ==
  LET Hits == {j \in DOMAIN args : Len(args[j]) = 2 /\ args[j][1] = "K8S_POD_NAMESPACE"}
  IN IF Hits = {} THEN "" ELSE args[CHOOSE j \in Hits : \A h \in Hits : j <= h][2]

Skipped(why) == skip' = why /\ pc' = "skipped"

(* Decide up to its loop. *)
(* Mutant: an allow-list overrules the exclusion. *)
MutNamespaceSkip(ns) ==
  CASE res = <<>> -> "no prevResult"
    [] conf.include = {} /\ ns \in conf.exclude -> "excluded"
    [] conf.include # {} /\ ns \notin conf.include -> "not included"
    [] OTHER -> ""
NamespaceSkip(ns) ==
  CASE res = <<>> -> "no prevResult"
    [] res # <<>> /\ ns \in conf.exclude -> "excluded"
    [] res # <<>> /\ ns \notin conf.exclude
       /\ conf.include # {} /\ ns \notin conf.include -> "not included"
    [] OTHER -> ""

DecideNamespace ==
  /\ pc = "decide"
  /\ IF NamespaceSkip(PodNamespace) # "" THEN Skipped(NamespaceSkip(PodNamespace))
     ELSE pc' = "ips" /\ UNCHANGED skip
  /\ UNCHANGED <<Input, cfg, pod6, i>>

(* One address of the result.  A nil entry and bytes of no address length  *)
(* are passed over; Unmap makes IPv4 of an IPv4-mapped address.            *)
(* Mutant: it stays an IPv6 one. *)
MutUnmap(a) == IF a.kind = "4in6" THEN "v6" ELSE a.kind
Unmap(a) == IF a.kind = "4in6" THEN "v4" ELSE a.kind

NextIP ==
  /\ pc = "ips" /\ i <= Len(res[1])
  /\ LET a == res[1][i]
     IN CASE a.kind \in {"empty", "junk"} -> i' = i + 1 /\ UNCHANGED <<pod6, skip, pc>>
          [] Unmap(a) = "v4" -> Skipped("has IPv4") /\ UNCHANGED <<pod6, i>>
          [] OTHER -> /\ pod6' = IF pod6 = <<>> THEN <<a>> ELSE pod6
                      /\ i' = i + 1
                      /\ UNCHANGED <<skip, pc>>
  /\ UNCHANGED <<Input, cfg>>

EndOfIPs ==
  /\ pc = "ips" /\ i > Len(res[1])
  /\ IF pod6 = <<>> THEN Skipped("no IPv6") ELSE pc' = "spec" /\ UNCHANGED skip
  /\ UNCHANGED <<Input, cfg, pod6, i>>

(* Constants.Spec. *)
ConstantsSpec ==
  /\ pc = "spec"
  /\ pc' = IF /\ cfg.prefix.kind \in {"v6", "4in6"} /\ cfg.prefix.bits = 96
              /\ pod6[1].kind = "v6"
              /\ cfg.pod.kind = "v4" /\ cfg.err.kind = "v4"
           THEN "loaded" ELSE "refused"
  /\ UNCHANGED <<Input, cfg, pod6, i, skip>>

DecideStep == ParseConfig \/ DecideNamespace \/ NextIP \/ EndOfIPs \/ ConstantsSpec

-----------------------------------------------------------------------------
(* What was accepted from the conflist and taken from the result never     *)
(* fails the checks made at load time: a bad configuration is an error of  *)
(* ParseConfig and an unusable address a reason to skip, never a failed    *)
(* ADD.                                                                    *)
NeverRefused == pc # "refused"

(* A pod gets a CLAT exactly if its namespace, as the runtime names it, is *)
(* not excluded and, if there is an allow-list, on it, and its addresses   *)
(* are IPv6 and only IPv6, in whatever order they are reported; its        *)
(* address is then the first of them.                                      *)
Addresses == {j \in DOMAIN res[1] : res[1][j].kind \notin {"empty", "junk"}}
Deserves ==
  LET Named == {j \in DOMAIN args : Len(args[j]) = 2 /\ args[j][1] = "K8S_POD_NAMESPACE"}
      ns == IF Named = {} THEN ""
            ELSE args[CHOOSE j \in Named : \A h \in 1..(j - 1) : h \notin Named][2]
  IN /\ res # <<>>
     /\ ns \notin conf.exclude
     /\ conf.include = {} \/ ns \in conf.include
     /\ Addresses # {} /\ \A j \in Addresses : res[1][j].kind = "v6"
DecidedRight ==
  /\ pc = "skipped" => ~Deserves
  /\ pc = "loaded" => /\ Deserves
                      /\ \E j \in Addresses : /\ pod6 = <<res[1][j]>>
                                              /\ \A k \in Addresses : j <= k
=============================================================================
