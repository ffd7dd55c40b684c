------------------------------ MODULE Counters ------------------------------
(***************************************************************************)
(* The packet counters: both programs count in one per-CPU map, which the  *)
(* collection they were loaded from brings along; `cilium-clat counters`   *)
(* finds the map through the egress filter and reads it key by key, while  *)
(* frames are counted and the plugin may be attaching anew.                *)
(***************************************************************************)
EXTENDS Integers, Sequences, FiniteSetsExt

CONSTANTS
  CounterNames,  \* the keys, in the order they are read
  HookOf,        \* the hook whose program counts a key
  CPUs,          \* in the order the kernel copies their values
  MaxFrames,     \* bound on the frames counted
  MaxLoads       \* bound on the collections loaded

Keys == DOMAIN CounterNames
Gens == 1..MaxLoads
None == 0

ASSUME CountersAssumption ==
  /\ HookOf \in [Keys -> {"egress", "ingress"}]
  /\ Len(CPUs) \in Nat \ {0} /\ DOMAIN CPUs = 1..Len(CPUs)
  /\ Len(CounterNames) \in Nat \ {0} /\ Keys = 1..Len(CounterNames)
  /\ MaxLoads \in Nat

VARIABLES
  at,      \* for each hook, the collection its program belongs to, or None
  map,     \* clat_counters of each collection
  loads, apc,
  rpc, rgen, rkey, rcpu, sum, out,
  counted, \* history: frames counted by each key since the last full Attach,
  whole,   \* whether that Attach is the last thing done to the filters,
  quiet,   \* whether nothing was attached or detached during the read,
  before   \* and the counts when it began: <<of the map, since the Attach>>

reader == <<rpc, rgen, rkey, rcpu, sum, out, before>>
counting == <<at, map, loads, apc, counted, whole, quiet, reader>>

Zeros == [k \in Keys |-> 0]
Total(g, k) == MapThenSumSet(LAMBDA c : map[g][k][c], DOMAIN CPUs)

CountersInit ==
  /\ at = [h \in {"egress", "ingress"} |-> None]
  /\ map = [g \in Gens |-> [k \in Keys |-> [c \in DOMAIN CPUs |-> 0]]]
  /\ loads = 0 /\ apc = "idle"
  /\ rpc = "idle" /\ rgen = None /\ rkey = 1 /\ rcpu = 1 /\ sum = 0 /\ out = Zeros
  /\ counted = Zeros /\ whole = FALSE /\ quiet = FALSE /\ before = <<Zeros, Zeros>>

-----------------------------------------------------------------------------
(* count(): a frame on a CPU, in the map of the program that runs. *)
count(k, c) ==
  /\ MapThenSumSet(LAMBDA g : MapThenSumSet(LAMBDA j : Total(g, j), Keys), Gens) < MaxFrames
  /\ at[HookOf[k]] # None
  /\ map' = [map EXCEPT ![at[HookOf[k]]][k][c] = @ + 1]
  /\ counted' = [counted EXCEPT ![k] = @ + 1]
  /\ UNCHANGED <<at, loads, apc, whole, quiet, reader>>

(* Load, and the first filter of Attach; then the second. *)
AttachEgress ==
  /\ apc = "idle" /\ loads < MaxLoads
  /\ loads' = loads + 1
  /\ at' = [at EXCEPT !["egress"] = loads']
  /\ apc' = "ingress" /\ whole' = FALSE /\ quiet' = FALSE
  /\ UNCHANGED <<map, counted, reader>>

(* Mutant: the ingress program of the collection before stays. *)
MutIngressGen == IF loads > 1 THEN loads - 1 ELSE loads
IngressGen == loads
AttachIngress ==
  /\ apc = "ingress"
  /\ at' = [at EXCEPT !["ingress"] = IngressGen]
  /\ apc' = "idle" /\ counted' = Zeros /\ whole' = TRUE /\ quiet' = FALSE
  /\ UNCHANGED <<map, loads, reader>>

(* Detach, one filter after the other; also after a failed Attach. *)
Detach(h) ==
  /\ at[h] # None
  /\ at' = [at EXCEPT ![h] = None]
  /\ apc' = "idle" /\ whole' = FALSE /\ quiet' = FALSE
  /\ UNCHANGED <<map, loads, counted, reader>>

(* The plugin is killed between the filters (external). *)
Kill ==
  /\ apc = "ingress" /\ apc' = "idle"
  /\ UNCHANGED <<at, map, loads, counted, whole, quiet, reader>>

-----------------------------------------------------------------------------
(* CountersFromLink: the filter, then the program by its id, which is gone *)
(* if the filter was replaced or deleted in between; the map by its id.    *)
ListFilters ==
  /\ rpc \in {"idle", "done", "error"}
  /\ rgen' = at["egress"]
  /\ rpc' = IF at["egress"] = None THEN "error" ELSE "open"
  /\ quiet' = whole
  /\ before' = <<IF at["egress"] = None THEN Zeros ELSE [k \in Keys |-> Total(at["egress"], k)],
                 counted>>
  /\ rkey' = 1 /\ rcpu' = 1 /\ sum' = 0 /\ out' = Zeros
  /\ UNCHANGED <<at, map, loads, apc, counted, whole>>

OpenMap ==
  /\ rpc = "open"
  /\ rpc' = IF rgen = at["egress"] THEN "read" ELSE "error"
  /\ UNCHANGED <<at, map, loads, apc, counted, whole, quiet, rgen, rkey, rcpu, sum, out, before>>

(* ReadCounters: the values of a key, CPU by CPU, then their sum. *)
ReadCPU ==
  /\ rpc = "read" /\ rcpu \in DOMAIN CPUs
  /\ sum' = sum + map[rgen][rkey][rcpu]
  /\ rcpu' = rcpu + 1
  /\ UNCHANGED <<at, map, loads, apc, counted, whole, quiet, rpc, rgen, rkey, out, before>>

(* Mutant: the sum runs on into the next key. *)
MutNextSum == sum
NextSum == 0
NextKey ==
  /\ rpc = "read" /\ rcpu \notin DOMAIN CPUs
  /\ out' = [out EXCEPT ![rkey] = sum]
  /\ sum' = NextSum
  /\ rcpu' = 1
  /\ IF rkey = Len(CounterNames) THEN rpc' = "done" /\ rkey' = 1
     ELSE rkey' = rkey + 1 /\ UNCHANGED rpc
  /\ UNCHANGED <<at, map, loads, apc, counted, whole, quiet, rgen, before>>

LookupFails ==
  /\ rpc = "read"
  /\ rpc' = "error"
  /\ UNCHANGED <<at, map, loads, apc, counted, whole, quiet, rgen, rkey, rcpu, sum, out, before>>

CountersStep ==
  \/ \E k \in Keys, c \in DOMAIN CPUs : count(k, c)
  \/ AttachEgress \/ AttachIngress \/ Kill \/ \E h \in {"egress", "ingress"} : Detach(h)
  \/ ListFilters \/ OpenMap \/ ReadCPU \/ NextKey \/ LookupFails

-----------------------------------------------------------------------------
(* A report is not a snapshot, but each of its numbers was between the     *)
(* count when the read began and the count when it ended, whatever was     *)
(* counted or attached meanwhile.                                          *)
ReportBracketed ==
  rpc = "done" => \A k \in Keys : out[k] \in before[1][k]..Total(rgen, k)

(* A report after a completed Attach, and not disturbed by another one or  *)
(* a Detach, misses no frame counted since, of either direction: the map  *)
(* reached through the egress filter is the one the ingress program uses.  *)
ReportComplete ==
  rpc = "done" /\ quiet => \A k \in Keys : out[k] >= before[2][k]
=============================================================================
