# cilium-clat: TLA+ models, model checking and proofs

cilium-clat is a chained CNI plugin that gives pods of an IPv6-only Cilium
cluster an IPv4 stack: an address, a neighbour entry and two routes in the
pod's network namespace, and two eBPF programs on the pod side of the veth
that translate IPv4 to IPv6 and back. This directory holds TLA+ modules that
model it, TLC configurations that check them on small instances, and TLAPS
proofs for every instance.

## 1. Inventory of the system

| Part | Source | State it owns | Operations |
| --- | --- | --- | --- |
| CNI commands | `internal/clat/plugin.go` | none between commands | `CmdAdd`, `CmdDel`, `CmdCheck` |
| IPv4 setup | `internal/clat/netns.go` | address, neighbour, routes in the pod namespace | `ConfigureIPv4`, `RemoveIPv4`, `CheckIPv4`, `InspectIPv4` |
| Filters | `internal/clat/attach.go` | clsact qdisc, two cls_bpf filters | `Load`, `Attach`, `Detach`, `AttachedFilters`, `CheckAttached` |
| Configuration | `internal/clat/config.go` | none (pure) | `ParseConfig`, `Decide`, `PodNamespace`, `HostInterfaceMAC` |
| Translators | `bpf/clat.c` | packet, per-CPU counters | `clat_egress`, `clat_ingress`, checksum and option helpers |
| Counters | `internal/clat/counters.go` | none | `ReadCounters`, `CountersFromLink` |
| Installer | `cmd/cilium-clat/main.go` | plugin binary and temporary file on the host | `install`, `sleepForever` |

How they interact. The container runtime runs the plugin once per command.
All that survives a command is in the kernel (the namespace) and in what the
runtime remembers of the last ADD. The Cilium agent rewrites the conflist and
the installer replaces the binary at any time; ADD, DEL and CHECK of one pod
may therefore run with different configurations and different programs.

What is hard here, and hardly tested: a command killed between two netlink
calls and retried; a call that fails half way, and an undo that fails too; an
orphaned command that overlaps its successor after a restart of the runtime;
another owner's IPv4 state appearing between inspection and installation;
MTU, MAC, address plan or program version changing between ADD and DEL or
CHECK; in the translators, checksums updated in pieces while the packet is
being cut, lengths and MTUs at their boundaries, helpers that fail half way,
and packets that come back quoted in an error after two translations.
`PROJECT.json` lists these as hazards, line by line, with the property that
covers each or the reason why none does.

## 2. Modules

| Module | Content |
| --- | --- |
| `PodNetns` | A namespace as a record, the netlink calls as functions on it (external: the kernel's part), the plugin's classifications (`InspectIPv4`, `CheckIPv4`, `CheckAttached`) |
| `ClatPlugin` | The commands as processes, the runtime and the node around them; the properties |
| `MCPlugin` | Values for the constants |
| `ClatPlugin_proofs` | TLAPS proofs about `ClatPlugin` |
| `PluginBinary` | What the installer promises: a whole binary, replaced in one step |
| `Installer` | `cilium-clat install` on a file system that can lose power; implements `PluginBinary` |
| `MCInstaller` | Values for the constants |
| `LinearForms` | Checksums as integer combinations of the pieces they sum |
| `Packets` | The frames at the two hooks, what a receiver verifies, the outcomes of a program |
| `ClatEgress`, `ClatIngress` | `clat_egress` and `clat_ingress`: the set of outcomes on a frame |
| `ClatPath`, `MCPath` | Both programs between a pod and a network of servers, routers and native hosts |
| `ClatPath_proofs`, `ClatAnswers_proofs`, `ClatQuotes_proofs` | TLAPS proofs about `ClatPath`: the way out, the way back, and the quoted packets and counters; the last also about `PathMtu` |
| `SkbSteps` | The helper calls of both programs on the words of one skb, one call per step |
| `OptionWalk` | `ip4_has_source_route`, one turn of its loop per step |
| `SkbProgram`, `MCSkb` | Both together: the options are walked, then the frame is rewritten |
| `ClatSteps_proofs` | TLAPS proofs about `Installer` and its refinement, and about `OptionWalk` within `SkbProgram` |
| `CsumArith` | `csum_fold` and the kernel's checksum helpers on numbers of a small width |
| `CsumField` | The life of one transport checksum through both translations |
| `UdpFullCsum` | `udp_full_csum`, chunk by chunk, and the byte-order macros it depends on |
| `Checksums`, `MCCsum` | Both together: a UDP datagram without a checksum gets its own from its bytes |
| `Checksums_proofs` | TLAPS proofs about `CsumField` and `UdpFullCsum` |
| `PathMtu`, `MCMtu` | Path MTU discovery of one flow through both programs |
| `PodDecision` | `ParseConfig`, `PodNamespace`, `Decide` and the checks of `Constants.Spec` |
| `Counters` | `count` on several CPUs, and `ReadCounters` racing it and the plugin |
| `PodStart`, `MCStart` | Both together: an ADD decides, and its programs then count |
| `PodStart_proofs` | TLAPS proofs about `PodDecision` and `Counters` |
| `SumTheorems` | Lemmas on least numbers and on sums over finite sets |

### The plugin: state

`net` is the namespace: addresses on the pod interface, permanent neighbour
entries, /32 routes, the metric-0 default route, the qdisc, the two filters,
and whether something else has an address on another link or a default route
of another metric. `up` says that the namespace exists. `link` is what
`inspectPodLink` and `peerMAC` read. `conflist` and `bin` are what the next
command will be started with. `pod`, `cur` and `added` are the runtime's
memory (`added` the ADD that reported an installed CLAT). `pc` and `loc` are
the step and the local variables of each process; the fields `failed`,
`alone`, `raced` and `fresh` of `loc` are history that only the properties
read. `failed` holds the calls of the undo, and the reads of a CHECK, that
failed and made a difference, while the process was alone.

### The plugin: actions

One action per netlink call, in the order of the code:

| Code | Actions |
| --- | --- |
| `CmdAdd`, `CmdCheck`, `CmdDel` heads | `Parse` |
| `InspectIPv4` | `InspectAddrs`, `InspectRoutes` (the caller's early return included) |
| `CmdCheck`, decision | `ListAttached` |
| `inspectPodLink`, `peerMAC`, `Load`, `Tags` | `Prepare` |
| `WithNetNSPath`, `LinkByName` | `Enter` |
| `ConfigureIPv4` | `AddAddr`, `AddNeigh`, `AddHost`, `AddDef` |
| `Attach` | `AddQdisc`, `AttachEgress`, `AttachIngress` |
| `Detach` | `ListFilter`, `DeleteFilter`, `DeleteQdisc` |
| `RemoveIPv4` | `DeleteDef`, `DeleteHost`, `DeleteNeigh`, `DeleteAddr` |
| `CheckIPv4`, `CheckAttached` | `CheckAddr`, `CheckNeigh`, `CheckRoutes`, `CheckAttached` |

Every call may fail, at any time and for any reason, and must fail when the
namespace is gone or the kernel cannot accept it (a default route whose next
hop is not on-link, a filter without a qdisc). The error paths are the code's:
`install` undoes with `RemoveIPv4`, or with `Detach` and `RemoveIPv4`; DEL
goes on with its next call; a failed read ends ADD through `failOrOpen`. One
failed read is no error: when `LinkByIndex` does not find the interface of a
default route (`named` in `InspectRoutes`), `InspectIPv4` takes the plugin's own
route for another's.

Around the processes: `Start`, `Return`, `Kill` and `Orphan` are the runtime
(ADD is repeated until it succeeds, CHECK runs while the pod runs, DEL at any
time and repeatedly, and an ADD may follow a DEL as long as the namespace is
there; `Orphan` is a restart after which the process goes on
unobserved). `Foreigner`, `LinkChange`, `Reconfigure`, `Upgrade` and
`RemoveNetns` are the rest of the node.

### The installer

`Installer` has one action per system call of `install`: `OpenTmp` (with the
calls before it, which leave nothing), `CopyBlock`, `SyncTmp`, `CloseTmp`,
`Rename`, and `RemoveTmp` for the error paths. `dir` is the plugin directory
with its two names, `ddir` what of it is on disk; `data` and `synced` are the
content of the inodes and whether fsync has put it on disk. After a power
loss (`PowerLoss`) a file written since its last fsync holds anything, and
the names are those last written back (`WriteBackNames`, at any time: `install`
does not sync the directory). The kernel refuses to execute a file that is
open for writing (ETXTBSY). `Upgrade` of `ClatPlugin` is `Replace` of
`PluginBinary`, which `Installer` implements.

### The translators

The two programs are large and sequential. They are modelled three times, each
time keeping what one kind of question needs.

*What comes out* (`ClatEgress`, `ClatIngress`, `ClatPath`). A program is an
operator from a frame to its possible outcomes: pass, drop with a counter, or
the translated packet with the counter. `HeaderChecks4`, `TransportChecks4`
and their ingress counterparts are the early returns in the order of the code;
the first that applies decides. There are several outcomes because helpers
fail: `Faults` says which (`"helper"`: a call that changes the packet;
`"pull"`: `bpf_skb_pull_data`; `"carry"`: the lost carry of section 5).
Lengths, header lengths and fragment fields are the numbers of the packet.
Addresses, ports and payload are names. A checksum is a linear form: ones'
complement sums form a commutative group, so a sum is worth an integer
combination of the pieces that entered it, and `bpf_csum_diff` adds and
subtracts pieces. `Accepted` says that the form a receiver computes is zero.
`ClatPath` lets a pod send, servers and routers answer any frame they saw, in
any order, any number of times or never, and native hosts send at will.
`Folding` lists the (destination, length) pairs whose IPv4 pseudo-header folds
to zero.

*How it is built* (`SkbSteps`). The frame is a sequence of 4-byte words behind
the Ethernet header, `skb.csum` the sum the network card reported. Each helper
call of the code is one step with its offset and its flags, and each may fail.
The kernel's part of a call is external: where `bpf_skb_adjust_room` and
`bpf_skb_change_proto` take out or put in words, and which calls keep
`skb->csum` up.

*On which numbers* (`CsumArith`, `CsumField`). Forms know neither widths nor
the two zeroes of ones' complement. Here a half word has `H` values, a
`__wsum` has `H * H`, and both wrap. `width` says whether the `bpf_csum_diff`
of this kernel returns a full 32-bit sum or a folded one. A field is complete,
partial (the pseudo-header's sum, for the device to complete) or absent.

The loops have modules of their own. In `UdpFullCsum` the datagram is a
sequence of bytes, the loop takes one chunk per step, and both byte orders are
tried, since the words are summed in the order of the machine and the
pseudo-header goes through `bpf_htonl`. In `OptionWalk` the bytes are numbers,
because a length byte moves the walk; `MaxOptlen` is the 40 of the longest
list and of the loop. `SkbProgram` and `Checksums` put the loops where the
program calls them: a frame with options reaches `StripOptions` only when the
walk has returned false, and what `udp_full_csum` returns becomes the field
that the device, the server and a router then see. When a call returns, its
locals are forgotten.

`PathMtu` uses `Payload6` of the egress and `Mtu4` of the ingress program and
`RouteMTU` of the plugin. The pod sends (`Send`) a segment, or a datagram cut
into fragments, with the MTU it believes in; the veth drops what is more than
4 bytes too long, silently; of what it lets pass, a router drops what is too
long for the path and sends a Packet Too Big with the path's MTU (`Travel`); the pod learns from its translation (`Learn`) or
never sees it (`Lose`); the path changes and estimates expire.

### Counters and configuration

`Counters` has one map per load of the programs. `Attach` replaces the egress
filter, then the ingress one; the reader lists the egress filter, opens its
map and reads key by key, CPU by CPU. `before` keeps what the counts were when
the read began.

`PodDecision` runs one conflist, one `CNI_ARGS` and one result through
`ParseConfig`, `Decide` and `Constants.Spec`. A text is what `netip` reads in
it: nothing, junk, or an address of a family with the prefix length. In
`PodStart` the first load of `Counters` is the one a decision led to.

### Abstractions

- A configuration is its outcome for this pod: `valid` (`ParseConfig`
  succeeds, and for ADD and CHECK there is a usable `prevResult`), `gets`
  (`Decide` returns `SkipNone`), `failOpen`, address, gateway, prefix. A
  program is the plugin version that loaded it and the prefix in its constants.
- A DEL without a namespace path returns at once; it is covered by the branch
  of `Enter` in which DEL finds nothing to enter.
- `AttachedFilters` reads two hooks in one step. Nothing but plugin processes
  changes `clat_*` filters, and a CHECK overlapped by one is excluded from the
  properties by `alone`.
- A link that is not a veth, a peer index of zero and a program the verifier
  rejects are failures of `Prepare`.
- Kernel facts used: `FilterList` without a qdisc returns nothing (DEL treats
  the error the same way); deleting the last IPv4 address of an interface
  removes its IPv4 routes and neighbours (`netns_test.go` relies on it);
  `RouteDel` matches next hop and MTU metric; the program tag covers the
  instructions, not the constants. Addresses of different configurations are
  in different subnets, so deleting one does not take the other along.
- Filters of other owners on the pod interface are not modelled.
- In the translators, TOS, TTL and the Ethernet addresses are carried over and
  left out. `word16` and the layout of the operands of `bpf_csum_diff` on the
  stack have no counterpart: a form has no layout, and `CsumArith` works on
  sums.
- Answers come from an IPv4 server through a PLAT: their fragment
  identifications have 16 significant bits and their length fits IPv4.
- Kernel facts used for the skb: `bpf_skb_adjust_room` and
  `bpf_skb_change_proto` insert and remove behind the Ethernet or the network
  header as their mode says; a store with `BPF_F_RECOMPUTE_CSUM` and
  `bpf_l4_csum_replace` with `BPF_F_PSEUDO_HDR` keep `skb->csum` right; the
  veth accepts 4 bytes more than its MTU.

## 3. Runs

The constants that do not matter to a run have one value.

| Run | Varies | Checks |
| --- | --- | --- |
| `drift` | 2 MACs, 2 MTUs, fail-open; fairness | `TypeOK`, `DelCleans`, `DelGoesOn`, `VerifiedIsComplete`, `EveryCommandReturns` |
| `moved` | 2 address plans and prefixes, 2 versions, fail-open and fail-closed | `InstalledStaysComplete`, `DelCleans`, `VerifiedIsComplete` |
| `orphan` | 2 processes that overlap | `InstalledStaysComplete`, `DelCleans` |
| `foreign` | another owner; fail-open, opted-out and broken conflists | `NoSecondStack`, `FailedAddLeavesNothing`, `CheckErrorIsReal` |
| `installer` | 2 versions of 2 blocks, one installer at a time, kills, power losses | `RunsWhole`, `SuccessInstalls`, `ReplacesAtomically` |
| `path_flows` | every protocol, whole and in fragments, with every kind of checksum, at lengths around the checks; an answer or error back and an arrival; a second frame out for the frames of `Mixed`; all faults | `TouchesClatOnly`, `SentIsAccepted`, `LengthsAgree`, `ReplyFitsFlow`, `QuoteIsSent`, `ErrorIsAccepted`, `CountedOnce` |
| `skb_steps` | every kind of frame that passes the checks, every cut of a quoted packet, a failure at every call; every option list of 4 and 8 bytes over the interesting values, and lists of 40 | `BytesInPlace`, `SumFollowsBytes`, `ChecksumsRight`, `RouteIsFound` |
| `csum_fields` | `H` = 9, every nonzero address sum, both widths; datagrams of 4 to 9 bytes of 3 values, chunks of 4, at most 2, both byte orders | `WireValid`, `DeliveredValid`, `QuotedIsSent`, `FailsExactly`, `AllSummed`, `ReceiverAccepts` |
| `mtu_discovery` | links of 1500 and 1420, paths of 1280 to 1500, two changes, segments and datagrams of 1000 to 9008 bytes, lost errors; fairness | `SegmentsFitLink`, `EstimateTight`, `GetsThrough` |
| `start_counters` | every conflist field in each form, results of up to 3 addresses; then 2 counters, 2 CPUs, 3 frames, 2 loads | `NeverRefused`, `DecidedRight`, `ReportBracketed`, `ReportComplete` |
| `failopen`, `mtu_veth` | as needed | a documented promise, refuted (section 5) |

- `InstalledStaysComplete`: once ADD has reported an installed CLAT, all of it
  is there until DEL starts, if no other plugin process overlapped that ADD.
- `DelCleans`: a DEL that runs alone and meets no error leaves nothing of its
  configuration's CLAT, whatever happened before.
- `DelGoesOn`: a DEL some of whose calls fail has made all the others: what is
  left of its configuration's CLAT is what a failed call was to remove.
- `FailedAddLeavesNothing`: a failed ADD in a clean namespace, whose undo
  meets no error, leaves it clean.
- `NoSecondStack`: past its inspection ADD never works next to another IPv4
  stack, unless the other arrived during this ADD.
- `VerifiedIsComplete`: when CHECK succeeds after verifying, all it read still
  holds together. The prefix in the programs' constants stays open: the tag
  does not cover it.
- `CheckErrorIsReal`: CHECK reports an error without a failed read only if the
  installation is incomplete, and never for a pod that is skipped, has another
  IPv4 stack, or failed open and has no CLAT.
- `EveryCommandReturns`: every command ends.
- `RunsWhole`: what the runtime can execute is one whole version.
- `SuccessInstalls`: an installer that exits with 0 has installed its own
  version and left no temporary file.
- `ReplacesAtomically`: refinement. The runtime's view goes from version to
  version in one step, never to none; after a power loss it is the version on
  disk. The mapping takes `bin` from the inode under the final name and `disk`
  from the inode under the final name on disk.

- `SentIsAccepted`: no IPv4 leaves the pod, and what leaves carries a
  checksum its receiver accepts, if the pod's was right, partial or absent.
- `ReplyFitsFlow`: what the pod receives from a server answers something it
  sent, with checksums and fragment fields its stack accepts.
- `QuoteIsSent`, `ErrorIsAccepted`: an error quotes a packet the pod sent, as
  the pod sent it, and all its checksums are right.
- `LengthsAgree`: the length in the header is that of the packet.
- `TouchesClatOnly`: the programs change or drop exactly the frames of CLAT
  flows. The exceptions, which the code makes, are an answer with fewer than 8
  bytes behind the IPv6 header and one that `bpf_skb_pull_data` fails on.
- `CountedOnce`: a frame dropped or translated is in one counter, no other is.
- `BytesInPlace`, `SumFollowsBytes`, `ChecksumsRight`: the calls of the code
  build the translated frame, `skb->csum` is the sum of its bytes, and its
  checksums are right over the bytes that are there.
- `WireValid`, `DeliveredValid`: the same for the numbers, with carries and
  the two zeroes; `QuotedIsSent`: the step that translates a quoted checksum
  makes it the one the pod sent, short of one carry if the kernel's
  `bpf_csum_diff` returns 32-bit sums, and leaves only a TCP checksum that is
  zero on the IPv6 side (section 5).
- `AllSummed`, `FailsExactly`, `ReceiverAccepts`: `udp_full_csum` sums every
  byte once, gives up exactly above its limit or when bytes are missing, and
  agrees with a receiver that sums in network order.
- `RouteIsFound`: the option walk against a recursive reading.
- `SegmentsFitLink`, `EstimateTight`, `GetsThrough`: segments never exceed the
  link, nothing is taken off an MTU twice, and retries end in delivery.
- `ReportBracketed`, `ReportComplete`: each reported number lies between the
  counts at the begin and at the end of the read; after an undisturbed Attach
  no frame of either direction is missing.
- `NeverRefused`, `DecidedRight`: the decision for a pod
  against its definition, in whatever order addresses come; what is accepted
  always loads.

Bounds of the plugin and the installer. No counter is cut off: the state space is finite and explored in full,
with any number of retries, kills, DELs and changes. Outside
`orphan` there is one process at a time, because the runtime serialises the
commands of a pod; `orphan` allows two, one overlap, and says nothing of
three at once (the theorems do). Two values of each parameter give "the same"
and "another". The parameters are split over runs to keep each within minutes;
combinations across runs (another owner and a changing MTU, say) are left to
the theorems, and so is `InstalledStaysComplete` under a changing MTU. For the installer, two blocks are enough for a partial file and
two versions for a mixed one; the four inodes are never all in use when a
fifth would be needed (two names as seen, two on disk).

Bounds of the others. The programs keep no state between frames but the
counters, so one frame each way shows what they do to a frame; a second frame
out (`MaxSent`, for the frames of `Mixed`: one of each protocol) shows that
answers and errors are matched to the right one. `MaxBack` and `MaxArrived`
are 1: an answer to either frame, at any time. Lengths are those at which a
check changes its answer: a cut transport header, 10240 and 10241 bytes,
65515. With `H` = 9 a sum of four terms carries more than once. Two chunks are
enough for none, one and all of them with and without a tail; the theorems
hold for any number. Option lists of two words let a walk start, jump and end
anywhere; the lists of 40 bytes take every turn of the loop. The lists are
tried on the frames of `Probe`, and four of them (`FewLists`) on all others,
since the walk does not look at the rest of the frame. `MaxChanges` bounds path changes and expiries together; each
starts discovery anew. `MaxFrames` and `MaxLoads` bound what is counted and
attached while one report is read.

Fairness. `FairSpec` of the plugin adds weak fairness of each process's own
steps: the operating system schedules a started process and a netlink call
returns, with success or an error. Nothing is assumed of the runtime or the
node. `PathMtu` assumes that the application sends again (weak fairness of
`Send`), that frames move on (`Travel`), and that an error which is sent again
and again is not lost every time (strong fairness of `Learn` for each error);
DESIGN.md and the end-to-end test rely on the same ("applications retry").
Other runs state safety only. Deadlock is not checked where a packet, decision
or report is followed to its end.

## 4. Proofs

Each theorem holds for every value of the constants that its assumptions
allow; TLC evaluates the assumptions on the runs of section 3. A theorem about
an invariant goes by an inductive one, named below, which TLC has checked on
the same instances before it was proved. Steps that change a part of the state
are lemmas of their own, one per action.

### The plugin (`ClatPlugin_proofs`)

For every set of processes, configurations, addresses, MACs, MTUs and
versions, from `NetnsAssumption` and `PluginAssumption` (no value is taken for
`Nil`, MTUs are integers, the sets are not empty):

- `TypeCorrect == Spec => []TypeOK`.
- `InstalledCorrect == Spec => []InstalledStaysComplete`.
- `InspectionHolds == Spec => []NoSecondStack`.
- `FailedAddCleans == Spec => []FailedAddLeavesNothing`.
- `DelKeepsGoing == Spec => []DelGoesOn`, and `DelIsClean`:
  `OneMtu \/ (OneAtATime /\ OneAddress) => (Spec => []DelCleans)`.
- `VerifiedHolds == Spec => []VerifiedIsComplete`.
- `AlarmIsReal == Spec => []CheckErrorIsReal`.

`InstalledStaysComplete` is not inductive: it says nothing of an ADD under
way. `InstalledInv` adds `Solo` (a process that is alone is the only one
running), `StepOfCmd` (a step belongs to a command that has it, so that a
CHECK never writes), `Progress` (an ADD that is alone has in place what lies
before its step) and `OnlyChecks` (while a pod with an installed CLAT runs,
only CHECKs do). The argument: a step of a process changes only its own
locals (`Framed`); a step that reads changes nothing (`ReadStep`); a step of
`install` adds its piece and keeps the others (`InstallStep`), also over the
leftovers of killed commands, because every call replaces; a step of the undo
ends in anything but an installation (`UndoStep`). `StepKeeps`,
`RuntimeKeeps` and `NodeKeeps` put these together: when the ADD returns,
`Progress` is `Complete`, nobody else is running, and from then on nothing
but CHECKs and other owners' changes happen, which do not touch it.

The commands' own promises have an invariant each, of the form "what lies
before my step is so": `InspectedInv` (what InspectIPv4 saw is still so),
`UndoInv` (what the undo has passed is gone or its call failed, and a fresh ADD
found nothing), `CheckedInv` (what CHECK has read right is right), `AlarmInv`
(past CHECK's decision there is something of a CLAT and nothing foreign, and the
read that failed a CHECK still would). Each is about a process that is alone; `Begins`,
`Rests`, `Raced` and `TornDown` say what the other steps can do to it.

`DelCleans` needs its hypothesis. `RemoveIPv4` deletes the default route by
next hop and MTU, and the MTU is the one the link has at the time of the DEL:
after two overlapping commands and an MTU change, or with processes that
follow each other with different pod addresses, a route with an old MTU can
stay. Without the hypothesis the provable part is `DelGoesOn`: everything
else is gone, and no default route with the MTU that DEL read is left, unless
the call that removes it failed.

### The installer (`ClatSteps_proofs`)

For any versions, inodes and file size, for installers that do not overlap
(`~Overlap`; with overlap `RunsWhole` is false, see section 5), any number of
kills, failures, retries and power losses:

- `NeverPartial`: `[]RunsWhole`.
- `SuccessMeansInstalled`: `[]SuccessInstalls`.
- `InstallIsAtomic`: `ReplacesAtomically`, that is, `Installer` implements
  `PluginBinary` under the refinement mapping of the run `installer_serial`.

`InstallerInv` says that at most one installer has begun (`Serial`), that a
final name, in memory or on disk, refers to a whole and synced version while
the temporary name refers to another inode (`Names`: this is what makes
rename safe after a power loss), and what an installer has done by its step
(`DoneSoFar`).

### Decision and counters (`PodStart_proofs`)

From `ConfAssumption` (lists are lists, the defaults are IPv4 addresses) and
`CountersAssumption` (at least one CPU and one counter), for any
configurations, results, CPUs, frames and loads:

- `LoadNeverRefuses`, `DecisionRight`: `[]NeverRefused`, `[]DecidedRight`.
- `ReportIsBracketed`, `ReportIsComplete`: `[]ReportBracketed`,
  `[]ReportComplete`.

`DecideInv` follows Decide's loop: the addresses passed are IPv6 and the
first of them is the pod's (`Seen`). `CountersInv` splits the sum that is
being read at the CPU it has reached: what was added so far is at most what
the CPUs before hold now, and with what the CPUs behind hold it is at least
the count at the beginning (`Reading`). The sums are folds; `SumTheorems`
proves that such a fold exists, is a number, grows with its terms and changes
by what one term changes.

### The translators (`ClatPath_proofs`, `ClatAnswers_proofs`, `ClatQuotes_proofs`)

From `AddressAssumption`, `PodAssumption` (the pod's stack sends well-formed
IPv4 with right, partial or absent checksums and no IPv6 into the prefix),
`NetworkAssumption` (the PLAT answers with what IPv4 can carry, routers send
the four kinds of error) and `NativeAssumption` (native frames are not errors
about packets into the prefix, and what comes from the prefix without being an
answer is not well-formed), for any frames, addresses, lengths, fragments,
answers, quotes and faults of the helpers:

- `EgressIsAccepted`: `[]SentIsAccepted`; `OnlyClatTouched`:
  `[]TouchesClatOnly`.
- `RepliesFit`: `[]ReplyFitsFlow`; `ErrorsAreAccepted`: `[]ErrorIsAccepted`;
  `LengthsStayRight`: `[]LengthsAgree`; `QuotesAreSent`: `[]QuoteIsSent`;
  `EachFrameCounted`: `[]CountedOnce`.

`FlowInv` says that every frame has its cause: what left for the prefix is the
translation of a frame the pod sent, what is on its way back answers such a
frame or quotes it, and the last run had one of its program's outcomes.
Everything else is about one run. Two linear forms are equal if their
coefficients are (`FormEqual`), so a checksum identity becomes an identity of
integers for each term; lengths are natural numbers below 2^16, so no
reduction modulo 2^16 changes them. `CountInv` says that the counters add up
to the frames of CLAT flows dropped or translated.

### Path MTU (also in `ClatQuotes_proofs`)

From `MtuAssumption` (MTUs between IPv6's minimum of 1280 and 65535, sizes
that are positive), for any sets of MTUs and sizes and any number of changes:

- `EstimateIsTight == MtuSpec => []EstimateTight`.
- `SegmentsFit == MtuSpec => []SegmentsFitLink`.

`MtuInv` adds to `EstimateTight` that `low` is at most every path MTU so far
(`Bounds`), that each error under way reports an MTU no smaller than the
narrowest path (`ErrorsBounded`; errors may be as late as they like, so this
is the heart of it), and that segments on the wire fit (`WireBounded`).
`Mtu4Exact` computes what `clat_ingress` reports: between 68 and 16 bits, and
exactly 20 or 28 less for every MTU of an IPv6 link; `SegmentLength` what
`clat_egress` adds.

### Checksum numbers (`Checksums_proofs`)

From `HAssumption` (a word size of at least 3) and `SumsAssumption` (sums have
their widths; addresses and lengths do not sum to zero), for the 16-bit words
of the code as for the 9 values TLC uses:

- `ServerAccepts == FieldSpec => []WireValid`.
- `PodAccepts == FieldSpec => []DeliveredValid`.
- `QuoteKeepsCsum == FieldSpec => QuotedIsSent` (an action property).

`FieldSpec` is the field's life with `udp_full_csum` taken as the number it
returns. One's complement arithmetic is arithmetic modulo `H - 1` with two
forms of zero: `CsumAdd`, `CsumFold`, `CsumDiff`, `CsumOf` and `L4Replace` say
of every operation what its result is congruent to, and which zero it is.
`FieldInv` says at each stage what the field is worth: the complement of the
packet's sum, or, while the device has still to complete it, the sum of the
pseudo-header. `SumsUp` shows that a congruent field is one the receiver
accepts, because a sum that is not zero folds to all ones and never to zero.

From `ChunkAssumption` (a positive chunk size, any limit) and
`DatagramAssumption` (not empty), for datagrams of any length:

- `EveryByteOnce == Spec => []AllSummed`.
- `GivesUpExactly == Spec => []FailsExactly`.

`IInv` says that the offset is the number of chunks done times their size
(`Chunks`), within the datagram (`InRange`), that after the loop less than one
chunk is left although the loop is bounded (`LessThanAChunk`: here the length
check at the head is needed), and what has been summed so far. `TailIsRest`
shows that the mask of clat.c:297 then loses nothing.

### The option walk (also in `ClatSteps_proofs`)

From `OptionAssumption` (lists of bytes, 4 to `MaxOptlen` long) and
`FewAssumption`, for any lists and any bound:

- `RoutesAreFound == Spec => []RouteIsFound`.

`WalkInv` says that the rest of the list behind the walk's offset still
decides what the list is (`OnTheWay`), unless the walk has run past the end,
and that there were no more turns than bytes: so the bounded loop ends at the
end of the list and not before. That the reading of a list exists at all is a
lemma (`ReadsFromExists`), because the provers take a recursive function as a
choice among functions that satisfy the equation.

### Only model-checked

Liveness (`EveryCommandReturns`, `GetsThrough`), which is out of the prover's
reach. `ReceiverAccepts`: it compares the sum of little-endian words with the
sum in network order, for sequences of any length, and needs an induction
over the bytes. `BytesInPlace`, `SumFollowsBytes` and `ChecksumsRight`: they
are about the frame as a sequence of words after up to ten calls, and what
they need is mostly the evaluation of sequences of known length, which TLC
does for all kinds of frames. The refinement and the two properties of the
installer are not provable with overlapping installers, being false there.

## 5. Where documentation and code part

Two disagreements are runs of their own.

- `failopen`: README.md promises that a fail-open ADD will "undo partial
  state". An ADD that fails during inspection or before `ConfigureIPv4` undoes
  nothing, so what an earlier, killed ADD left stays in a pod that starts
  "without a CLAT".
- `mtu_veth`: the end-to-end test says of a datagram above the path MTU that
  "the retry goes through". The route MTU leaves no room for the Fragment
  header: where the link MTU less 40 is 0 to 3 modulo 8 (1480, 9000, 1450) a
  full fragment is 5 to 8 bytes too long for the link, and the veth drops it
  without an error, each time. At 1500 it is 4 too long, which the veth allows.

The others are kept as configurations, each with one property that TLC finds
violated; they are not among the runs of section 3.

- `Plugin_delfails.cfg` (`MCPlugin`, `DelNeverFails`): DESIGN.md says "DEL is
  idempotent and never fails"; it returns `ParseConfig`'s error, and while the
  conflist is invalid it cleans nothing.
- `Plugin_checkmoved.cfg` (`MCPlugin`, `CheckReportsMismatch`): DESIGN.md says
  CHECK "returns an error on any mismatch". After `podIPv4` has changed, the
  plugin's own old address counts as foreign, and CHECK returns success
  without verifying.
- `Installer_overlap.cfg` (`MCInstaller`, `RunsWhole`): the comment on
  `install` and DESIGN.md say that the runtime never executes a partial
  binary. With two overlapping installers (a force-deleted DaemonSet pod and
  its successor, or a run by hand) the first can rename the temporary file
  that the second has just truncated; if the second then dies, the partial
  file stays. One at a time, the promise holds.
- `Csum_nocheck.cfg` (`MCCsum`, `NoCheckGetsOne`): DESIGN.md says that one
  partial checksum in 65536 is zero, and clat.c:467 treats a zero UDP field as
  partial when the pseudo-header folds to zero. A partial field holds the
  folded sum itself, which is never zero, so only datagrams without a checksum
  get there, and they leave with a wrong one. `WireValid` excludes them.
- `Skb_malformed.cfg` (`MCSkb`, `MalformedIsRefused`): `ip4_has_source_route`
  is said to return true when "the option list is malformed"; an option that
  reaches past the end of the list ends the walk with false.

- `Csum_quotedzero.cfg` (`MCCsum`, `QuotedAlwaysSent`): DESIGN.md says of a
  quoted packet that the inner transport checksum is recomputed "when present".
  clat.c:963 takes a zero field for an absent checksum, which is right for UDP
  only: a TCP checksum that is zero on the IPv6 side is left as it is.

And one is part of a property: the update of a quoted checksum (clat.c:949 and
966) adds with plain `+`. With a `bpf_csum_diff` that returns unfolded 32-bit
sums a carry can be lost, and the quoted checksum is then off by one instead
of "recomputed" (DESIGN.md). `QuotedIsSent` says that besides the zero TCP
checksum this is all that goes wrong with it, and `ErrorIsAccepted` that the
outer checksum stays right with the lost carry (fault `"carry"`).

Also seen, and not stated as a run: two overlapping commands followed by an
MTU change can leave a default route that `RouteDel` no longer matches. The
CNI contract excludes the overlap.

## 6. Open, and not modelled

Still open, in order of importance:

1. An abstract CNI specification (a pod has a CLAT or has none), implemented
   by `ClatPlugin` when commands do not overlap.
2. Proofs of `BytesInPlace`, `SumFollowsBytes` and `ChecksumsRight`, and of
   `ReceiverAccepts` (see "Only model-checked" in section 4).
3. Filters of other owners on the pod interface, which `Detach` removes along
   with the qdisc.

Not modelled:

- `bpf/include/bpf_helper_defs.h` and `bpf/include/bpf_helpers.h`, by far the
  largest files: declarations of kernel helpers with their documentation,
  attributes and macros of the compiler. The helpers' code is in the kernel;
  the ones `clat.c` calls are modelled from its use of them and marked
  external, the others are not used.
- Of `bpf/include/bpf_endian.h`, the 16-bit and 64-bit macros. The 32-bit ones
  are in `UdpFullCsum`, where their result depends on the byte order.
- In `clat.c`, the packet-layout declarations of ICMP, the licence, and
  `word16`, `prefix_copy` and `ensure_linear` as functions of their own: forms
  and names have no layout, and a failed pull is the fault `"pull"`.
- Generated bindings, the printing of counters, `sleep`, manifests.
