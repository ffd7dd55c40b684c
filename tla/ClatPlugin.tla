----------------------------- MODULE ClatPlugin -----------------------------
(***************************************************************************)
(* The CNI plugin (internal/clat/plugin.go) at work on one pod: every      *)
(* invocation of ADD, DEL and CHECK is a process whose netlink calls are   *)
(* separate steps, each of which may fail.  Around it: the container       *)
(* runtime, which starts a command, waits for it, kills it or loses track  *)
(* of it; other owners of IPv4 state in the namespace; the link, the       *)
(* conflist and the plugin binary, which all may change between commands.  *)
(***************************************************************************)
EXTENDS PodNetns

CONSTANTS
  Procs,        \* plugin processes that can exist at the same time
  Configs,      \* configurations the conflist can hold
  ForeignActor  \* whether something else touches IPv4 in the namespace

(* ParseConfig and Decide, seen from the pod: is the configuration valid,  *)
(* and does it give this pod a CLAT?                                       *)
Config == [valid: BOOLEAN, gets: BOOLEAN, failOpen: BOOLEAN,
           pod4: Addrs, gw: Gateways, prefix: Prefixes]

ASSUME PluginAssumption ==
  /\ Configs # {} /\ Configs \subseteq Config
  /\ Macs # {} /\ Mtus # {} /\ Versions # {}
  /\ ForeignActor \in BOOLEAN
  /\ Nil \notin Procs

VARIABLES
  net,       \* the pod's network namespace
  up,        \* the namespace and its interface exist
  link,      \* peer MAC, the MAC prevResult reports, interface MTU
  conflist,  \* configuration the next command will read
  bin,       \* version of the installed plugin binary
  pod,       \* the runtime's view of the pod
  cur,       \* the process the runtime waits for
  added,     \* locals of the last ADD, if it told the runtime of a CLAT
  pc, loc    \* program counter and locals of each process

envVars == <<up, link, conflist, bin>>
rtVars == <<pod, cur, added>>
vars == <<net, up, link, conflist, bin, pod, cur, added, pc, loc>>

ConfigureSteps == {"addr", "neigh", "host", "def"}
AttachSteps == {"qdisc", "attach_egress", "attach_ingress"}
DetachSteps == {"list_egress", "del_egress", "list_ingress", "del_ingress", "qdisc_del"}
RemoveSteps == {"def_del", "host_del", "neigh_del", "addr_del"}
CheckSteps == {"filters", "check_addr", "check_neigh", "check_routes", "check_filters"}
PCs == {"idle", "parse", "insp_addrs", "insp_routes", "prepare", "enter", "ret"}
         \cup ConfigureSteps \cup AttachSteps \cup DetachSteps \cup RemoveSteps
         \cup CheckSteps

Cmds == {"ADD", "DEL", "CHECK"}

(* How a command ends.  ADD: "installed", "skipped" (prevResult passed     *)
(* through), "open" (failed, reported as success).  CHECK: "verified" or   *)
(* "passed" (success without looking at the installation).                 *)
Results == {"none", "installed", "skipped", "open", "error", "deleted",
            "passed", "verified"}

(* The last four fields are history: no other process ran meanwhile; of a  *)
(* command alone, the steps whose call failed, where it would have changed *)
(* something and is not the one ADD reports; another owner changed IPv4    *)
(* state meanwhile; the namespace was Clean at the start.                  *)
Locals == [cmd: Cmds, conf: Configs, ver: Versions, mac: Macs, mtu: Mtus,
           ours: BOOLEAN, foreign: BOOLEAN, res: Results,
           alone: BOOLEAN, failed: SUBSET PCs, raced: BOOLEAN, fresh: BOOLEAN]

Links == [mac: Macs, prev: Macs \cup {Nil}, mtu: Mtus]

NewLocals(cmd, c, v, m, u, alone, fresh) ==
  [cmd |-> cmd, conf |-> c, ver |-> v, mac |-> m, mtu |-> u,
   ours |-> FALSE, foreign |-> FALSE, res |-> "none",
   alone |-> alone, failed |-> {}, raced |-> FALSE, fresh |-> fresh]

(* Locals of a process that is not running. *)
Blank == NewLocals("CHECK", CHOOSE c \in Configs : TRUE, CHOOSE v \in Versions : TRUE,
                   CHOOSE m \in Macs : TRUE, CHOOSE u \in Mtus : TRUE, FALSE, FALSE)

Running(p) == pc[p] # "idle"

TypeOK ==
  /\ net \in Netns /\ up \in BOOLEAN /\ link \in Links
  /\ conflist \in Configs /\ bin \in Versions
  /\ pod \in {"creating", "running", "stopping"}
  /\ cur \in Procs \cup {Nil}
  /\ added \in Locals
  /\ pc \in [Procs -> PCs] /\ loc \in [Procs -> Locals]

(* Next hops of default routes that belong to other owners. *)
OtherGateways == Gateways \ {c.gw : c \in Configs}

(* A new sandbox: cilium-cni has run, an earlier plugin in the chain may   *)
(* have left IPv4 state.                                                   *)
Init ==
  /\ \E a, r \in BOOLEAN :
       /\ a \/ r => ForeignActor
       /\ net = [EmptyNetns EXCEPT !.tunAddr = a, !.tunRoute = r]
  /\ up = TRUE
  /\ link \in Links
  /\ conflist \in Configs
  /\ bin \in Versions
  /\ pod = "creating"
  /\ cur = Nil
  /\ added = Blank
  /\ pc = [p \in Procs |-> "idle"]
  /\ loc = [p \in Procs |-> Blank]

-----------------------------------------------------------------------------
(* Control flow of one process.                                            *)

Goto(p, next) == pc' = [pc EXCEPT ![p] = next]
Finish(p, l, res) == /\ Goto(p, "ret")
                     /\ loc' = [loc EXCEPT ![p] = [l EXCEPT !.res = res]]

failOrOpen(c) == IF c.failOpen THEN "open" ELSE "error"

(* An error ends ADD through failOrOpen and CHECK as it is. *)
Abort(p, l) == Finish(p, l, IF l.cmd = "ADD" THEN failOrOpen(l.conf) ELSE "error")

Failed(l, at, matters) ==
  [l EXCEPT !.failed = IF l.alone /\ matters THEN @ \cup {at} ELSE @]

(* A netlink call of process p at step `at`: it takes effect, or fails.    *)
(* A call on an interface that is gone, or that the kernel cannot accept,  *)
(* fails; any other may.  `logged`: a failure that matters goes into the   *)
(* history.                                                                *)
Call(p, at, accepted, effect, next, onErr, logged) ==
  /\ pc[p] = at
  /\ \/ /\ up /\ accepted
        /\ net' = effect
        /\ Goto(p, next)
        /\ UNCHANGED loc
     \/ /\ Goto(p, onErr)
        /\ loc' = [loc EXCEPT ![p] = Failed(@, at, logged /\ effect # net)]
        /\ UNCHANGED net
  /\ UNCHANGED <<envVars, rtVars>>

(* A read that fails ends the command with an error. *)
ReadFails(p) == Abort(p, Failed(loc[p], pc[p], loc[p].cmd = "CHECK"))

-----------------------------------------------------------------------------
(* The head of the three commands.                                         *)

Parse(p) ==
  LET l == loc[p] IN
  /\ pc[p] = "parse"
  /\ \/ /\ ~l.conf.valid
        /\ Finish(p, l, "error")
     \/ /\ l.conf.valid /\ l.cmd # "DEL" /\ ~l.conf.gets
        /\ Finish(p, l, IF l.cmd = "ADD" THEN "skipped" ELSE "passed")
     \/ /\ l.conf.valid /\ l.cmd # "DEL" /\ l.conf.gets
        /\ Goto(p, "insp_addrs") /\ UNCHANGED loc
     \/ /\ l.conf.valid /\ l.cmd = "DEL"
        /\ Goto(p, "enter") /\ UNCHANGED loc
  /\ UNCHANGED <<net, envVars, rtVars>>

InspectAddrs(p) ==
  /\ pc[p] = "insp_addrs"
  /\ \/ /\ up
        /\ loc' = [loc EXCEPT ![p].ours = OurAddr(net, loc[p].conf),
                              ![p].foreign = ForeignAddr(net, loc[p].conf)]
        /\ Goto(p, "insp_routes")
     \/ ReadFails(p)
  /\ UNCHANGED <<net, envVars, rtVars>>

(* Mutant: the routes alone decide. *)
MutSeenRoutes(l, named) ==
  [l EXCEPT !.ours = @ \/ OurRoute(net, l.conf), !.foreign = ForeignRoute(net, l.conf)]
(* InspectIPv4's verdict after the routes: what the addresses showed       *)
(* counts, and a route of its own is another's if LinkByIndex cannot name  *)
(* the interface.                                                          *)
SeenRoutes(l, named) ==
  LET own == OurRoute(net, l.conf) IN
  [l EXCEPT !.ours = @ \/ (own /\ named),
            !.foreign = @ \/ ForeignRoute(net, l.conf) \/ (own /\ ~named)]

InspectRoutes(p) ==
  LET l == loc[p] IN
  /\ pc[p] = "insp_routes"
  /\ \/ /\ up
        /\ \E named \in BOOLEAN :
             LET seen == SeenRoutes(l, named) IN
             \/ /\ l.cmd = "ADD" /\ seen.foreign
                /\ Finish(p, seen, "skipped")
             \/ /\ ~(l.cmd = "ADD" /\ seen.foreign)
                /\ Goto(p, IF l.cmd = "ADD" THEN "prepare" ELSE "filters")
                /\ loc' = [loc EXCEPT ![p] = seen]
     \/ ReadFails(p)
  /\ UNCHANGED <<net, envVars, rtVars>>

(* Mutant: fail-open is not considered. *)
MutNoClatResult(c) == "error"
(* CHECK of a namespace with no trace of a CLAT. *)
NoClatResult(c) == IF c.failOpen THEN "passed" ELSE "error"

(* CHECK's decision after InspectIPv4 and AttachedFilters. *)
ListAttached(p) ==
  LET l == loc[p]
      none == ~l.ours /\ \A h \in Hooks : net.filters[h] = Nil
  IN
  /\ pc[p] = "filters"
  /\ \/ /\ up
        /\ \/ /\ l.foreign
              /\ Finish(p, l, "passed")
           \/ /\ ~l.foreign /\ none
              /\ Finish(p, l, NoClatResult(l.conf))
           \/ /\ ~l.foreign /\ ~none
              /\ Goto(p, "prepare") /\ UNCHANGED loc
     \/ ReadFails(p)
  /\ UNCHANGED <<net, envVars, rtVars>>

(* inspectPodLink, peerMAC (by index, else as prevResult reports it) and   *)
(* Load (in CHECK also Tags): nothing in the namespace changes, and an     *)
(* error returns with nothing undone.                                      *)
Prepare(p) ==
  /\ pc[p] = "prepare"
  /\ \/ /\ up
        /\ \E m \in {link.mac, link.prev} \ {Nil} :
              loc' = [loc EXCEPT ![p].mac = m]
        /\ Goto(p, "enter")
     \/ ReadFails(p)
  /\ UNCHANGED <<net, envVars, rtVars>>

(* Where DEL starts: Detach, then RemoveIPv4. *)
MutDelEntry == "def_del"
DelEntry == "list_egress"

(* WithNetNSPath and LinkByName, which also reads the MTU.  A DEL that     *)
(* cannot enter, or finds no interface, is done.                           *)
Enter(p) ==
  LET l == loc[p] IN
  /\ pc[p] = "enter"
  /\ \/ /\ up
        /\ loc' = [loc EXCEPT ![p].mtu = link.mtu]
        /\ Goto(p, CASE l.cmd = "ADD" -> "addr"
                     [] l.cmd = "CHECK" -> "check_addr"
                     [] l.cmd = "DEL" -> DelEntry)
     \/ /\ l.cmd = "DEL"
        /\ Finish(p, Failed(l, "enter", TRUE), "deleted")
     \/ /\ l.cmd # "DEL"
        /\ ReadFails(p)
  /\ UNCHANGED <<net, envVars, rtVars>>
-----------------------------------------------------------------------------
(* install: ConfigureIPv4, then Attach.                                    *)

(* After a failed ConfigureIPv4: RemoveIPv4. *)
AfterConfigureError == "def_del"
(* After a failed Attach: Detach, then RemoveIPv4. *)
MutAfterAttachError == "def_del"
AfterAttachError == "list_egress"

AddAddr(p) ==
  Call(p, "addr", TRUE, AddrReplace(net, loc[p].conf.pod4),
       "neigh", AfterConfigureError, FALSE)
AddNeigh(p) ==
  Call(p, "neigh", TRUE, NeighSet(net, loc[p].conf.gw, loc[p].mac),
       "host", AfterConfigureError, FALSE)
AddHost(p) ==
  Call(p, "host", TRUE, HostReplace(net, loc[p].conf.gw),
       "def", AfterConfigureError, FALSE)
AddDef(p) ==
  LET r == DefaultRoute(loc[p].conf, loc[p].mtu) IN
  Call(p, "def", DefAccepted(net, r), DefReplace(net, r),
       "qdisc", AfterConfigureError, FALSE)

(* EEXIST from an earlier clsact is no error. *)
AddQdisc(p) ==
  Call(p, "qdisc", TRUE, QdiscAdd(net), "attach_egress", AfterAttachError, FALSE)
(* Mutant: a filter that is already there is kept. *)
MutAttachEgress(p) ==
  Call(p, "attach_egress", net.qdisc,
       IF net.filters["egress"] # Nil THEN net
       ELSE FilterReplace(net, "egress", Program(loc[p].conf, loc[p].ver)),
       "attach_ingress", AfterAttachError, FALSE)
AttachEgress(p) ==
  Call(p, "attach_egress", net.qdisc,
       FilterReplace(net, "egress", Program(loc[p].conf, loc[p].ver)),
       "attach_ingress", AfterAttachError, FALSE)
(* Mutant: the error of the last filter is dropped. *)
MutAttachIngress(p) ==
  /\ pc[p] = "attach_ingress"
  /\ \/ /\ up /\ net.qdisc
        /\ net' = FilterReplace(net, "ingress", Program(loc[p].conf, loc[p].ver))
     \/ UNCHANGED net
  /\ Finish(p, loc[p], "installed")
  /\ UNCHANGED <<envVars, rtVars>>
AttachIngress(p) ==
  /\ pc[p] = "attach_ingress"
  /\ \/ /\ up /\ net.qdisc
        /\ net' = FilterReplace(net, "ingress", Program(loc[p].conf, loc[p].ver))
        /\ Finish(p, loc[p], "installed")
     \/ /\ Goto(p, AfterAttachError)
        /\ UNCHANGED <<net, loc>>
  /\ UNCHANGED <<envVars, rtVars>>

-----------------------------------------------------------------------------
(* Detach and RemoveIPv4, run by DEL and by the undo of ADD.  Every step   *)
(* runs whatever became of the one before.                                 *)

ListPC(h) == IF h = "egress" THEN "list_egress" ELSE "list_ingress"
DelPC(h) == IF h = "egress" THEN "del_egress" ELSE "del_ingress"
(* Mutants: the qdisc is left; a hook is listed again. *)
MutAfterHookKeepsQdisc(h) == IF h = "egress" THEN "list_ingress" ELSE "def_del"
MutAfterHookAgain(h) == "list_ingress"
AfterHook(h) == IF h = "egress" THEN "list_ingress" ELSE "qdisc_del"

(* FilterList: only a filter with one of the program names is deleted.     *)
ListFilter(p, h) ==
  Call(p, ListPC(h), TRUE, net,
       IF net.filters[h] = Nil THEN AfterHook(h) ELSE DelPC(h), AfterHook(h), TRUE)
DeleteFilter(p, h) ==
  Call(p, DelPC(h), TRUE, FilterDel(net, h), AfterHook(h), AfterHook(h), TRUE)
DeleteQdisc(p) ==
  Call(p, "qdisc_del", TRUE, QdiscDel(net), "def_del", "def_del", TRUE)

(* Mutant: a default route that cannot be removed ends the removal of routes. *)
MutDeleteDef(p) ==
  Call(p, "def_del", TRUE, DefDel(net, DefaultRoute(loc[p].conf, loc[p].mtu)),
       "host_del", "addr_del", TRUE)
DeleteDef(p) ==
  Call(p, "def_del", TRUE, DefDel(net, DefaultRoute(loc[p].conf, loc[p].mtu)),
       "host_del", "host_del", TRUE)
(* Mutant: the neighbour is left to the address. *)
MutDeleteHost(p) ==
  Call(p, "host_del", TRUE, HostDel(net, loc[p].conf.gw), "addr_del", "addr_del", TRUE)
DeleteHost(p) ==
  Call(p, "host_del", TRUE, HostDel(net, loc[p].conf.gw),
       "neigh_del", "neigh_del", TRUE)
DeleteNeigh(p) ==
  Call(p, "neigh_del", TRUE, NeighDel(net, loc[p].conf.gw),
       "addr_del", "addr_del", TRUE)

(* The last step: ADD reports its error, DEL success. *)
DeleteAddr(p) ==
  LET l == loc[p]
      c == l.conf
      Done(m) == Finish(p, m, IF l.cmd = "ADD" THEN failOrOpen(l.conf) ELSE "deleted")
  IN
  /\ pc[p] = "addr_del"
  /\ \/ /\ up
        /\ net' = AddrDel(net, c.pod4)
        /\ Done(l)
     \/ /\ Done(Failed(l, "addr_del", c.pod4 \in net.addrs))
        /\ UNCHANGED net
  /\ UNCHANGED <<envVars, rtVars>>

-----------------------------------------------------------------------------
(* CHECK: CheckIPv4's three reads, then CheckAttached.                     *)

Check(p, at, ok, next) ==
  /\ pc[p] = at
  /\ \/ /\ up /\ ok
        /\ Goto(p, next) /\ UNCHANGED loc
     \/ /\ up /\ ~ok
        /\ Abort(p, loc[p])
     \/ ReadFails(p)
  /\ UNCHANGED <<net, envVars, rtVars>>

CheckAddr(p) == Check(p, "check_addr", AddrOK(net, loc[p].conf), "check_neigh")
CheckNeigh(p) ==
  Check(p, "check_neigh", NeighOK(net, loc[p].conf, loc[p].mac), "check_routes")
CheckRoutes(p) ==
  Check(p, "check_routes", RoutesOK(net, loc[p].conf, loc[p].mtu), "check_filters")
CheckAttached(p) ==
  LET ok == FiltersOK(net, loc[p].ver) IN
  /\ pc[p] = "check_filters"
  /\ \/ /\ up
        /\ Finish(p, loc[p], IF ok THEN "verified" ELSE "error")
     \/ ReadFails(p)
  /\ UNCHANGED <<net, envVars, rtVars>>

-----------------------------------------------------------------------------
Step(p) ==
  \/ Parse(p) \/ InspectAddrs(p) \/ InspectRoutes(p) \/ ListAttached(p)
  \/ Prepare(p) \/ Enter(p)
  \/ AddAddr(p) \/ AddNeigh(p) \/ AddHost(p) \/ AddDef(p)
  \/ AddQdisc(p) \/ AttachEgress(p) \/ AttachIngress(p)
  \/ \E h \in Hooks : ListFilter(p, h) \/ DeleteFilter(p, h)
  \/ DeleteQdisc(p)
  \/ DeleteDef(p) \/ DeleteHost(p) \/ DeleteNeigh(p) \/ DeleteAddr(p)
  \/ CheckAddr(p) \/ CheckNeigh(p) \/ CheckRoutes(p) \/ CheckAttached(p)

-----------------------------------------------------------------------------
(* The container runtime.                                                  *)

(* ADD may be repeated until it succeeds, and follow a DEL while the       *)
(* sandbox is there; CHECK runs while the pod does, DEL any time and any   *)
(* number of times.                                                        *)
Start(p, cmd) ==
  /\ cur = Nil /\ ~Running(p)
  /\ cmd = "ADD" => pod # "running" /\ up
  /\ cmd = "CHECK" => pod = "running"
  /\ cur' = p
  /\ pod' = CASE cmd = "ADD" -> "creating" [] cmd = "CHECK" -> pod [] cmd = "DEL" -> "stopping"
  /\ added' = IF cmd = "CHECK" THEN added ELSE Blank
  /\ Goto(p, "parse")
  /\ loc' = [q \in Procs |->
               IF q = p
               THEN NewLocals(cmd, conflist, bin, Blank.mac, Blank.mtu,
                              \A r \in Procs \ {p} : ~Running(r), Clean(net, conflist))
               ELSE [loc[q] EXCEPT !.alone = FALSE, !.failed = {}]]
  /\ UNCHANGED <<net, envVars>>

(* The process exits; the runtime sees the result if it still waits. *)
Return(p) ==
  /\ pc[p] = "ret"
  /\ IF p = cur /\ loc[p].cmd = "ADD"
     THEN /\ added' = IF loc[p].res = "installed" THEN loc[p] ELSE Blank
          /\ pod' = IF loc[p].res = "error" THEN pod ELSE "running"
     ELSE UNCHANGED <<added, pod>>
  /\ cur' = IF p = cur THEN Nil ELSE cur
  /\ Goto(p, "idle")
  /\ loc' = [loc EXCEPT ![p] = Blank]
  /\ UNCHANGED <<net, envVars>>

(* A timeout or an OOM kill between two steps. *)
Kill(p) ==
  /\ Running(p)
  /\ cur' = IF p = cur THEN Nil ELSE cur
  /\ Goto(p, "idle")
  /\ loc' = [loc EXCEPT ![p] = Blank]
  /\ UNCHANGED <<net, envVars, pod, added>>

(* The runtime restarts and no longer waits; the process goes on. *)
Orphan ==
  /\ cur # Nil
  /\ cur' = Nil
  /\ UNCHANGED <<net, envVars, pod, added, pc, loc>>

-----------------------------------------------------------------------------
(* The rest of the node.                                                   *)

(* Another owner adds or removes IPv4 state of its own: on another link    *)
(* (a sidecar's tun device), or a metric-0 default route where none is.    *)
Foreigner ==
  /\ ForeignActor /\ up
  /\ \/ net' = [net EXCEPT !.tunAddr = ~@]
     \/ net' = [net EXCEPT !.tunRoute = ~@]
     \/ /\ net.def = Nil
        /\ \E r \in Routes : r.gw \in OtherGateways /\ net' = [net EXCEPT !.def = r]
     \/ /\ net.def # Nil /\ net.def.gw \in OtherGateways
        /\ net' = [net EXCEPT !.def = Nil]
  /\ loc' = [q \in Procs |-> IF Running(q) THEN [loc[q] EXCEPT !.raced = TRUE] ELSE loc[q]]
  /\ UNCHANGED <<envVars, rtVars, pc>>

LinkChange ==
  /\ up
  /\ \E m \in Macs, u \in Mtus : link' = [link EXCEPT !.mac = m, !.mtu = u]
  /\ link' # link
  /\ UNCHANGED <<net, up, conflist, bin, rtVars, pc, loc>>

(* The Cilium agent rewrites the conflist; the installer replaces the binary. *)
Reconfigure ==
  /\ conflist' \in Configs \ {conflist}
  /\ UNCHANGED <<net, up, link, bin, rtVars, pc, loc>>
Upgrade ==
  /\ bin' \in Versions \ {bin}
  /\ UNCHANGED <<net, up, link, conflist, rtVars, pc, loc>>

(* The sandbox is torn down, before, during or after DEL. *)
RemoveNetns ==
  /\ pod = "stopping" /\ up
  /\ up' = FALSE
  /\ net' = EmptyNetns
  /\ UNCHANGED <<link, conflist, bin, rtVars, pc, loc>>

Next ==
  \/ \E p \in Procs : Step(p) \/ Return(p) \/ Kill(p)
  \/ \E p \in Procs, cmd \in Cmds : Start(p, cmd)
  \/ Orphan \/ Foreigner \/ LinkChange \/ Reconfigure \/ Upgrade \/ RemoveNetns

Spec == Init /\ [][Next]_vars

(* The operating system keeps scheduling a started process, and a netlink  *)
(* call returns.                                                           *)
FairSpec == Spec /\ \A p \in Procs : WF_vars(Step(p) \/ Return(p))
-----------------------------------------------------------------------------
(* Properties.                                                             *)

Ended(p, cmd, results) == pc[p] = "ret" /\ loc[p].cmd = cmd /\ loc[p].res \in results

(* A pod whose ADD reported an installed CLAT has all of it - address,     *)
(* neighbour, both routes, qdisc, both programs - from the moment ADD      *)
(* returns until DEL starts, whatever retries, kills, failed undos, CHECKs *)
(* and other owners came before or come after, as long as no second plugin *)
(* process overlapped that ADD (CmdAdd, install).                          *)
InstalledStaysComplete ==
  (pod = "running" /\ added.res = "installed" /\ added.alone /\ up)
    => Complete(net, added.conf, added.ver, added.mac, added.mtu)

(* The invariant that carries it through the steps of ADD.  A process that *)
(* is alone is the only one running; a step belongs to a command that has  *)
(* it; an ADD that is alone has installed what lies before its step; and   *)
(* a running pod sees no process but CHECKs.                               *)
Solo == \A p \in Procs : loc[p].alone => \A q \in Procs \ {p} : ~Running(q)
StepOfCmd ==
  \A p \in Procs :
    /\ pc[p] \in ConfigureSteps \cup AttachSteps => loc[p].cmd = "ADD"
    /\ pc[p] \in DetachSteps \cup RemoveSteps => loc[p].cmd # "CHECK"
    /\ pc[p] \in {"insp_addrs", "insp_routes", "prepare"} => loc[p].cmd # "DEL"
    /\ pc[p] \in CheckSteps => loc[p].cmd = "CHECK"
Installing(p, steps) ==
  /\ loc[p].alone /\ up
  /\ pc[p] \in steps \/ (pc[p] = "ret" /\ loc[p].res = "installed")
InstalledSoFar(p) ==
  LET c == loc[p].conf
      prog == [ver |-> loc[p].ver, prefix |-> c.prefix]
  IN
  /\ Installing(p, {"neigh", "host", "def"} \cup AttachSteps) => c.pod4 \in net.addrs
  /\ Installing(p, {"host", "def"} \cup AttachSteps) => net.neigh[c.gw] = loc[p].mac
  /\ Installing(p, {"def"} \cup AttachSteps) => c.gw \in net.hosts
  /\ Installing(p, AttachSteps) => net.def = [gw |-> c.gw, mtu |-> loc[p].mtu - 20]
  /\ Installing(p, {"attach_egress", "attach_ingress"}) => net.qdisc
  /\ Installing(p, {"attach_ingress"}) => net.filters["egress"] = prog
  /\ Installing(p, {}) => net.filters["ingress"] = prog
Progress == \A p \in Procs : InstalledSoFar(p)
OnlyChecks ==
  (pod = "running" /\ added.res = "installed" /\ added.alone)
    => \A p \in Procs : Running(p) => loc[p].cmd = "CHECK"
InstalledInv == TypeOK /\ Solo /\ StepOfCmd /\ Progress /\ OnlyChecks /\ InstalledStaysComplete

(* An ADD that fails in a namespace where it found nothing of its own, and *)
(* whose undo meets no error, leaves nothing of its own behind (install's  *)
(* error paths, failOrOpen).                                               *)
FailedAddLeavesNothing ==
  \A p \in Procs :
    (/\ Ended(p, "ADD", {"open", "error"})
     /\ loc[p].alone /\ loc[p].fresh /\ loc[p].failed = {})
      => Clean(net, loc[p].conf)

(* ADD installs only next to no other IPv4 stack: past its inspection the  *)
(* namespace holds no foreign address or default route, unless the other   *)
(* owner arrived during this very ADD (InspectIPv4 in CmdAdd).             *)
NoSecondStack ==
  \A p \in Procs :
    (/\ loc[p].cmd = "ADD"
     /\ pc[p] \in {"prepare", "enter"} \cup ConfigureSteps \cup AttachSteps
     /\ loc[p].alone /\ ~loc[p].raced)
      => ~Foreign(net, loc[p].conf)

(* A DEL that runs alone and meets no error leaves nothing of its          *)
(* configuration's CLAT, whatever earlier commands were killed, failed or  *)
(* overlapped (CmdDel, Detach, RemoveIPv4).                                *)
DelCleans ==
  \A p \in Procs :
    (Ended(p, "DEL", {"deleted"}) /\ loc[p].alone /\ loc[p].failed = {})
      => Clean(net, loc[p].conf)

(* One call of a DEL that fails does not keep the later ones from being    *)
(* made: of its configuration's CLAT, what is left when it returns is what *)
(* a failed call of its own was to remove (Detach and RemoveIPv4 go on and *)
(* collect the errors, CmdDel reports success).                            *)
DelGoesOn ==
  \A p \in Procs :
    LET c == loc[p].conf
        Left(at) == at \in loc[p].failed
    IN
    (Ended(p, "DEL", {"deleted"}) /\ loc[p].alone /\ ~Left("enter"))
      => /\ net.qdisc \/ (\E h \in Hooks : net.filters[h] # Nil) => Left("qdisc_del")
         /\ net.def = DefaultRoute(c, loc[p].mtu) => Left("def_del")
         /\ c.gw \in net.hosts => Left("host_del")
         /\ net.neigh[c.gw] # Nil => Left("neigh_del")
         /\ c.pod4 \in net.addrs => Left("addr_del")

(* A CHECK that went through CheckIPv4 and CheckAttached and succeeded     *)
(* vouches for a working installation: all four reads still hold together  *)
(* when it returns, though each was made at another time.                  *)
VerifiedIsComplete ==
  \A p \in Procs :
    (Ended(p, "CHECK", {"verified"}) /\ loc[p].alone /\ up)
      => LET l == loc[p] IN
         \E pre \in [Hooks -> Prefixes] :
            /\ Complete([net EXCEPT !.filters = [h \in Hooks |-> Program(l.conf, l.ver)]],
                        l.conf, l.ver, l.mac, l.mtu)
            /\ net.filters = [h \in Hooks |-> [ver |-> l.ver, prefix |-> pre[h]]]

(* CHECK raises no false alarm: when it reports an error although no read  *)
(* failed, the pod is one that should have a CLAT - not opted out, and no  *)
(* other owner's IPv4 state in its namespace -, and the installation       *)
(* really is not complete, and is not simply absent from a fail-open pod   *)
(* (CmdCheck).                                                             *)
CheckErrorIsReal ==
  \A p \in Procs :
    LET l == loc[p] IN
    (/\ Ended(p, "CHECK", {"error"}) /\ l.conf.valid
     /\ l.alone /\ l.failed = {} /\ ~l.raced)
      => /\ l.conf.gets /\ ~Foreign(net, l.conf)
         /\ ~Complete(net, l.conf, l.ver, l.mac, l.mtu)
         /\ ~(l.conf.failOpen /\ Clean(net, l.conf))

(* Every command ends: no path through ADD, DEL or CHECK waits or loops,   *)
(* whichever of its calls fail.                                            *)
EveryCommandReturns == \A p \in Procs : Running(p) ~> ~Running(p)

-----------------------------------------------------------------------------
(* What the documentation promises and the code does not keep.             *)

(* README.md, failOpen: "On any setup error: log, undo partial state,      *)
(* start the pod without a CLAT".  A fail-open ADD whose undo met no error *)
(* leaves nothing of the CLAT.                                             *)
FailOpenLeavesNothing ==
  \A p \in Procs :
    (Ended(p, "ADD", {"open"}) /\ loc[p].alone /\ loc[p].failed = {})
      => Clean(net, loc[p].conf)

(* DESIGN.md, DEL: "DEL is idempotent and never fails." *)
DelNeverFails == \A p \in Procs : ~Ended(p, "DEL", {"error"})

(* DESIGN.md, CHECK: "CHECK verifies the address [...] It returns an error *)
(* on any mismatch."  When nothing else owns IPv4 state in the namespace,  *)
(* a CHECK that succeeds for a pod with an installed CLAT, under a         *)
(* configuration that gives the pod one, has the configured address there. *)
CheckReportsMismatch ==
  \A p \in Procs :
    (/\ Ended(p, "CHECK", {"passed", "verified"})
     /\ loc[p].conf.valid /\ loc[p].conf.gets
     /\ added.res = "installed" /\ loc[p].alone /\ up)
      => loc[p].conf.pod4 \in net.addrs
=============================================================================
