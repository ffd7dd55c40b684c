------------------------- MODULE ClatPlugin_proofs -------------------------
(***************************************************************************)
(* Proofs about ClatPlugin, for every set of processes, configurations,    *)
(* addresses, MACs, MTUs and versions.                                     *)
(***************************************************************************)
EXTENDS ClatPlugin, TLAPS

(* The step sets, spelled out. *)
LEMMA PCsAre ==
  PCs = {"idle", "parse", "insp_addrs", "insp_routes", "prepare", "enter", "ret",
         "addr", "neigh", "host", "def", "qdisc", "attach_egress", "attach_ingress",
         "list_egress", "del_egress", "list_ingress", "del_ingress", "qdisc_del",
         "def_del", "host_del", "neigh_del", "addr_del",
         "filters", "check_addr", "check_neigh", "check_routes", "check_filters"}
BY DEF PCs, ConfigureSteps, AttachSteps, DetachSteps, RemoveSteps, CheckSteps

(* The default route of a configuration, and the program loaded for it,    *)
(* are values the namespace can hold.                                      *)
LEMMA InstalledTypes ==
  ASSUME NEW c \in Configs, NEW u \in Mtus, NEW v \in Versions
  PROVE  /\ c.pod4 \in Addrs /\ c.gw \in Gateways
         /\ DefaultRoute(c, u) \in Routes
         /\ DefaultRoute(c, u) = [gw |-> c.gw, mtu |-> u - 20]
         /\ DefaultRoute(c, u) # Nil
         /\ Program(c, v) \in Programs
<1>1. c \in Config
  BY PluginAssumption
<1>2. c.pod4 \in Addrs /\ c.gw \in Gateways /\ c.prefix \in Prefixes
  BY <1>1 DEF Config
<1>3. DefaultRoute(c, u) \in Routes
  BY <1>2 DEF DefaultRoute, Routes
<1>4. Program(c, v) \in Programs
  BY <1>2 DEF Program, Programs
<1> QED
  BY <1>2, <1>3, <1>4, NetnsAssumption DEF DefaultRoute, RouteMTU

(* Every netlink call takes a namespace to a namespace. *)
LEMMA NetlinkTypes ==
  ASSUME NEW n \in Netns, NEW a \in Addrs, NEW g \in Gateways, NEW m \in Macs,
         NEW r \in Routes, NEW h \in Hooks, NEW f \in Programs
  PROVE  /\ AddrReplace(n, a) \in Netns /\ NeighSet(n, g, m) \in Netns
         /\ HostReplace(n, g) \in Netns /\ DefReplace(n, r) \in Netns
         /\ DefDel(n, r) \in Netns /\ HostDel(n, g) \in Netns
         /\ NeighDel(n, g) \in Netns /\ AddrDel(n, a) \in Netns
         /\ QdiscAdd(n) \in Netns /\ FilterReplace(n, h, f) \in Netns
         /\ FilterDel(n, h) \in Netns /\ QdiscDel(n) \in Netns
<1>1. AddrReplace(n, a) \in Netns /\ HostReplace(n, g) \in Netns /\ HostDel(n, g) \in Netns
  BY DEF AddrReplace, HostReplace, HostDel, Netns
<1>2. NeighSet(n, g, m) \in Netns /\ NeighDel(n, g) \in Netns
  BY DEF NeighSet, NeighDel, Netns
<1>3. DefReplace(n, r) \in Netns /\ DefDel(n, r) \in Netns
  BY DEF DefReplace, DefDel, Netns
<1>4. AddrDel(n, a) \in Netns
  BY Zenon DEF AddrDel, Netns
<1>5. QdiscAdd(n) \in Netns /\ QdiscDel(n) \in Netns
  BY Zenon DEF QdiscAdd, QdiscDel, Netns
<1>6. FilterReplace(n, h, f) \in Netns /\ FilterDel(n, h) \in Netns
  BY DEF FilterReplace, FilterDel, Netns
<1> QED
  BY <1>1, <1>2, <1>3, <1>4, <1>5, <1>6

(* Locals of a new or absent process are well formed. *)
LEMMA NewLocalsType ==
  ASSUME NEW cmd \in Cmds, NEW c \in Configs, NEW v \in Versions, NEW m \in Macs,
         NEW u \in Mtus, NEW al \in BOOLEAN, NEW fr \in BOOLEAN
  PROVE  NewLocals(cmd, c, v, m, u, al, fr) \in Locals
BY DEF NewLocals, Locals, Results

(* A process that is not running has well-formed locals and is not alone. *)
LEMMA BlankType == Blank \in Locals /\ ~Blank.alone /\ Blank.mac \in Macs /\ Blank.mtu \in Mtus
<1>1. /\ (CHOOSE c \in Configs : TRUE) \in Configs /\ (CHOOSE v \in Versions : TRUE) \in Versions
      /\ (CHOOSE m \in Macs : TRUE) \in Macs /\ (CHOOSE u \in Mtus : TRUE) \in Mtus
  BY PluginAssumption
<1>2. Blank \in Locals
  BY <1>1, NewLocalsType, Zenon DEF Blank, Cmds
<1>3. ~Blank.alone
  BY DEF Blank, NewLocals
<1> QED
  BY <1>2, <1>3 DEF Locals

(* Recording a failed call changes nothing else of a process. *)
SameBut(l, n) ==
  /\ n.cmd = l.cmd /\ n.conf = l.conf /\ n.ver = l.ver /\ n.mac = l.mac /\ n.mtu = l.mtu
  /\ n.ours = l.ours /\ n.foreign = l.foreign /\ n.res = l.res
  /\ n.alone = l.alone /\ n.raced = l.raced /\ n.fresh = l.fresh

LEMMA FailedIs ==
  ASSUME NEW l \in Locals, NEW at \in PCs, NEW matters \in BOOLEAN
  PROVE  /\ Failed(l, at, matters) \in Locals /\ SameBut(l, Failed(l, at, matters))
         /\ l.failed \subseteq Failed(l, at, matters).failed
         /\ l.alone /\ matters => at \in Failed(l, at, matters).failed
<1>1. l.failed \subseteq PCs /\ l.failed \cup {at} \subseteq PCs
  BY DEF Locals
<1>2. Failed(l, at, matters) \in Locals
  BY <1>1 DEF Failed, Locals
<1>3. SameBut(l, Failed(l, at, matters))
  BY DEF Failed, SameBut, Locals
<1>4. Failed(l, at, matters).failed = IF l.alone /\ matters THEN l.failed \cup {at} ELSE l.failed
  BY DEF Failed, Locals
<1> QED
  BY <1>2, <1>3, <1>4

(* InspectIPv4's verdict changes nothing else either. *)
LEMMA SeenRoutesIs ==
  ASSUME NEW l \in Locals, NEW named \in BOOLEAN, net \in Netns
  PROVE  LET n == SeenRoutes(l, named) IN
         /\ n \in Locals
         /\ n.cmd = l.cmd /\ n.conf = l.conf /\ n.ver = l.ver /\ n.mac = l.mac /\ n.mtu = l.mtu
         /\ n.res = l.res /\ n.alone = l.alone /\ n.failed = l.failed
         /\ n.raced = l.raced /\ n.fresh = l.fresh
  BY ZenonT(90) DEF Locals, SeenRoutes, OurRoute, ForeignRoute, Netns
-----------------------------------------------------------------------------
(* A call keeps types when its effect is a namespace and its targets are   *)
(* steps.                                                                  *)
LEMMA CallType ==
  ASSUME TypeOK, NEW p \in Procs, NEW at, NEW acc, NEW eff \in Netns,
         NEW next \in PCs, NEW onErr \in PCs, NEW logged \in BOOLEAN,
         Call(p, at, acc, eff, next, onErr, logged)
  PROVE  TypeOK'
<1>1. net' \in Netns /\ pc' \in [Procs -> PCs]
  BY DEF Call, Goto, TypeOK
<1>2. loc' \in [Procs -> Locals]
  <2>1. CASE UNCHANGED loc
    BY <2>1 DEF TypeOK
  <2>2. CASE loc' = [loc EXCEPT ![p] = Failed(@, at, logged /\ eff # net)]
    <3>1. loc[p] \in Locals /\ at \in PCs /\ (logged /\ eff # net) \in BOOLEAN
      BY DEF TypeOK, Call
    <3>2. Failed(loc[p], at, logged /\ eff # net) \in Locals
      BY <3>1, FailedIs, Zenon
    <3> QED
      BY <2>2, <3>2, Zenon DEF TypeOK
  <2> QED
    BY <2>1, <2>2 DEF Call
<1> QED
  BY <1>1, <1>2 DEF Call, TypeOK, envVars, rtVars

(* Ending a command with one of its results keeps types. *)
LEMMA FinishType ==
  ASSUME TypeOK, NEW p \in Procs, NEW l \in Locals, NEW res \in Results,
         Finish(p, l, res)
  PROVE  pc' \in [Procs -> PCs] /\ loc' \in [Procs -> Locals]
<1>1. [l EXCEPT !.res = res] \in Locals
  BY DEF Locals
<1>2. pc' \in [Procs -> PCs]
  BY PCsAre DEF Finish, Goto, TypeOK
<1> QED
  BY <1>1, <1>2, Zenon DEF Finish, TypeOK

(* A new sandbox is well formed. *)
LEMMA InitType == Init => TypeOK
<1> SUFFICES ASSUME Init PROVE TypeOK
  OBVIOUS
<1>1. EmptyNetns \in Netns
  BY DEF EmptyNetns, Netns
<1>2. net \in Netns
  <2>1. PICK a \in BOOLEAN, r \in BOOLEAN :
           net = [EmptyNetns EXCEPT !.tunAddr = a, !.tunRoute = r]
    BY Zenon DEF Init
  <2> QED
    BY <1>1, <2>1, Zenon DEF Netns
<1>3. pc \in [Procs -> PCs] /\ loc \in [Procs -> Locals] /\ added \in Locals
  BY BlankType, PCsAre DEF Init
<1> QED
  BY <1>2, <1>3 DEF Init, TypeOK

(* Every step of a command, of the runtime or of the node keeps types. *)
LEMMA StepType == TypeOK /\ [Next]_vars => TypeOK'
<1> SUFFICES ASSUME TypeOK, [Next]_vars PROVE TypeOK'
  OBVIOUS
<1>0. EmptyNetns \in Netns
  BY DEF EmptyNetns, Netns
<1>1. ASSUME NEW p \in Procs, Step(p) PROVE TypeOK'
  <2>0. /\ loc[p] \in Locals /\ loc[p].conf \in Configs /\ loc[p].ver \in Versions
        /\ loc[p].mac \in Macs /\ loc[p].mtu \in Mtus /\ net \in Netns
    BY DEF TypeOK, Locals
  <2>1. /\ loc[p].conf.pod4 \in Addrs /\ loc[p].conf.gw \in Gateways
        /\ DefaultRoute(loc[p].conf, loc[p].mtu) \in Routes
        /\ Program(loc[p].conf, loc[p].ver) \in Programs
    BY <2>0, InstalledTypes
  <2>2. "egress" \in Hooks /\ "ingress" \in Hooks
    BY DEF Hooks
  <2>e. /\ AddrReplace(net, loc[p].conf.pod4) \in Netns
        /\ NeighSet(net, loc[p].conf.gw, loc[p].mac) \in Netns
        /\ HostReplace(net, loc[p].conf.gw) \in Netns
        /\ DefReplace(net, DefaultRoute(loc[p].conf, loc[p].mtu)) \in Netns
        /\ QdiscAdd(net) \in Netns
        /\ \A h \in Hooks : FilterReplace(net, h, Program(loc[p].conf, loc[p].ver)) \in Netns
        /\ \A h \in Hooks : FilterDel(net, h) \in Netns
        /\ QdiscDel(net) \in Netns
        /\ DefDel(net, DefaultRoute(loc[p].conf, loc[p].mtu)) \in Netns
        /\ HostDel(net, loc[p].conf.gw) \in Netns
        /\ NeighDel(net, loc[p].conf.gw) \in Netns
        /\ AddrDel(net, loc[p].conf.pod4) \in Netns
    BY <2>0, <2>1, <2>2, NetlinkTypes
  <2>3. ASSUME NEW l \in Locals, Abort(p, l)
        PROVE  pc' \in [Procs -> PCs] /\ loc' \in [Procs -> Locals]
    BY <2>3, FinishType DEF Abort, failOrOpen, Results
  <2>4. ASSUME ReadFails(p)
        PROVE  pc' \in [Procs -> PCs] /\ loc' \in [Procs -> Locals]
    <3>1. pc[p] \in PCs /\ (loc[p].cmd = "CHECK") \in BOOLEAN
      BY DEF TypeOK
    <3>2. Failed(loc[p], pc[p], loc[p].cmd = "CHECK") \in Locals
      BY <2>0, <3>1, FailedIs, Zenon
    <3> QED
      BY <3>2, <2>3, <2>4, Zenon DEF ReadFails
  <2>5. CASE Parse(p)
    <3>1. pc' \in [Procs -> PCs] /\ loc' \in [Procs -> Locals]
      BY <2>5, <2>0, FinishType, PCsAre DEF Parse, Goto, Results, TypeOK
    <3> QED
      BY <3>1, <2>5 DEF Parse, TypeOK, envVars, rtVars
  <2>6. CASE InspectAddrs(p)
    <3>1. CASE ReadFails(p)
      BY <3>1, <2>4, <2>6 DEF InspectAddrs, TypeOK, envVars, rtVars
    <3>2. CASE ~ReadFails(p)
      <4>0. OurAddr(net, loc[p].conf) \in BOOLEAN /\ ForeignAddr(net, loc[p].conf) \in BOOLEAN
        BY DEF OurAddr, ForeignAddr
      <4>1. [loc[p] EXCEPT !.ours = OurAddr(net, loc[p].conf),
                           !.foreign = ForeignAddr(net, loc[p].conf)] \in Locals
        BY <2>0, <4>0, Zenon DEF Locals
      <4> QED
        BY <4>1, <3>2, <2>6, PCsAre, ZenonT(40) DEF InspectAddrs, Goto, TypeOK, envVars, rtVars
    <3> QED
      BY <3>1, <3>2
  <2>7. CASE InspectRoutes(p)
    <3>1. ASSUME NEW named \in BOOLEAN PROVE SeenRoutes(loc[p], named) \in Locals
      BY <2>0, SeenRoutesIs, Zenon
    <3>2. pc' \in [Procs -> PCs] /\ loc' \in [Procs -> Locals]
      <4>1. CASE ReadFails(p)
        BY <2>4, <4>1
      <4>2. CASE ~ReadFails(p)
        <5>1. PICK named \in BOOLEAN :
                \/ Finish(p, SeenRoutes(loc[p], named), "skipped")
                \/ /\ Goto(p, IF loc[p].cmd = "ADD" THEN "prepare" ELSE "filters")
                   /\ loc' = [loc EXCEPT ![p] = SeenRoutes(loc[p], named)]
          BY <2>7, <4>2, Zenon DEF InspectRoutes
        <5>2. SeenRoutes(loc[p], named) \in Locals
          BY <3>1
        <5> QED
          BY <5>1, <5>2, FinishType, PCsAre DEF Goto, Results, TypeOK
      <4> QED
        BY <4>1, <4>2
    <3> QED
      BY <3>2, <2>7 DEF InspectRoutes, TypeOK, envVars, rtVars
  <2>8. CASE ListAttached(p)
    <3>1. pc' \in [Procs -> PCs] /\ loc' \in [Procs -> Locals]
      BY <2>0, <2>8, <2>4, FinishType, PCsAre
         DEF ListAttached, NoClatResult, Goto, Results, TypeOK
    <3> QED
      BY <3>1, <2>8 DEF ListAttached, TypeOK, envVars, rtVars
  <2>9. CASE Prepare(p)
    <3>1. \A m \in {link.mac, link.prev} \ {Nil} : [loc[p] EXCEPT !.mac = m] \in Locals
      BY <2>0 DEF Locals, TypeOK, Links
    <3>2. pc' \in [Procs -> PCs] /\ loc' \in [Procs -> Locals]
      BY <3>1, <2>9, <2>4, PCsAre DEF Prepare, Goto, TypeOK
    <3> QED
      BY <3>2, <2>9 DEF Prepare, TypeOK, envVars, rtVars
  <2>10. CASE Enter(p)
    <3>1. /\ [loc[p] EXCEPT !.mtu = link.mtu] \in Locals
          /\ loc[p].cmd \in Cmds
      BY <2>0, Zenon DEF Locals, TypeOK, Links
    <3>p. "enter" \in PCs /\ TRUE \in BOOLEAN
      BY PCsAre
    <3>f. Failed(loc[p], "enter", TRUE) \in Locals
      BY <2>0, <3>p, FailedIs, Zenon
    <3>2. pc' \in [Procs -> PCs] /\ loc' \in [Procs -> Locals]
      BY <3>1, <3>f, <2>10, <2>4, FinishType, PCsAre, Zenon
         DEF Enter, DelEntry, Cmds, Goto, Results, TypeOK
    <3> QED
      BY <3>2, <2>10 DEF Enter, TypeOK, envVars, rtVars
  <2>11. CASE AddAddr(p) \/ AddNeigh(p) \/ AddHost(p) \/ AddDef(p)
    BY <2>11, <2>e, CallType, PCsAre, ZenonT(90)
       DEF AddAddr, AddNeigh, AddHost, AddDef, AfterConfigureError
  <2>12. CASE AddQdisc(p) \/ AttachEgress(p)
    BY <2>12, <2>e, <2>2, CallType, PCsAre, ZenonT(40)
       DEF AddQdisc, AttachEgress, AfterAttachError
  <2>13. CASE AttachIngress(p)
    <3>1. net' \in Netns
      BY <2>13, <2>0, <2>2, <2>e DEF AttachIngress
    <3>2. pc' \in [Procs -> PCs] /\ loc' \in [Procs -> Locals]
      BY <2>13, <2>0, FinishType, PCsAre
         DEF AttachIngress, AfterAttachError, Goto, Results, TypeOK
    <3> QED
      BY <3>1, <3>2, <2>13 DEF AttachIngress, TypeOK, envVars, rtVars
  <2>14. CASE \E h \in Hooks : ListFilter(p, h) \/ DeleteFilter(p, h)
    <3>1. PICK h \in Hooks : ListFilter(p, h) \/ DeleteFilter(p, h)
      BY <2>14
    <3>2. AfterHook(h) \in PCs /\ DelPC(h) \in PCs /\ FilterDel(net, h) \in Netns
      BY <2>e, PCsAre DEF AfterHook, DelPC
    <3> QED
      BY <3>1, <3>2, <2>0, CallType, Zenon DEF ListFilter, DeleteFilter
  <2>15. CASE DeleteQdisc(p) \/ DeleteDef(p) \/ DeleteHost(p) \/ DeleteNeigh(p)
    BY <2>15, <2>e, CallType, PCsAre, ZenonT(90)
       DEF DeleteQdisc, DeleteDef, DeleteHost, DeleteNeigh
  <2>16. CASE DeleteAddr(p)
    <3>1. net' \in Netns
      BY <2>16, <2>0, <2>e DEF DeleteAddr
    <3>p. "addr_del" \in PCs /\ (loc[p].conf.pod4 \in net.addrs) \in BOOLEAN
      BY PCsAre
    <3>2. Failed(loc[p], "addr_del", loc[p].conf.pod4 \in net.addrs) \in Locals
      BY <2>0, <3>p, FailedIs, Zenon
    <3>3. pc' \in [Procs -> PCs] /\ loc' \in [Procs -> Locals]
      BY <3>2, <2>16, <2>0, FinishType DEF DeleteAddr, failOrOpen, Results
    <3> QED
      BY <3>1, <3>3, <2>16 DEF DeleteAddr, TypeOK, envVars, rtVars
  <2>17. ASSUME NEW at, NEW ok, NEW next \in PCs, Check(p, at, ok, next) PROVE TypeOK'
    <3>1. pc' \in [Procs -> PCs] /\ loc' \in [Procs -> Locals]
      BY <2>17, <2>0, <2>3, <2>4 DEF Check, Goto, TypeOK
    <3> QED
      BY <3>1, <2>17 DEF Check, TypeOK, envVars, rtVars
  <2>18. CASE CheckAddr(p) \/ CheckNeigh(p) \/ CheckRoutes(p)
    BY <2>17, <2>18, PCsAre DEF CheckAddr, CheckNeigh, CheckRoutes
  <2>19. CASE CheckAttached(p)
    <3>1. pc' \in [Procs -> PCs] /\ loc' \in [Procs -> Locals]
      BY <2>19, <2>0, <2>4, FinishType DEF CheckAttached, Results
    <3> QED
      BY <3>1, <2>19 DEF CheckAttached, TypeOK, envVars, rtVars
  <2> QED
    BY <1>1, <2>5, <2>6, <2>7, <2>8, <2>9, <2>10, <2>11, <2>12, <2>13, <2>14, <2>15,
       <2>16, <2>18, <2>19 DEF Step
<1>2. ASSUME NEW p \in Procs, Return(p) PROVE TypeOK'
  <2>1. added' \in Locals /\ pod' \in {"creating", "running", "stopping"}
    BY <1>2, BlankType DEF Return, TypeOK
  <2> QED
    BY <1>2, <2>1, BlankType, PCsAre DEF Return, Goto, TypeOK, envVars
<1>3. ASSUME NEW p \in Procs, Kill(p) PROVE TypeOK'
  BY <1>3, BlankType, PCsAre DEF Kill, Goto, TypeOK, envVars
<1>4. ASSUME NEW p \in Procs, NEW cmd \in Cmds, Start(p, cmd) PROVE TypeOK'
  <2>1. NewLocals(cmd, conflist, bin, Blank.mac, Blank.mtu,
                  \A r \in Procs \ {p} : ~Running(r), Clean(net, conflist)) \in Locals
    BY BlankType, NewLocalsType, Zenon DEF TypeOK, Clean, Running
  <2>2. ASSUME NEW q \in Procs PROVE [loc[q] EXCEPT !.alone = FALSE, !.failed = {}] \in Locals
    BY Zenon DEF TypeOK, Locals
  <2>3. loc' \in [Procs -> Locals]
    BY <1>4, <2>1, <2>2, Zenon DEF Start
  <2>4. pod' \in {"creating", "running", "stopping"}
    BY <1>4, Zenon DEF Start, TypeOK, Cmds
  <2> QED
    BY <1>4, <2>3, <2>4, BlankType, PCsAre, Zenon DEF Start, Goto, TypeOK, envVars
<1>5. CASE Orphan
  BY <1>5 DEF Orphan, TypeOK, envVars
<1>6. CASE Foreigner
  <2>1. net' \in Netns
    BY <1>6, ZenonT(40) DEF Foreigner, TypeOK, Netns
  <2>2. \A q \in Procs : [loc[q] EXCEPT !.raced = TRUE] \in Locals
    BY Zenon DEF TypeOK, Locals
  <2> QED
    BY <1>6, <2>1, <2>2 DEF Foreigner, TypeOK, envVars, rtVars
<1>7. CASE LinkChange
  BY <1>7, Zenon DEF LinkChange, TypeOK, Links, rtVars
<1>8. CASE Reconfigure \/ Upgrade
  BY <1>8 DEF Reconfigure, Upgrade, TypeOK, rtVars
<1>9. CASE RemoveNetns
  BY <1>9, <1>0, Zenon DEF RemoveNetns, TypeOK, rtVars
<1>10. CASE UNCHANGED vars
  BY <1>10 DEF vars, TypeOK
<1> QED
  BY <1>1, <1>2, <1>3, <1>4, <1>5, <1>6, <1>7, <1>8, <1>9, <1>10 DEF Next

(* Type correctness: no step of a command, of the runtime or of the node   *)
(* takes the namespace, a process or the runtime's view out of its type.   *)
THEOREM TypeCorrect == Spec => []TypeOK
BY InitType, StepType, PTL DEF Spec
-----------------------------------------------------------------------------
(* What any step of a process leaves alone: the other processes, its own   *)
(* command and configuration, the node and the runtime.                    *)
Framed(p) ==
  /\ Running(p) /\ Running(p)'
  /\ \A q \in Procs \ {p} : pc'[q] = pc[q] /\ loc'[q] = loc[q]
  /\ loc'[p].alone = loc[p].alone /\ loc'[p].cmd = loc[p].cmd
  /\ loc'[p].conf = loc[p].conf /\ loc'[p].ver = loc[p].ver
  /\ UNCHANGED <<up, pod, added>>

(* Ending a command is framed, and reports the given result. *)
LEMMA FinishFrame ==
  ASSUME TypeOK, NEW p \in Procs, NEW l \in Locals, NEW res,
         Running(p), Finish(p, l, res),
         l.alone = loc[p].alone, l.cmd = loc[p].cmd, l.conf = loc[p].conf, l.ver = loc[p].ver,
         UNCHANGED <<envVars, rtVars>>
  PROVE  /\ Framed(p) /\ pc'[p] = "ret" /\ loc'[p].res = res
         /\ loc'[p].mac = l.mac /\ loc'[p].mtu = l.mtu
<1>1. /\ [l EXCEPT !.res = res].alone = l.alone /\ [l EXCEPT !.res = res].cmd = l.cmd
      /\ [l EXCEPT !.res = res].conf = l.conf /\ [l EXCEPT !.res = res].ver = l.ver
      /\ [l EXCEPT !.res = res].mac = l.mac /\ [l EXCEPT !.res = res].mtu = l.mtu
      /\ [l EXCEPT !.res = res].res = res
  BY DEF Locals
<1>2. pc' = [pc EXCEPT ![p] = "ret"] /\ loc' = [loc EXCEPT ![p] = [l EXCEPT !.res = res]]
  BY DEF Finish, Goto
<1> QED
  BY <1>1, <1>2 DEF Framed, Running, TypeOK, envVars, rtVars

(* A failed read ends the command, and never as an installation. *)
LEMMA ReadFailsFrame ==
  ASSUME TypeOK, NEW p \in Procs, Running(p), ReadFails(p), UNCHANGED <<envVars, rtVars>>
  PROVE  Framed(p) /\ pc'[p] = "ret" /\ loc'[p].res # "installed"
<1> DEFINE l == Failed(loc[p], pc[p], loc[p].cmd = "CHECK")
<1>0. loc[p] \in Locals /\ pc[p] \in PCs /\ (loc[p].cmd = "CHECK") \in BOOLEAN
  BY DEF TypeOK
<1>1. /\ l \in Locals /\ l.alone = loc[p].alone /\ l.cmd = loc[p].cmd
      /\ l.conf = loc[p].conf /\ l.ver = loc[p].ver
  BY <1>0, FailedIs, Zenon DEF SameBut
<1>2. \E res \in {"open", "error"} : Finish(p, l, res)
  BY DEF ReadFails, Abort, failOrOpen
<1> HIDE DEF l
<1> QED
  BY <1>1, <1>2, FinishFrame

(* The steps of a running process.                                         *)
Steps == PCs \ {"idle"}

(* The steps at which netlink calls are made or to which they lead. *)
LEMMA StepsAre ==
  /\ "addr" \in Steps /\ "neigh" \in Steps /\ "host" \in Steps /\ "def" \in Steps
  /\ "qdisc" \in Steps /\ "attach_egress" \in Steps /\ "attach_ingress" \in Steps
  /\ "list_egress" \in Steps /\ "del_egress" \in Steps
  /\ "list_ingress" \in Steps /\ "del_ingress" \in Steps /\ "qdisc_del" \in Steps
  /\ "def_del" \in Steps /\ "host_del" \in Steps
  /\ "neigh_del" \in Steps /\ "addr_del" \in Steps
BY PCsAre DEF Steps

(* What a netlink call changes. *)
Called(p, at, eff, next, onErr) ==
  /\ pc[p] = at
  /\ loc'[p].mac = loc[p].mac /\ loc'[p].mtu = loc[p].mtu /\ loc'[p].res = loc[p].res
  /\ \/ up /\ net' = eff /\ pc'[p] = next
     \/ net' = net /\ pc'[p] = onErr

(* A netlink call is framed, takes effect or does not, and leads to one of *)
(* its two next steps.                                                     *)
LEMMA CallFrame ==
  ASSUME TypeOK, NEW p \in Procs, NEW at \in Steps, NEW acc, NEW eff,
         NEW next \in Steps, NEW onErr \in Steps, NEW logged \in BOOLEAN,
         Call(p, at, acc, eff, next, onErr, logged)
  PROVE  Framed(p) /\ Called(p, at, eff, next, onErr)
<1>1. CASE UNCHANGED loc
  BY <1>1 DEF Call, Goto, Framed, Running, Called, Steps, TypeOK, envVars, rtVars
<1>2. CASE loc' = [loc EXCEPT ![p] = Failed(@, at, logged /\ eff # net)]
  <2>0. loc[p] \in Locals /\ at \in PCs /\ (logged /\ eff # net) \in BOOLEAN
    BY DEF TypeOK, Steps
  <2>1. /\ \A q \in Procs \ {p} : loc'[q] = loc[q]
        /\ loc'[p] = Failed(loc[p], at, logged /\ eff # net)
    BY <1>2, Zenon DEF TypeOK
  <2>2. /\ loc'[p].alone = loc[p].alone /\ loc'[p].cmd = loc[p].cmd
        /\ loc'[p].conf = loc[p].conf /\ loc'[p].ver = loc[p].ver
        /\ loc'[p].mac = loc[p].mac /\ loc'[p].mtu = loc[p].mtu /\ loc'[p].res = loc[p].res
    <3>1. SameBut(loc[p], Failed(loc[p], at, logged /\ eff # net))
      BY <2>0, FailedIs, Zenon
    <3> QED
      BY <2>1, <3>1, Zenon DEF SameBut
  <2> QED
    BY <2>1, <2>2 DEF Call, Goto, Framed, Running, Called, Steps, TypeOK, envVars, rtVars
<1> QED
  BY <1>1, <1>2 DEF Call

(* The steps that only read leave the namespace alone, lead to a step that *)
(* belongs to the command, and never end it as an installation.            *)
LEMMA ReadStep ==
  ASSUME TypeOK, StepOfCmd, NEW p \in Procs,
         \/ Parse(p) \/ InspectAddrs(p) \/ InspectRoutes(p) \/ ListAttached(p)
         \/ Prepare(p) \/ Enter(p)
         \/ CheckAddr(p) \/ CheckNeigh(p) \/ CheckRoutes(p) \/ CheckAttached(p)
  PROVE  /\ Framed(p) /\ net' = net
         /\ pc'[p] \in {"insp_addrs", "insp_routes"} => loc[p].cmd # "DEL"
         /\ pc'[p] = "prepare" => loc[p].cmd # "DEL"
         /\ pc'[p] = "addr" => loc[p].cmd = "ADD"
         /\ pc'[p] = "list_egress" => loc[p].cmd = "DEL"
         /\ pc'[p] \in CheckSteps => loc[p].cmd = "CHECK"
         /\ pc'[p] = "ret" => loc'[p].res # "installed"
         /\ pc'[p] \in {"insp_addrs", "insp_routes", "prepare", "enter", "addr",
                         "list_egress", "ret"} \cup CheckSteps
<1>0. /\ loc[p] \in Locals /\ loc[p].cmd \in Cmds
  BY DEF TypeOK, Locals
<1>1. CASE Parse(p)
  <2>1. Running(p) /\ UNCHANGED <<envVars, rtVars>> /\ net' = net
    BY <1>1 DEF Parse, Running
  <2>2. CASE \E res \in {"error", "skipped", "passed"} : Finish(p, loc[p], res)
    BY <2>1, <2>2, <1>0, FinishFrame DEF CheckSteps
  <2>3. CASE Goto(p, "insp_addrs") /\ UNCHANGED loc /\ loc[p].cmd # "DEL"
    BY <2>1, <2>3 DEF Goto, Framed, Running, TypeOK, envVars, rtVars, CheckSteps
  <2>4. CASE Goto(p, "enter") /\ UNCHANGED loc
    BY <2>1, <2>4 DEF Goto, Framed, Running, TypeOK, envVars, rtVars, CheckSteps
  <2> QED
    BY <1>1, <2>2, <2>3, <2>4, Zenon DEF Parse
<1>2. CASE InspectAddrs(p)
  <2>1. Running(p) /\ UNCHANGED <<envVars, rtVars>> /\ net' = net /\ loc[p].cmd # "DEL"
    BY <1>2 DEF InspectAddrs, Running, StepOfCmd
  <2>2. CASE ReadFails(p)
    BY <2>1, <2>2, ReadFailsFrame DEF CheckSteps
  <2>3. CASE ~ReadFails(p)
    <3>1. /\ pc' = [pc EXCEPT ![p] = "insp_routes"]
          /\ loc' = [loc EXCEPT ![p] = [loc[p] EXCEPT !.ours = OurAddr(net, loc[p].conf),
                                           !.foreign = ForeignAddr(net, loc[p].conf)]]
      BY <1>2, <2>3, Zenon DEF InspectAddrs, Goto, TypeOK
    <3> QED
      BY <2>1, <3>1, <1>0 DEF Framed, Running, TypeOK, Locals, envVars, rtVars, CheckSteps
  <2> QED
    BY <2>2, <2>3, Zenon
<1>3. CASE InspectRoutes(p)
  <2>1. Running(p) /\ UNCHANGED <<envVars, rtVars>> /\ net' = net /\ loc[p].cmd # "DEL"
    BY <1>3 DEF InspectRoutes, Running, StepOfCmd
  <2>3. CASE ReadFails(p)
    BY <2>1, <2>3, ReadFailsFrame DEF CheckSteps
  <2>4. CASE ~ReadFails(p)
    <3>1. PICK named \in BOOLEAN :
            \/ Finish(p, SeenRoutes(loc[p], named), "skipped")
            \/ /\ Goto(p, IF loc[p].cmd = "ADD" THEN "prepare" ELSE "filters")
               /\ loc' = [loc EXCEPT ![p] = SeenRoutes(loc[p], named)]
      BY <1>3, <2>4, Zenon DEF InspectRoutes
    <3> DEFINE l == SeenRoutes(loc[p], named)
    <3>2. /\ l \in Locals /\ l.alone = loc[p].alone /\ l.cmd = loc[p].cmd
          /\ l.conf = loc[p].conf /\ l.ver = loc[p].ver
      BY <1>0, SeenRoutesIs, Zenon DEF TypeOK
    <3> HIDE DEF l
    <3>3. CASE Finish(p, l, "skipped")
      BY <2>1, <3>2, <3>3, FinishFrame, SMTT(90) DEF CheckSteps
    <3>4. CASE /\ Goto(p, IF loc[p].cmd = "ADD" THEN "prepare" ELSE "filters")
               /\ loc' = [loc EXCEPT ![p] = l]
      BY <2>1, <3>2, <3>4, <1>0
      DEF Goto, Framed, Running, TypeOK, envVars, rtVars, CheckSteps, Cmds
    <3> QED
      BY <3>1, <3>3, <3>4, Zenon DEF l
  <2> QED
    BY <2>3, <2>4, Zenon
<1>4. CASE ListAttached(p)
  <2>1. Running(p) /\ UNCHANGED <<envVars, rtVars>> /\ net' = net /\ loc[p].cmd = "CHECK"
    BY <1>4, Zenon DEF ListAttached, Running, StepOfCmd, CheckSteps
  <2>2. CASE ReadFails(p)
    BY <2>1, <2>2, ReadFailsFrame, Zenon DEF CheckSteps
  <2>3. CASE \E res \in {"passed", "error"} : Finish(p, loc[p], res)
    BY <2>1, <2>3, <1>0, FinishFrame, Zenon DEF CheckSteps
  <2>4. CASE Goto(p, "prepare") /\ UNCHANGED loc
    BY <2>1, <2>4 DEF Goto, Framed, Running, TypeOK, envVars, rtVars, CheckSteps
  <2> QED
    BY <1>4, <2>2, <2>3, <2>4, Zenon DEF ListAttached, NoClatResult
<1>5. CASE Prepare(p)
  <2>1. Running(p) /\ UNCHANGED <<envVars, rtVars>> /\ net' = net
    BY <1>5 DEF Prepare, Running
  <2>2. CASE ReadFails(p)
    BY <2>1, <2>2, ReadFailsFrame, Zenon DEF CheckSteps
  <2>3. CASE ~ReadFails(p)
    <3>1. PICK m : loc' = [loc EXCEPT ![p] = [loc[p] EXCEPT !.mac = m]]
      BY <1>5, <2>3 DEF Prepare
    <3>2. pc' = [pc EXCEPT ![p] = "enter"]
      BY <1>5, <2>3 DEF Prepare, Goto
    <3> QED
      BY <2>1, <3>1, <3>2, <1>0 DEF Framed, Running, TypeOK, Locals, envVars, rtVars, CheckSteps
  <2> QED
    BY <2>2, <2>3, Zenon
<1>6. CASE Enter(p)
  <2>1. Running(p) /\ UNCHANGED <<envVars, rtVars>> /\ net' = net
    BY <1>6 DEF Enter, Running
  <2>2. CASE ReadFails(p)
    BY <2>1, <2>2, ReadFailsFrame DEF CheckSteps
  <2>3. CASE Finish(p, Failed(loc[p], "enter", TRUE), "deleted")
    <3> DEFINE l == Failed(loc[p], "enter", TRUE)
    <3>0. "enter" \in PCs /\ TRUE \in BOOLEAN
      BY PCsAre
    <3>1. /\ l \in Locals /\ l.alone = loc[p].alone /\ l.cmd = loc[p].cmd
          /\ l.conf = loc[p].conf /\ l.ver = loc[p].ver
      BY <1>0, <3>0, FailedIs, Zenon DEF SameBut
    <3>2. Finish(p, l, "deleted")
      BY <2>3, Zenon
    <3> HIDE DEF l
    <3> QED
      BY <2>1, <3>1, <3>2, FinishFrame DEF CheckSteps
  <2>4. CASE /\ loc' = [loc EXCEPT ![p].mtu = link.mtu]
             /\ Goto(p, CASE loc[p].cmd = "ADD" -> "addr"
                          [] loc[p].cmd = "CHECK" -> "check_addr"
                          [] loc[p].cmd = "DEL" -> DelEntry)
    <3>1. loc' = [loc EXCEPT ![p] = [loc[p] EXCEPT !.mtu = link.mtu]]
      BY <2>4
    <3>2. /\ loc[p].cmd = "ADD" => pc'[p] = "addr"
          /\ loc[p].cmd = "CHECK" => pc'[p] = "check_addr"
          /\ loc[p].cmd = "DEL" => pc'[p] = "list_egress"
          /\ \A q \in Procs \ {p} : pc'[q] = pc[q]
      BY <2>4, <1>0 DEF DelEntry, Goto, TypeOK, Cmds
    <3> QED
      BY <2>1, <3>1, <3>2, <1>0 DEF Framed, Running, TypeOK, Locals, envVars, rtVars, CheckSteps, Cmds
  <2> QED
    BY <1>6, <2>2, <2>3, <2>4, Zenon DEF Enter
<1>7. ASSUME NEW at \in CheckSteps, NEW ok, NEW next \in CheckSteps, Check(p, at, ok, next)
      PROVE  /\ Framed(p) /\ net' = net /\ loc[p].cmd = "CHECK"
             /\ pc'[p] \in {"ret"} \cup CheckSteps
             /\ pc'[p] = "ret" => loc'[p].res # "installed"
  <2>1. Running(p) /\ UNCHANGED <<envVars, rtVars>> /\ net' = net /\ loc[p].cmd = "CHECK"
    BY <1>7 DEF Check, Running, StepOfCmd, CheckSteps
  <2>2. CASE ReadFails(p)
    BY <2>1, <2>2, ReadFailsFrame, Zenon
  <2>3. CASE Abort(p, loc[p])
    BY <2>1, <2>3, <1>0, FinishFrame, SMTT(90) DEF Abort
  <2>4. CASE Goto(p, next) /\ UNCHANGED loc
    BY <2>1, <2>4 DEF Goto, Framed, Running, TypeOK, envVars, rtVars, CheckSteps
  <2> QED
    BY <1>7, <2>2, <2>3, <2>4 DEF Check
<1>8. CASE CheckAddr(p) \/ CheckNeigh(p) \/ CheckRoutes(p)
  BY <1>7, <1>8, Zenon DEF CheckAddr, CheckNeigh, CheckRoutes, CheckSteps
<1>9. CASE CheckAttached(p)
  <2>1. Running(p) /\ UNCHANGED <<envVars, rtVars>> /\ net' = net
    BY <1>9 DEF CheckAttached, Running
  <2>2. CASE ReadFails(p)
    BY <2>1, <2>2, ReadFailsFrame DEF CheckSteps
  <2>3. CASE \E res \in {"verified", "error"} : Finish(p, loc[p], res)
    BY <2>1, <2>3, <1>0, FinishFrame DEF CheckSteps
  <2> QED
    BY <1>9, <2>2, <2>3 DEF CheckAttached
<1> QED
  BY <1>1, <1>2, <1>3, <1>4, <1>5, <1>6, <1>8, <1>9, Zenon

(* A step of install: what it adds is there, and what was there stays.     *)
LEMMA InstallStep ==
  ASSUME TypeOK, StepOfCmd, NEW p \in Procs, InstalledSoFar(p),
         \/ AddAddr(p) \/ AddNeigh(p) \/ AddHost(p) \/ AddDef(p)
         \/ AddQdisc(p) \/ AttachEgress(p) \/ AttachIngress(p)
  PROVE  /\ Framed(p) /\ loc[p].cmd = "ADD" /\ InstalledSoFar(p)'
         /\ pc'[p] \in ConfigureSteps \cup AttachSteps \cup {"def_del", "list_egress", "ret"}
<1>0. /\ net \in Netns /\ loc[p] \in Locals /\ loc[p].conf \in Configs /\ loc[p].ver \in Versions
      /\ loc[p].mac \in Macs /\ loc[p].mtu \in Mtus
  BY DEF TypeOK, Locals
<1>1. /\ loc[p].conf.gw \in Gateways
      /\ DefaultRoute(loc[p].conf, loc[p].mtu) = [gw |-> loc[p].conf.gw, mtu |-> loc[p].mtu - 20]
  BY <1>0, InstalledTypes
<1> USE DEF AttachSteps, ConfigureSteps
<1>2. CASE AddAddr(p)
  <2>1. Framed(p) /\ Called(p, "addr", AddrReplace(net, loc[p].conf.pod4), "neigh", "def_del")
    BY <1>2, CallFrame, StepsAre, Zenon DEF AddAddr, AfterConfigureError
  <2> QED
    BY <1>0, <2>1 DEF StepOfCmd, InstalledSoFar, Installing, Framed, Called, AddrReplace, Netns
<1>3. CASE AddNeigh(p)
  <2>1. Framed(p) /\ Called(p, "neigh", NeighSet(net, loc[p].conf.gw, loc[p].mac), "host", "def_del")
    BY <1>3, CallFrame, StepsAre, Zenon DEF AddNeigh, AfterConfigureError
  <2> QED
    BY <1>0, <1>1, <2>1 DEF StepOfCmd, InstalledSoFar, Installing, Framed, Called, NeighSet, Netns
<1>4. CASE AddHost(p)
  <2>1. Framed(p) /\ Called(p, "host", HostReplace(net, loc[p].conf.gw), "def", "def_del")
    BY <1>4, CallFrame, StepsAre, Zenon DEF AddHost, AfterConfigureError
  <2> QED
    BY <1>0, <2>1 DEF StepOfCmd, InstalledSoFar, Installing, Framed, Called, HostReplace, Netns
<1>5. CASE AddDef(p)
  <2>1. Framed(p) /\ Called(p, "def", DefReplace(net, DefaultRoute(loc[p].conf, loc[p].mtu)),
                              "qdisc", "def_del")
    BY <1>5, CallFrame, StepsAre, Zenon DEF AddDef, AfterConfigureError
  <2> QED
    BY <1>0, <1>1, <2>1 DEF StepOfCmd, InstalledSoFar, Installing, Framed, Called, DefReplace, Netns
<1>6. CASE AddQdisc(p)
  <2>1. Framed(p) /\ Called(p, "qdisc", QdiscAdd(net), "attach_egress", "list_egress")
    BY <1>6, CallFrame, StepsAre, Zenon DEF AddQdisc, AfterAttachError
  <2> QED
    BY <1>0, <2>1 DEF StepOfCmd, InstalledSoFar, Installing, Framed, Called, QdiscAdd, Netns
<1>7. CASE AttachEgress(p)
  <2>1. Framed(p) /\ Called(p, "attach_egress",
                              FilterReplace(net, "egress", Program(loc[p].conf, loc[p].ver)),
                              "attach_ingress", "list_egress")
    BY <1>7, CallFrame, StepsAre, Zenon DEF AttachEgress, AfterAttachError
  <2> QED
    BY <1>0, <2>1
       DEF StepOfCmd, InstalledSoFar, Installing, Framed, Called, FilterReplace, Program, Netns, Hooks
<1>8. CASE AttachIngress(p)
  <2>1. Running(p) /\ pc[p] = "attach_ingress" /\ UNCHANGED <<envVars, rtVars>>
    BY <1>8, Zenon DEF AttachIngress, Running
  <2>2. CASE Goto(p, "list_egress") /\ UNCHANGED <<net, loc>>
    BY <2>1, <2>2, Zenon DEF StepOfCmd, InstalledSoFar, Installing, Framed, Goto, Running, TypeOK,
                      envVars, rtVars
  <2>3. CASE /\ Finish(p, loc[p], "installed")
             /\ net' = FilterReplace(net, "ingress", Program(loc[p].conf, loc[p].ver))
    <3>1. /\ Framed(p) /\ pc'[p] = "ret"
          /\ loc'[p].mac = loc[p].mac /\ loc'[p].mtu = loc[p].mtu
      BY <1>0, <2>1, <2>3, FinishFrame
    <3> QED
      BY <1>0, <2>1, <2>3, <3>1
         DEF StepOfCmd, InstalledSoFar, Installing, Framed, FilterReplace, Program, Netns, Hooks
  <2> QED
    BY <1>8, <2>2, <2>3 DEF AttachIngress, AfterAttachError
<1> QED
  BY <1>2, <1>3, <1>4, <1>5, <1>6, <1>7, <1>8

(* A step of Detach or RemoveIPv4 stays in them or ends the command, and   *)
(* never as an installation.                                               *)
LEMMA UndoStep ==
  ASSUME TypeOK, StepOfCmd, NEW p \in Procs,
         \/ \E h \in Hooks : ListFilter(p, h) \/ DeleteFilter(p, h)
         \/ DeleteQdisc(p)
         \/ DeleteDef(p) \/ DeleteHost(p) \/ DeleteNeigh(p) \/ DeleteAddr(p)
  PROVE  /\ Framed(p) /\ loc[p].cmd # "CHECK"
         /\ pc'[p] \in DetachSteps \cup RemoveSteps \cup {"ret"}
         /\ pc'[p] = "ret" => loc'[p].res # "installed"
<1> USE DEF DetachSteps, RemoveSteps
<1>1. ASSUME NEW h \in Hooks, ListFilter(p, h) \/ DeleteFilter(p, h)
      PROVE  /\ Framed(p) /\ pc[p] \in DetachSteps /\ pc'[p] \in DetachSteps
  <2>1. /\ ListPC(h) \in DetachSteps /\ DelPC(h) \in DetachSteps /\ AfterHook(h) \in DetachSteps
        /\ ListPC(h) \in Steps /\ DelPC(h) \in Steps /\ AfterHook(h) \in Steps
    BY StepsAre, SMT DEF ListPC, DelPC, AfterHook
  <2>2. CASE ListFilter(p, h)
    <3> DEFINE nx == IF net.filters[h] = Nil THEN AfterHook(h) ELSE DelPC(h)
    <3>1. nx \in DetachSteps /\ nx \in Steps
      BY <2>1
    <3>2. Call(p, ListPC(h), TRUE, net, nx, AfterHook(h), TRUE)
      BY <2>2, Zenon DEF ListFilter
    <3> HIDE DEF nx
    <3>3. Framed(p) /\ Called(p, ListPC(h), net, nx, AfterHook(h))
      BY <2>1, <3>1, <3>2, CallFrame, Zenon
    <3> QED
      BY <2>1, <3>1, <3>3 DEF Called
  <2>3. CASE DeleteFilter(p, h)
    <3>1. Framed(p) /\ Called(p, DelPC(h), FilterDel(net, h), AfterHook(h), AfterHook(h))
      BY <2>1, <2>3, CallFrame, Zenon DEF DeleteFilter
    <3> QED
      BY <2>1, <3>1, Zenon DEF Called
  <2> QED
    BY <1>1, <2>2, <2>3
<1>2. CASE DeleteQdisc(p)
  <2>1. Framed(p) /\ Called(p, "qdisc_del", QdiscDel(net), "def_del", "def_del")
    BY <1>2, CallFrame, StepsAre, Zenon DEF DeleteQdisc
  <2> QED
    BY <2>1, Zenon DEF StepOfCmd, Called
<1>3. CASE DeleteDef(p)
  <2>1. Framed(p) /\ Called(p, "def_del", DefDel(net, DefaultRoute(loc[p].conf, loc[p].mtu)),
                              "host_del", "host_del")
    BY <1>3, CallFrame, StepsAre, Zenon DEF DeleteDef
  <2> QED
    BY <2>1 DEF StepOfCmd, Called
<1>4. CASE DeleteHost(p)
  <2>1. Framed(p) /\ Called(p, "host_del", HostDel(net, loc[p].conf.gw), "neigh_del", "neigh_del")
    BY <1>4, CallFrame, StepsAre, Zenon DEF DeleteHost
  <2> QED
    BY <2>1, Zenon DEF StepOfCmd, Called
<1>5. CASE DeleteNeigh(p)
  <2>1. Framed(p) /\ Called(p, "neigh_del", NeighDel(net, loc[p].conf.gw), "addr_del", "addr_del")
    BY <1>5, CallFrame, StepsAre, Zenon DEF DeleteNeigh
  <2> QED
    BY <2>1 DEF StepOfCmd, Called
<1>6. CASE DeleteAddr(p)
  <2> DEFINE b == loc[p].conf.pod4 \in net.addrs
             l == Failed(loc[p], "addr_del", b)
  <2>0. "addr_del" \in PCs /\ b \in BOOLEAN /\ loc[p] \in Locals
    BY PCsAre DEF TypeOK
  <2>1. /\ loc[p] \in Locals /\ l \in Locals /\ l.alone = loc[p].alone /\ l.cmd = loc[p].cmd
        /\ l.conf = loc[p].conf /\ l.ver = loc[p].ver
    <3> HIDE DEF b
    <3>1. l \in Locals /\ SameBut(loc[p], l)
      BY <2>0, FailedIs, Zenon
    <3> QED
      BY <2>0, <3>1, Zenon DEF SameBut
  <2>2. /\ pc[p] = "addr_del" /\ Running(p) /\ UNCHANGED <<envVars, rtVars>>
        /\ \E res \in {"open", "error", "deleted"} : Finish(p, loc[p], res) \/ Finish(p, l, res)
    BY <1>6 DEF DeleteAddr, Running, failOrOpen
  <2> HIDE DEF l
  <2> QED
    BY <2>1, <2>2, FinishFrame, SMTT(90) DEF StepOfCmd
<1> QED
  BY <1>1, <1>2, <1>3, <1>4, <1>5, <1>6, Zenon DEF StepOfCmd

-----------------------------------------------------------------------------
(* A step of one process keeps the invariant: no other process is alone,   *)
(* and if the pod has an installed CLAT the process is a CHECK, which      *)
(* writes nothing.                                                         *)
LEMMA StepKeeps ==
  ASSUME InstalledInv, NEW p \in Procs, Step(p)
  PROVE  Solo' /\ StepOfCmd' /\ Progress' /\ OnlyChecks' /\ InstalledStaysComplete'
<1> USE DEF InstalledInv
<1>1. /\ Framed(p)
      /\ loc[p].cmd = "CHECK" => net' = net
      /\ InstalledSoFar(p)'
      /\ pc'[p] \in ConfigureSteps \cup AttachSteps => loc[p].cmd = "ADD"
      /\ pc'[p] \in DetachSteps \cup RemoveSteps => loc[p].cmd # "CHECK"
      /\ pc'[p] \in {"insp_addrs", "insp_routes", "prepare"} => loc[p].cmd # "DEL"
      /\ pc'[p] \in CheckSteps => loc[p].cmd = "CHECK"
  <2> USE DEF ConfigureSteps, AttachSteps, DetachSteps, RemoveSteps, CheckSteps
  <2>1. CASE \/ Parse(p) \/ InspectAddrs(p) \/ InspectRoutes(p) \/ ListAttached(p)
             \/ Prepare(p) \/ Enter(p)
             \/ CheckAddr(p) \/ CheckNeigh(p) \/ CheckRoutes(p) \/ CheckAttached(p)
    <3>1. /\ Framed(p) /\ net' = net
          /\ pc'[p] \in {"insp_addrs", "insp_routes", "prepare"} => loc[p].cmd # "DEL"
          /\ pc'[p] = "addr" => loc[p].cmd = "ADD"
          /\ pc'[p] = "list_egress" => loc[p].cmd = "DEL"
          /\ pc'[p] \in CheckSteps => loc[p].cmd = "CHECK"
          /\ pc'[p] = "ret" => loc'[p].res # "installed"
          /\ pc'[p] \in {"insp_addrs", "insp_routes", "prepare", "enter", "addr",
                          "list_egress", "ret"} \cup CheckSteps
      BY <2>1, ReadStep, Zenon
    <3>2. InstalledSoFar(p)'
      BY <3>1, Zenon DEF InstalledSoFar, Installing
    <3> QED
      BY <3>1, <3>2, Zenon
  <2>2. CASE \/ AddAddr(p) \/ AddNeigh(p) \/ AddHost(p) \/ AddDef(p)
             \/ AddQdisc(p) \/ AttachEgress(p) \/ AttachIngress(p)
    <3>1. /\ Framed(p) /\ loc[p].cmd = "ADD" /\ InstalledSoFar(p)'
          /\ pc'[p] \in ConfigureSteps \cup AttachSteps \cup {"def_del", "list_egress", "ret"}
      BY <2>2, InstallStep DEF Progress
    <3> QED
      BY <3>1
  <2>3. CASE \/ \E h \in Hooks : ListFilter(p, h) \/ DeleteFilter(p, h)
             \/ DeleteQdisc(p)
             \/ DeleteDef(p) \/ DeleteHost(p) \/ DeleteNeigh(p) \/ DeleteAddr(p)
    <3>1. /\ Framed(p) /\ loc[p].cmd # "CHECK"
          /\ pc'[p] \in DetachSteps \cup RemoveSteps \cup {"ret"}
          /\ pc'[p] = "ret" => loc'[p].res # "installed"
      BY <2>3, UndoStep
    <3>2. InstalledSoFar(p)'
      BY <3>1 DEF InstalledSoFar, Installing
    <3> QED
      BY <3>1, <3>2
  <2> QED
    BY <2>1, <2>2, <2>3, Zenon DEF Step
<1>2. \A q \in Procs \ {p} : ~loc[q].alone /\ ~loc'[q].alone
  BY <1>1 DEF Framed, Solo
<1>3. Solo'
  BY <1>1, <1>2 DEF Framed, Solo, Running
<1>4. StepOfCmd'
  BY <1>1, Zenon DEF Framed, StepOfCmd
<1>5. Progress'
  BY <1>1, <1>2, Zenon DEF Progress, InstalledSoFar, Installing
<1>6. OnlyChecks'
  BY <1>1, Zenon DEF Framed, OnlyChecks, Running
<1>7. InstalledStaysComplete'
  BY <1>1 DEF Framed, OnlyChecks, InstalledStaysComplete
<1> QED
  BY <1>3, <1>4, <1>5, <1>6, <1>7

(* The runtime keeps it: a CHECK joins only CHECKs, any other command      *)
(* forgets the last ADD, and an ADD that was alone returns with everything *)
(* in place and nobody else running.                                       *)
LEMMA RuntimeKeeps ==
  ASSUME InstalledInv,
         \/ \E p \in Procs : Return(p) \/ Kill(p)
         \/ \E p \in Procs, cmd \in Cmds : Start(p, cmd)
         \/ Orphan
  PROVE  Solo' /\ StepOfCmd' /\ Progress' /\ OnlyChecks' /\ InstalledStaysComplete'
<1> USE DEF InstalledInv
<1>b. ~Blank.alone /\ Blank.res = "none" /\ Blank.cmd = "CHECK"
  BY DEF Blank, NewLocals
<1>1. ASSUME NEW p \in Procs, Goto(p, "idle"), loc' = [loc EXCEPT ![p] = Blank],
             UNCHANGED <<net, up>>
      PROVE  Solo' /\ StepOfCmd' /\ Progress'
  <2>1. /\ pc'[p] = "idle" /\ loc'[p] = Blank
        /\ \A q \in Procs \ {p} : pc'[q] = pc[q] /\ loc'[q] = loc[q]
    BY <1>1 DEF Goto, TypeOK
  <2>2. Solo'
    BY <1>b, <2>1 DEF Solo, Running
  <2>3. StepOfCmd'
    BY <2>1 DEF StepOfCmd, ConfigureSteps, AttachSteps, DetachSteps, RemoveSteps, CheckSteps
  <2>4. Progress'
    <3> SUFFICES ASSUME NEW q \in Procs PROVE InstalledSoFar(q)'
      BY DEF Progress
    <3>1. CASE q = p
      BY <3>1, <1>b, <2>1, Zenon DEF InstalledSoFar, Installing
    <3>2. CASE q # p
      <4>1. pc'[q] = pc[q] /\ loc'[q] = loc[q] /\ net' = net /\ up' = up
        BY <1>1, <2>1, <3>2
      <4>2. InstalledSoFar(q)
        BY DEF Progress
      <4> QED
        BY <4>1, <4>2, Zenon DEF InstalledSoFar, Installing
    <3> QED
      BY <3>1, <3>2
  <2> QED
    BY <2>2, <2>3, <2>4
<1>2. ASSUME NEW p \in Procs, Kill(p)
      PROVE  Solo' /\ StepOfCmd' /\ Progress' /\ OnlyChecks' /\ InstalledStaysComplete'
  <2>1. Solo' /\ StepOfCmd' /\ Progress'
    BY <1>1, <1>2, Zenon DEF Kill, envVars
  <2>2. OnlyChecks' /\ InstalledStaysComplete'
    BY <1>2 DEF Kill, Goto, envVars, OnlyChecks, InstalledStaysComplete, Running, TypeOK
  <2> QED
    BY <2>1, <2>2
<1>3. ASSUME NEW p \in Procs, Return(p)
      PROVE  Solo' /\ StepOfCmd' /\ Progress' /\ OnlyChecks' /\ InstalledStaysComplete'
  <2>1. Solo' /\ StepOfCmd' /\ Progress'
    BY <1>1, <1>3, Zenon DEF Return, envVars
  <2>2. CASE p = cur /\ loc[p].cmd = "ADD"
    <3>1. /\ added'.res = "installed" => added' = loc[p]
          /\ pc[p] = "ret" /\ UNCHANGED <<net, up>>
      BY <1>3, <1>b, <2>2, Zenon DEF Return, envVars
    <3>2. loc[p].alone => \A q \in Procs : ~Running(q)'
      BY <1>3 DEF Return, Goto, Solo, Running, TypeOK
    <3>3. loc[p].alone /\ up /\ loc[p].res = "installed"
            => Complete(net, loc[p].conf, loc[p].ver, loc[p].mac, loc[p].mtu)
      BY <3>1, Zenon DEF Progress, InstalledSoFar, Installing, Complete, Hooks
    <3> QED
      BY <2>1, <3>1, <3>2, <3>3, Zenon DEF OnlyChecks, InstalledStaysComplete
  <2>3. CASE ~(p = cur /\ loc[p].cmd = "ADD")
    <3>1. OnlyChecks' /\ InstalledStaysComplete'
      BY <1>3, <2>3 DEF Return, Goto, envVars, OnlyChecks, InstalledStaysComplete, Running, TypeOK
    <3> QED
      BY <2>1, <3>1
  <2> QED
    BY <2>2, <2>3, Zenon
<1>4. ASSUME NEW p \in Procs, NEW cmd \in Cmds, Start(p, cmd)
      PROVE  Solo' /\ StepOfCmd' /\ Progress' /\ OnlyChecks' /\ InstalledStaysComplete'
  <2> DEFINE l == NewLocals(cmd, conflist, bin, Blank.mac, Blank.mtu,
                            \A r \in Procs \ {p} : ~Running(r), Clean(net, conflist))
  <2>1. /\ l.cmd = cmd
        /\ l.alone = (\A r \in Procs \ {p} : ~Running(r))
    BY Zenon DEF NewLocals
  <2>l. loc' = [q \in Procs |-> IF q = p THEN l ELSE [loc[q] EXCEPT !.alone = FALSE, !.failed = {}]]
    BY <1>4, Zenon DEF Start
  <2> HIDE DEF l
  <2>2. /\ pc'[p] = "parse" /\ loc'[p] = l
        /\ \A q \in Procs \ {p} : /\ pc'[q] = pc[q]
                                   /\ loc'[q] = [loc[q] EXCEPT !.alone = FALSE, !.failed = {}]
        /\ UNCHANGED <<net, up>>
    BY <1>4, <2>l, Zenon DEF Start, Goto, TypeOK, envVars
  <2>3. \A q \in Procs \ {p} : ~loc'[q].alone /\ loc'[q].cmd = loc[q].cmd
    <3> TAKE q \in Procs \ {p}
    <3>1. loc[q] \in Locals
      BY DEF TypeOK
    <3>2. /\ [loc[q] EXCEPT !.alone = FALSE, !.failed = {}].alone = FALSE
          /\ [loc[q] EXCEPT !.alone = FALSE, !.failed = {}].cmd = loc[q].cmd
      BY <3>1, Zenon DEF Locals
    <3>3. loc'[q] = [loc[q] EXCEPT !.alone = FALSE, !.failed = {}]
      BY <2>2, Zenon
    <3> QED
      BY <3>2, <3>3, Zenon
  <2>4. Solo'
    BY <2>1, <2>2, <2>3, Zenon DEF Solo, Running
  <2>5. StepOfCmd'
    BY <2>2, <2>3, ZenonT(40) DEF StepOfCmd, ConfigureSteps, AttachSteps, DetachSteps, RemoveSteps, CheckSteps
  <2>6. Progress'
    BY <2>2, <2>3, ZenonT(40) DEF Progress, InstalledSoFar, Installing, AttachSteps
  <2>7. CASE cmd = "CHECK"
    <3>1. UNCHANGED <<added, pod>>
      BY <1>4, <2>7, Zenon DEF Start
    <3>2. OnlyChecks' /\ InstalledStaysComplete'
      BY <2>1, <2>2, <2>3, <2>7, <3>1, Zenon DEF OnlyChecks, InstalledStaysComplete, Running
    <3> QED
      BY <2>4, <2>5, <2>6, <3>2
  <2>8. CASE cmd # "CHECK"
    <3>1. added'.res = "none"
      BY <1>4, <1>b, <2>8, Zenon DEF Start
    <3> QED
      BY <2>4, <2>5, <2>6, <3>1 DEF OnlyChecks, InstalledStaysComplete
  <2> QED
    BY <2>7, <2>8
<1>5. CASE Orphan
  BY <1>5, ZenonT(40) DEF Orphan, envVars, Solo, StepOfCmd, Progress, InstalledSoFar, Installing,
              OnlyChecks, InstalledStaysComplete, Running
<1> QED
  BY <1>2, <1>3, <1>4, <1>5

(* The node keeps it: another owner's route never replaces the plugin's,   *)
(* and the namespace goes away as a whole.                                 *)
LEMMA NodeKeeps ==
  ASSUME InstalledInv, Foreigner \/ LinkChange \/ Reconfigure \/ Upgrade \/ RemoveNetns
  PROVE  Solo' /\ StepOfCmd' /\ Progress' /\ OnlyChecks' /\ InstalledStaysComplete'
<1> USE DEF InstalledInv
<1>1. CASE LinkChange \/ Reconfigure \/ Upgrade
  <2>1. UNCHANGED <<net, up, pod, added, pc, loc>>
    BY <1>1, Zenon DEF LinkChange, Reconfigure, Upgrade, rtVars
  <2> QED
    BY <2>1, ZenonT(40) DEF Solo, StepOfCmd, Progress, InstalledSoFar, Installing, OnlyChecks,
                InstalledStaysComplete, Running
<1>2. CASE RemoveNetns
  BY <1>2, Zenon DEF RemoveNetns, rtVars, Solo, StepOfCmd, Progress,
              InstalledSoFar, Installing, OnlyChecks, InstalledStaysComplete, Running
<1>3. CASE Foreigner
  <2>1. /\ UNCHANGED <<up, pod, added, pc>>
        /\ \A q \in Procs : \/ loc'[q] = loc[q]
                            \/ loc'[q] = [loc[q] EXCEPT !.raced = TRUE]
    BY <1>3 DEF Foreigner, envVars, rtVars
  <2>2. \A q \in Procs : /\ loc'[q].alone = loc[q].alone /\ loc'[q].cmd = loc[q].cmd
                         /\ loc'[q].conf = loc[q].conf /\ loc'[q].ver = loc[q].ver
                         /\ loc'[q].mac = loc[q].mac /\ loc'[q].mtu = loc[q].mtu
                         /\ loc'[q].res = loc[q].res
    BY <2>1, ZenonT(90) DEF TypeOK, Locals
  <2>3. /\ net'.addrs = net.addrs /\ net'.neigh = net.neigh /\ net'.hosts = net.hosts
        /\ net'.qdisc = net.qdisc /\ net'.filters = net.filters
        /\ net'.def # net.def => net.def = Nil \/ net.def.gw \in OtherGateways
    BY <1>3 DEF Foreigner, TypeOK, Netns
  <2>4. ASSUME NEW c \in Configs, NEW u \in Mtus, net.def = [gw |-> c.gw, mtu |-> u - 20]
        PROVE  net'.def = net.def
    <3>1. net.def # Nil
      BY <2>4, PluginAssumption, InstalledTypes
    <3>2. net.def.gw \notin OtherGateways
      BY <2>4 DEF OtherGateways
    <3> QED
      BY <2>3, <3>1, <3>2
  <2>5. \A q \in Procs : loc[q].conf \in Configs /\ loc[q].mtu \in Mtus
    BY DEF TypeOK, Locals
  <2>6. added.conf \in Configs /\ added.mtu \in Mtus
    BY DEF TypeOK, Locals
  <2>7. Solo' /\ StepOfCmd' /\ OnlyChecks'
    BY <2>1, <2>2 DEF Solo, StepOfCmd, OnlyChecks, Running
  <2>8. Progress'
    BY <2>1, <2>2, <2>3, <2>4, <2>5 DEF Progress, InstalledSoFar, Installing
  <2>9. InstalledStaysComplete'
    BY <2>1, <2>3, <2>4, <2>6 DEF InstalledStaysComplete, Complete
  <2> QED
    BY <2>7, <2>8, <2>9
<1> QED
  BY <1>1, <1>2, <1>3

(* The invariant holds throughout: of a new sandbox, and after every step  *)
(* of a command, of the runtime or of the node.                            *)
LEMMA InstalledAlways == Spec => []InstalledInv
<1>1. Init => InstalledInv
  <2> SUFFICES ASSUME Init PROVE InstalledInv
    OBVIOUS
  <2>1. TypeOK
    BY InitType
  <2>2. ~Blank.alone /\ Blank.res = "none"
    BY DEF Blank, NewLocals
  <2>3. Solo /\ StepOfCmd /\ Progress
    BY <2>2 DEF Init, Solo, StepOfCmd, Progress, InstalledSoFar, Installing,
                ConfigureSteps, AttachSteps, DetachSteps, RemoveSteps, CheckSteps
  <2>4. OnlyChecks /\ InstalledStaysComplete
    BY <2>2 DEF Init, OnlyChecks, InstalledStaysComplete
  <2> QED
    BY <2>1, <2>3, <2>4 DEF InstalledInv
<1>2. InstalledInv /\ [Next]_vars => InstalledInv'
  <2> SUFFICES ASSUME InstalledInv, [Next]_vars PROVE InstalledInv'
    OBVIOUS
  <2>1. TypeOK'
    BY StepType DEF InstalledInv
  <2>2. CASE Next
    <3>1. Solo' /\ StepOfCmd' /\ Progress' /\ OnlyChecks' /\ InstalledStaysComplete'
      BY <2>2, StepKeeps, RuntimeKeeps, NodeKeeps DEF Next
    <3> QED
      BY <2>1, <3>1 DEF InstalledInv
  <2>3. CASE UNCHANGED vars
    BY <2>1, <2>3, ZenonT(40) DEF vars, InstalledInv, Solo, StepOfCmd, Progress, InstalledSoFar, Installing,
                      OnlyChecks, InstalledStaysComplete, Running
  <2> QED
    BY <2>2, <2>3
<1> QED
  BY <1>1, <1>2, PTL DEF Spec

(* A pod whose ADD reported an installed CLAT keeps all of it until DEL    *)
(* starts (CmdAdd, install): whatever was killed, failed or half undone    *)
(* before, an ADD that no other plugin process overlaps installs           *)
(* everything, and what runs in a pod after it only reads.                 *)
THEOREM InstalledCorrect == Spec => []InstalledStaysComplete
<1>1. InstalledInv => InstalledStaysComplete
  BY DEF InstalledInv
<1> QED
  BY <1>1, InstalledAlways, PTL
-----------------------------------------------------------------------------
(* The single commands: what ADD found before it installs, what a failed   *)
(* ADD and DEL leave behind, what CHECK vouches for and complains about.   *)
(* The invariants, one per process; each is about a command that is alone. *)

(* ADD's inspection: what InspectIPv4 saw is still so. *)
InspectedSoFar(p) ==
  LET c == loc[p].conf IN
  (loc[p].cmd = "ADD" /\ loc[p].alone /\ ~loc[p].raced)
    => /\ pc[p] = "insp_routes" => (ForeignAddr(net, c) => loc[p].foreign)
       /\ pc[p] \in {"prepare", "enter"} \cup ConfigureSteps \cup AttachSteps
            => ~Foreign(net, c)

InspectedInv == \A p \in Procs : InspectedSoFar(p)

(* Process p is at one of these steps, or has ended an undo. *)
Undone(p, steps) ==
  \/ pc[p] \in steps
  \/ Ended(p, "DEL", {"deleted"}) \/ Ended(p, "ADD", {"open", "error"})

Bare(n) == ~n.qdisc /\ \A h \in Hooks : n.filters[h] = Nil

(* Detach and RemoveIPv4, in DEL or in a failed ADD that started clean:    *)
(* what lies before the step is gone, or its own call failed.              *)
Missed(p, at) == at \in loc[p].failed
UndoneSoFar(p) ==
  LET c == loc[p].conf IN
  (loc[p].alone /\ ~Missed(p, "enter") /\ (loc[p].cmd = "ADD" => loc[p].fresh))
    => /\ Undone(p, RemoveSteps) => Bare(net) \/ Missed(p, "qdisc_del")
       /\ Undone(p, {"host_del", "neigh_del", "addr_del"})
            => net.def # DefaultRoute(c, loc[p].mtu) \/ Missed(p, "def_del")
       /\ Undone(p, {"neigh_del", "addr_del"}) => c.gw \notin net.hosts \/ Missed(p, "host_del")
       /\ Undone(p, {"addr_del"}) => net.neigh[c.gw] = Nil \/ Missed(p, "neigh_del")
       /\ Undone(p, {}) => c.pod4 \notin net.addrs \/ Missed(p, "addr_del")

(* An ADD that started clean: nothing is there before it installs, no      *)
(* qdisc before it attaches, and the only route to its gateway is its own. *)
FreshSoFar(p) ==
  LET c == loc[p].conf IN
  (loc[p].cmd = "ADD" /\ loc[p].alone /\ loc[p].fresh)
    => /\ pc[p] \in {"parse", "insp_addrs", "insp_routes", "prepare", "enter"}
            => Clean(net, c)
       /\ pc[p] \in ConfigureSteps => Bare(net)
       /\ Running(p) => (OurRoute(net, c) => net.def = DefaultRoute(c, loc[p].mtu))

UndoInv == \A p \in Procs : UndoneSoFar(p) /\ FreshSoFar(p)

(* CheckIPv4 and CheckAttached: every read that was good is still good. *)
Verifying(p, steps) == pc[p] \in steps \/ Ended(p, "CHECK", {"verified"})
CheckedSoFar(p) ==
  LET c == loc[p].conf IN
  (loc[p].alone /\ up)
    => /\ Verifying(p, {"check_neigh", "check_routes", "check_filters"}) => AddrOK(net, c)
       /\ Verifying(p, {"check_routes", "check_filters"}) => NeighOK(net, c, loc[p].mac)
       /\ Verifying(p, {"check_filters"}) => RoutesOK(net, c, loc[p].mtu)
       /\ Verifying(p, {}) => FiltersOK(net, loc[p].ver)

CheckedInv == \A p \in Procs : CheckedSoFar(p)

(* A filter hangs on the qdisc. *)
FiltersHang == \A h \in Hooks : net.filters[h] # Nil => net.qdisc

(* CHECK's verdicts: what it read of the namespace is still so, and past   *)
(* ListAttached there is something of a CLAT and nothing foreign in it.    *)
AlarmSoFar(p) ==
  LET l == loc[p]
      c == loc[p].conf
  IN
  (l.cmd = "CHECK" /\ l.alone /\ Running(p))
    => /\ pod = "running"
       /\ pc[p] \notin {"parse", "ret"} => c.gets
       /\ ~l.raced
            => /\ pc[p] = "insp_routes" => /\ l.ours <=> OurAddr(net, c)
                                           /\ ForeignAddr(net, c) => l.foreign
               /\ pc[p] = "filters" /\ ~l.foreign
                    => /\ l.ours <=> OurAddr(net, c) \/ OurRoute(net, c)
                       /\ ~Foreign(net, c)
               /\ pc[p] \in {"prepare", "enter"} \cup (CheckSteps \ {"filters"})
                    => ~Clean(net, c) /\ ~Foreign(net, c)
               /\ (pc[p] = "ret" /\ l.res = "error" /\ c.valid /\ l.failed = {})
                    => /\ c.gets /\ ~Foreign(net, c)
                       /\ ~Complete(net, c, l.ver, l.mac, l.mtu)
                       /\ ~(c.failOpen /\ Clean(net, c))
AlarmInv == \A p \in Procs : AlarmSoFar(p)

-----------------------------------------------------------------------------
(* What the steps do to the process that takes them.                       *)

(* What no step of a command changes, and what most steps leave alone. *)
Kept(l, m) ==
  /\ m.cmd = l.cmd /\ m.conf = l.conf /\ m.ver = l.ver
  /\ m.alone = l.alone /\ m.fresh = l.fresh
Same(l, m) ==
  /\ Kept(l, m) /\ m.raced = l.raced
  /\ m.mac = l.mac /\ m.mtu = l.mtu /\ m.ours = l.ours /\ m.foreign = l.foreign

(* A command that ends keeps its locals. *)
LEMMA Ends ==
  ASSUME TypeOK, NEW p \in Procs, NEW l \in Locals, NEW res, Finish(p, l, res)
  PROVE  /\ pc'[p] = "ret" /\ loc'[p].res = res /\ loc'[p].failed = l.failed
         /\ Same(l, loc'[p])
<1>1. pc'[p] = "ret" /\ loc'[p] = [l EXCEPT !.res = res]
  BY Zenon DEF Finish, Goto, TypeOK
<1> QED
  BY <1>1, Zenon DEF Same, Kept, Locals

(* So does one that ends because a read failed. *)
LEMMA ReadEnds ==
  ASSUME TypeOK, NEW p \in Procs, ReadFails(p)
  PROVE  /\ pc'[p] = "ret" /\ Same(loc[p], loc'[p])
         /\ loc[p].alone /\ loc[p].cmd = "CHECK" => loc'[p].failed # {}
         /\ loc'[p].res \in {"open", "error"}
         /\ loc[p].cmd # "ADD" => loc'[p].res = "error"
<1> DEFINE l == Failed(loc[p], pc[p], loc[p].cmd = "CHECK")
<1>0. loc[p] \in Locals /\ pc[p] \in PCs /\ (loc[p].cmd = "CHECK") \in BOOLEAN
  BY DEF TypeOK
<1>1. /\ l \in Locals /\ Same(loc[p], l) /\ l.cmd = loc[p].cmd
      /\ loc[p].alone /\ loc[p].cmd = "CHECK" => l.failed # {}
  BY <1>0, FailedIs, Zenon DEF SameBut, Same, Kept
<1>2. \E res : /\ Finish(p, l, res) /\ res \in {"open", "error"}
               /\ loc[p].cmd # "ADD" => res = "error"
  BY <1>1, Zenon DEF ReadFails, Abort, failOrOpen
<1> HIDE DEF l
<1>3. PICK res : /\ Finish(p, l, res) /\ res \in {"open", "error"}
                 /\ loc[p].cmd # "ADD" => res = "error"
  BY <1>2, Zenon
<1>4. /\ pc'[p] = "ret" /\ loc'[p].res = res /\ loc'[p].failed = l.failed /\ Same(l, loc'[p])
  BY <1>1, <1>3, Ends, Zenon
<1> QED
  BY <1>1, <1>3, <1>4, Zenon DEF Same, Kept

(* What a netlink call does to the process that makes it. *)
Made(p, at, acc, eff, next, onErr, logged) ==
  /\ pc[p] = at /\ loc'[p].res = loc[p].res /\ Same(loc[p], loc'[p])
  /\ up' = up /\ pod' = pod
  /\ loc[p].failed \subseteq loc'[p].failed
  /\ \/ /\ up /\ acc /\ net' = eff /\ pc'[p] = next
     \/ /\ net' = net /\ pc'[p] = onErr
        /\ loc[p].alone /\ logged => net' = eff \/ at \in loc'[p].failed
LEMMA CallMade ==
  ASSUME TypeOK, NEW p \in Procs, NEW at, NEW acc, NEW eff, NEW next, NEW onErr,
         NEW logged \in BOOLEAN,
         Call(p, at, acc, eff, next, onErr, logged)
  PROVE  Made(p, at, acc, eff, next, onErr, logged)
<1>0. loc[p] \in Locals
  BY Zenon DEF TypeOK
<1>u. up' = up /\ pod' = pod
  BY Zenon DEF Call, envVars, rtVars
<1>1. CASE up /\ acc /\ net' = eff /\ Goto(p, next) /\ UNCHANGED loc
  BY <1>u, <1>1, Zenon DEF Call, Made, Goto, Same, Kept, TypeOK
<1>2. CASE /\ Goto(p, onErr) /\ UNCHANGED net
           /\ loc' = [loc EXCEPT ![p] = Failed(@, at, logged /\ eff # net)]
  <2> DEFINE b == logged /\ eff # net
  <2>1. loc'[p] = Failed(loc[p], at, b) /\ pc'[p] = onErr /\ pc[p] = at
    BY <1>2, Zenon DEF Call, Goto, TypeOK
  <2>2. at \in PCs /\ b \in BOOLEAN
    BY <2>1, Zenon DEF TypeOK
  <2>b. logged => eff = net \/ b
    OBVIOUS
  <2> HIDE DEF b
  <2>3. /\ SameBut(loc[p], loc'[p]) /\ loc[p].failed \subseteq loc'[p].failed
        /\ loc[p].alone /\ b => at \in loc'[p].failed
    BY <1>0, <2>1, <2>2, FailedIs, Zenon
  <2>4. Same(loc[p], loc'[p]) /\ loc'[p].res = loc[p].res
    BY <2>3, Zenon DEF SameBut, Same, Kept
  <2> QED
    BY <1>u, <1>2, <2>1, <2>3, <2>4, <2>b, Zenon DEF Made
<1> QED
  BY <1>1, <1>2, Zenon DEF Call

-----------------------------------------------------------------------------
(* What a step of the system can be for one process: a step of its own;    *)
(* its start; its end, or the loss of being alone; another owner's change; *)
(* the end of the namespace; or nothing that concerns it.                  *)
Gone(p) == pc'[p] = "idle" \/ ~loc'[p].alone
Begins(p) ==
  /\ pc'[p] = "parse" /\ net' = net
  /\ loc'[p].conf = conflist /\ loc'[p].res = "none"
  /\ ~loc'[p].raced
  /\ loc'[p].fresh => Clean(net, conflist)
  /\ loc'[p].cmd = "CHECK" => pod' = "running"
Rests(p) ==
  /\ pc'[p] = pc[p] /\ loc'[p] = loc[p] /\ net' = net /\ up' = up
  /\ pod' # pod => pod' = "running"
Raced(p) ==
  /\ pc'[p] = pc[p] /\ up' = up /\ pod' = pod
  /\ Kept(loc[p], loc'[p]) /\ loc'[p].raced
  /\ loc'[p].mac = loc[p].mac /\ loc'[p].mtu = loc[p].mtu
  /\ loc'[p].res = loc[p].res /\ loc'[p].failed = loc[p].failed
  /\ net'.addrs = net.addrs /\ net'.neigh = net.neigh /\ net'.hosts = net.hosts
  /\ net'.qdisc = net.qdisc /\ net'.filters = net.filters
  /\ net'.def # net.def => /\ net.def = Nil \/ net.def.gw \in OtherGateways
                           /\ net'.def = Nil \/ net'.def.gw \in OtherGateways
TornDown(p) ==
  /\ pc'[p] = pc[p] /\ loc'[p] = loc[p]
  /\ net' = EmptyNetns /\ ~up' /\ pod = "stopping" /\ pod' = pod

(* Every step of a process is framed. *)
LEMMA StepFrames ==
  ASSUME InstalledInv, NEW p \in Procs, Step(p)
  PROVE  Framed(p)
<1>1. TypeOK /\ StepOfCmd /\ InstalledSoFar(p)
  BY Zenon DEF InstalledInv, Progress
<1> QED
  BY <1>1, ReadStep, InstallStep, UndoStep, Zenon DEF Step

(* Whoever is alone meets nothing else: no other process takes a step. *)
LEMMA View ==
  ASSUME InstalledInv, NEW p \in Procs, Running(p)', [Next]_vars
  PROVE  Step(p) \/ Gone(p) \/ Begins(p) \/ Rests(p) \/ Raced(p) \/ TornDown(p)
<1> USE DEF InstalledInv
<1>0. loc[p] \in Locals /\ pc \in [Procs -> PCs] /\ loc \in [Procs -> Locals]
  BY Zenon DEF TypeOK
<1>b. ~Blank.alone
  BY BlankType, Zenon
<1>1. ASSUME NEW q \in Procs, q # p, Step(q) PROVE Gone(p)
  <2>1. Framed(q)
    BY <1>1, StepFrames, Zenon
  <2> QED
    BY <1>1, <2>1, Zenon DEF Framed, Solo, Gone
<1>2. ASSUME NEW q \in Procs, Return(q) PROVE Gone(p) \/ Rests(p)
  <2>1. /\ pc' = [pc EXCEPT ![q] = "idle"] /\ loc' = [loc EXCEPT ![q] = Blank]
        /\ net' = net /\ up' = up
        /\ pod' # pod => pod' = "running"
    BY <1>2, Zenon DEF Return, Goto, envVars
  <2>2. CASE q = p
    BY <1>0, <2>1, <2>2, Zenon DEF Gone
  <2>3. CASE q # p
    BY <1>0, <2>1, <2>3, Zenon DEF Rests
  <2> QED
    BY <2>2, <2>3, Zenon
<1>3. ASSUME NEW q \in Procs, Kill(q) PROVE Gone(p) \/ Rests(p)
  <2>1. /\ pc' = [pc EXCEPT ![q] = "idle"] /\ loc' = [loc EXCEPT ![q] = Blank]
        /\ net' = net /\ up' = up /\ pod' = pod
    BY <1>3, Zenon DEF Kill, Goto, envVars
  <2>2. CASE q = p
    BY <1>0, <2>1, <2>2, Zenon DEF Gone
  <2>3. CASE q # p
    BY <1>0, <2>1, <2>3, Zenon DEF Rests
  <2> QED
    BY <2>2, <2>3, Zenon
<1>4. ASSUME NEW q \in Procs, NEW cmd \in Cmds, Start(q, cmd) PROVE Gone(p) \/ Begins(p)
  <2>1. CASE q = p
    <3> DEFINE l == NewLocals(cmd, conflist, bin, Blank.mac, Blank.mtu,
                              \A r \in Procs \ {p} : ~Running(r), Clean(net, conflist))
    <3>1. /\ l.cmd = cmd /\ l.conf = conflist /\ l.res = "none" /\ ~l.raced
          /\ l.fresh = Clean(net, conflist)
      BY Zenon DEF NewLocals
    <3>2. /\ loc'[p] = l /\ pc'[p] = "parse" /\ net' = net
          /\ cmd = "CHECK" => pod' = "running"
      BY <1>0, <1>4, <2>1, Zenon DEF Start, Goto
    <3> HIDE DEF l
    <3> QED
      BY <3>1, <3>2, Zenon DEF Begins
  <2>2. CASE q # p
    <3>1. loc'[p] = [loc[p] EXCEPT !.alone = FALSE, !.failed = {}]
      BY <1>0, <1>4, <2>2, Zenon DEF Start
    <3>2. ~loc'[p].alone
      BY <1>0, <3>1, Zenon DEF Locals
    <3> QED
      BY <3>2, Zenon DEF Gone
  <2> QED
    BY <2>1, <2>2, Zenon
<1>5. CASE Orphan \/ LinkChange \/ Reconfigure \/ Upgrade \/ UNCHANGED vars
  BY <1>5, Zenon DEF Orphan, LinkChange, Reconfigure, Upgrade, vars, envVars, rtVars, Rests
<1>6. CASE Foreigner
  <2>1. /\ UNCHANGED <<up, pod, pc>>
        /\ loc'[p] = IF Running(p) THEN [loc[p] EXCEPT !.raced = TRUE] ELSE loc[p]
    BY <1>6, Zenon DEF Foreigner, envVars, rtVars
  <2>2. /\ net'.addrs = net.addrs /\ net'.neigh = net.neigh /\ net'.hosts = net.hosts
        /\ net'.qdisc = net.qdisc /\ net'.filters = net.filters
        /\ net'.def # net.def => /\ net.def = Nil \/ net.def.gw \in OtherGateways
                                 /\ net'.def = Nil \/ net'.def.gw \in OtherGateways
    BY <1>6, Zenon DEF Foreigner, TypeOK, Netns
  <2>3. Running(p)
    BY <2>1, Zenon DEF Running
  <2>4. loc'[p] = [loc[p] EXCEPT !.raced = TRUE]
    BY <2>1, <2>3, Zenon
  <2>5. Kept(loc[p], loc'[p]) /\ loc'[p].raced
    BY <1>0, <2>4, Zenon DEF Locals, Kept
  <2>6. /\ loc'[p].mac = loc[p].mac /\ loc'[p].mtu = loc[p].mtu
        /\ loc'[p].res = loc[p].res /\ loc'[p].failed = loc[p].failed
    BY <1>0, <2>4, Zenon DEF Locals
  <2> QED
    BY <2>1, <2>2, <2>5, <2>6, Zenon DEF Raced
<1>7. CASE RemoveNetns
  BY <1>7, Zenon DEF RemoveNetns, rtVars, TornDown
<1> QED
  BY <1>1, <1>2, <1>3, <1>4, <1>5, <1>6, <1>7, Zenon DEF Next

-----------------------------------------------------------------------------
(* What each reading step can come to.                                     *)

Untouched == net' = net /\ up' = up /\ pod' = pod
Fails(p) ==
  /\ pc'[p] = "ret" /\ Same(loc[p], loc'[p])
  /\ loc[p].alone /\ loc[p].cmd = "CHECK" => loc'[p].failed # {}
  /\ loc'[p].res \in {"open", "error"}
  /\ loc[p].cmd # "ADD" => loc'[p].res = "error"
EndsWith(p, res) ==
  /\ pc'[p] = "ret" /\ Same(loc[p], loc'[p])
  /\ loc'[p].res = res
Goes(p, next) == pc'[p] = next /\ loc'[p] = loc[p]
Finds(p, next) ==
  /\ pc'[p] = next /\ Kept(loc[p], loc'[p]) /\ loc'[p].raced = loc[p].raced
  /\ loc'[p].mac = loc[p].mac /\ loc'[p].mtu = loc[p].mtu

(* ParseConfig and Decide. *)
LEMMA ParseDoes ==
  ASSUME TypeOK, NEW p \in Procs, Parse(p)
  PROVE  /\ Untouched /\ pc[p] = "parse"
         /\ \/ ~loc[p].conf.valid /\ EndsWith(p, "error")
            \/ loc[p].cmd = "ADD" /\ EndsWith(p, "skipped")
            \/ loc[p].cmd = "CHECK" /\ EndsWith(p, "passed")
            \/ loc[p].cmd # "DEL" /\ loc[p].conf.gets /\ Goes(p, "insp_addrs")
            \/ loc[p].cmd = "DEL" /\ Goes(p, "enter")
<1>0. loc[p] \in Locals /\ loc[p].cmd \in Cmds
  BY Zenon DEF TypeOK, Locals
<1>1. Untouched /\ pc[p] = "parse"
  BY Zenon DEF Parse, Untouched, envVars, rtVars
<1>2. ASSUME NEW next, Goto(p, next), UNCHANGED loc PROVE Goes(p, next)
  BY <1>2, Zenon DEF Goto, Goes, TypeOK
<1>3. ASSUME NEW res, Finish(p, loc[p], res) PROVE EndsWith(p, res)
  BY <1>0, <1>3, Ends, Zenon DEF EndsWith
<1> QED
  BY <1>0, <1>1, <1>2, <1>3, Zenon DEF Parse, Cmds

(* InspectIPv4's two reads. *)
LEMMA InspectAddrsDoes ==
  ASSUME TypeOK, NEW p \in Procs, InspectAddrs(p)
  PROVE  /\ Untouched /\ pc[p] = "insp_addrs"
         /\ \/ Fails(p)
            \/ /\ Finds(p, "insp_routes")
               /\ loc'[p].ours = OurAddr(net, loc[p].conf)
               /\ loc'[p].foreign = ForeignAddr(net, loc[p].conf)
<1>0. loc[p] \in Locals
  BY Zenon DEF TypeOK
<1>1. Untouched /\ pc[p] = "insp_addrs"
  BY Zenon DEF InspectAddrs, Untouched, envVars, rtVars
<1>2. CASE ReadFails(p)
  BY <1>1, <1>2, ReadEnds, Zenon DEF Fails
<1>3. CASE ~ReadFails(p)
  <2>1. /\ pc'[p] = "insp_routes"
        /\ loc'[p] = [loc[p] EXCEPT !.ours = OurAddr(net, loc[p].conf),
                                    !.foreign = ForeignAddr(net, loc[p].conf)]
    BY <1>3, Zenon DEF InspectAddrs, Goto, TypeOK
  <2> QED
    BY <1>0, <1>1, <2>1, Zenon DEF Finds, Kept, Locals
<1> QED
  BY <1>2, <1>3, Zenon

LEMMA InspectRoutesDoes ==
  ASSUME TypeOK, NEW p \in Procs, InspectRoutes(p)
  PROVE  LET own == OurRoute(net, loc[p].conf)
             other == loc[p].foreign \/ ForeignRoute(net, loc[p].conf)
         IN  /\ Untouched /\ pc[p] = "insp_routes"
             /\ \/ Fails(p)
                \/ loc[p].cmd = "ADD" /\ Finds(p, "ret") /\ loc'[p].res = "skipped"
                \/ loc[p].cmd = "ADD" /\ ~other /\ Finds(p, "prepare")
                \/ /\ loc[p].cmd # "ADD" /\ Finds(p, "filters")
                   /\ ~loc'[p].foreign => ~other /\ (loc'[p].ours <=> loc[p].ours \/ own)
<1> DEFINE l == loc[p]
           own == OurRoute(net, l.conf)
           other == l.foreign \/ ForeignRoute(net, l.conf)
<1>0. loc[p] \in Locals /\ net \in Netns
  BY Zenon DEF TypeOK
<1>1. Untouched /\ pc[p] = "insp_routes"
  BY Zenon DEF InspectRoutes, Untouched, envVars, rtVars
<1>2. CASE ReadFails(p)
  BY <1>1, <1>2, ReadEnds, Zenon DEF Fails
<1>3. CASE ~ReadFails(p)
  <2>1. PICK named \in BOOLEAN :
          \/ l.cmd = "ADD" /\ Finish(p, SeenRoutes(l, named), "skipped")
          \/ /\ ~(l.cmd = "ADD" /\ SeenRoutes(l, named).foreign)
             /\ Goto(p, IF l.cmd = "ADD" THEN "prepare" ELSE "filters")
             /\ loc' = [loc EXCEPT ![p] = SeenRoutes(l, named)]
    BY <1>3, Zenon DEF InspectRoutes
  <2> DEFINE seen == SeenRoutes(l, named)
  <2>2. /\ seen \in Locals /\ Kept(l, seen) /\ seen.raced = l.raced
        /\ seen.mac = l.mac /\ seen.mtu = l.mtu
    BY <1>0, SeenRoutesIs, Zenon DEF Kept
  <2>3. /\ seen.ours = (l.ours \/ (own /\ named))
        /\ seen.foreign = (l.foreign \/ ForeignRoute(net, l.conf) \/ (own /\ ~named))
    BY <1>0, Zenon DEF SeenRoutes, Locals
  <2>4. ~seen.foreign => ~other /\ (seen.ours <=> l.ours \/ own)
    BY <2>3, Zenon
  <2> HIDE DEF seen, own, other
  <2>5. CASE l.cmd = "ADD" /\ Finish(p, seen, "skipped")
    <3>1. pc'[p] = "ret" /\ loc'[p].res = "skipped" /\ Same(seen, loc'[p])
      BY <2>2, <2>5, Ends, Zenon
    <3>2. Finds(p, "ret")
      BY <2>2, <3>1, Zenon DEF Same, Kept, Finds
    <3> QED
      BY <1>1, <2>5, <3>1, <3>2, Zenon
  <2>6. CASE /\ ~(l.cmd = "ADD" /\ seen.foreign)
             /\ Goto(p, IF l.cmd = "ADD" THEN "prepare" ELSE "filters")
             /\ loc' = [loc EXCEPT ![p] = seen]
    <3>1. /\ loc'[p] = seen
          /\ l.cmd = "ADD" => pc'[p] = "prepare"
          /\ l.cmd # "ADD" => pc'[p] = "filters"
      BY <2>6, Zenon DEF Goto, TypeOK
    <3>2. CASE l.cmd = "ADD"
      <4>1. Finds(p, "prepare") /\ ~other
        BY <2>2, <2>4, <2>6, <3>1, <3>2, Zenon DEF Finds
      <4> QED
        BY <1>1, <3>2, <4>1, Zenon DEF other
    <3>3. CASE l.cmd # "ADD"
      <4>1. /\ Finds(p, "filters")
            /\ ~loc'[p].foreign => ~other /\ (loc'[p].ours <=> l.ours \/ own)
        BY <2>2, <2>4, <3>1, <3>3, Zenon DEF Finds
      <4> QED
        BY <1>1, <3>3, <4>1, Zenon DEF other, own
    <3> QED
      BY <3>2, <3>3, Zenon
  <2> QED
    BY <2>1, <2>5, <2>6, Zenon DEF seen
<1> QED
  BY <1>2, <1>3, Zenon

(* CHECK's decision whether there is a CLAT to verify. *)
LEMMA ListAttachedDoes ==
  ASSUME TypeOK, NEW p \in Procs, ListAttached(p)
  PROVE  LET none == ~loc[p].ours /\ \A h \in Hooks : net.filters[h] = Nil
         IN  /\ Untouched /\ pc[p] = "filters"
             /\ \/ Fails(p)
                \/ EndsWith(p, "passed")
                \/ ~loc[p].foreign /\ none /\ ~loc[p].conf.failOpen /\ EndsWith(p, "error")
                \/ ~loc[p].foreign /\ ~none /\ Goes(p, "prepare")
<1>0. loc[p] \in Locals
  BY Zenon DEF TypeOK
<1>1. Untouched /\ pc[p] = "filters"
  BY Zenon DEF ListAttached, Untouched, envVars, rtVars
<1>2. CASE ReadFails(p)
  BY <1>1, <1>2, ReadEnds, Zenon DEF Fails
<1>3. ASSUME NEW res, Finish(p, loc[p], res) PROVE EndsWith(p, res)
  BY <1>0, <1>3, Ends, Zenon DEF EndsWith
<1>4. ASSUME Goto(p, "prepare"), UNCHANGED loc PROVE Goes(p, "prepare")
  BY <1>4, Zenon DEF Goto, Goes, TypeOK
<1> QED
  BY <1>1, <1>2, <1>3, <1>4, Zenon DEF ListAttached, NoClatResult

(* inspectPodLink, peerMAC and Load. *)
LEMMA PrepareDoes ==
  ASSUME TypeOK, NEW p \in Procs, Prepare(p)
  PROVE  /\ Untouched /\ pc[p] = "prepare"
         /\ \/ Fails(p)
            \/ /\ pc'[p] = "enter" /\ Kept(loc[p], loc'[p]) /\ loc'[p].raced = loc[p].raced
               /\ loc'[p].mtu = loc[p].mtu
<1>0. loc[p] \in Locals
  BY Zenon DEF TypeOK
<1>1. Untouched /\ pc[p] = "prepare"
  BY Zenon DEF Prepare, Untouched, envVars, rtVars
<1>2. CASE ReadFails(p)
  BY <1>1, <1>2, ReadEnds, Zenon DEF Fails
<1>3. CASE ~ReadFails(p)
  <2>1. PICK m : loc' = [loc EXCEPT ![p] = [loc[p] EXCEPT !.mac = m]]
    BY <1>3, Zenon DEF Prepare
  <2>2. pc'[p] = "enter" /\ loc'[p] = [loc[p] EXCEPT !.mac = m]
    BY <1>3, <2>1, Zenon DEF Prepare, Goto, TypeOK
  <2> QED
    BY <1>0, <1>1, <2>2, Zenon DEF Kept, Locals
<1> QED
  BY <1>2, <1>3, Zenon

(* WithNetNSPath and LinkByName. *)
LEMMA EnterDoes ==
  ASSUME TypeOK, NEW p \in Procs, Enter(p)
  PROVE  /\ Untouched /\ pc[p] = "enter"
         /\ \/ loc[p].cmd # "DEL" /\ Fails(p)
            \/ /\ loc[p].cmd = "DEL"
               /\ pc'[p] = "ret" /\ Kept(loc[p], loc'[p])
               /\ loc[p].alone => "enter" \in loc'[p].failed
            \/ /\ \/ loc[p].cmd = "ADD" /\ pc'[p] = "addr"
                  \/ loc[p].cmd = "CHECK" /\ pc'[p] = "check_addr"
                  \/ loc[p].cmd = "DEL" /\ pc'[p] = "list_egress"
               /\ Kept(loc[p], loc'[p]) /\ loc'[p].raced = loc[p].raced
<1>0. loc[p] \in Locals /\ loc[p].cmd \in Cmds
  BY Zenon DEF TypeOK, Locals
<1>1. Untouched /\ pc[p] = "enter"
  BY Zenon DEF Enter, Untouched, envVars, rtVars
<1>2. CASE loc[p].cmd # "DEL" /\ ReadFails(p)
  BY <1>1, <1>2, ReadEnds, Zenon DEF Fails
<1>3. CASE loc[p].cmd = "DEL" /\ Finish(p, Failed(loc[p], "enter", TRUE), "deleted")
  <2> DEFINE l == Failed(loc[p], "enter", TRUE)
  <2>0. "enter" \in PCs /\ TRUE \in BOOLEAN
    BY PCsAre
  <2>1. l \in Locals /\ Kept(loc[p], l) /\ (loc[p].alone => "enter" \in l.failed)
    BY <1>0, <2>0, FailedIs, Zenon DEF SameBut, Kept
  <2>2. loc[p].cmd = "DEL" /\ Finish(p, l, "deleted")
    BY <1>3, Zenon
  <2> HIDE DEF l
  <2>3. pc'[p] = "ret" /\ loc'[p].failed = l.failed /\ Same(l, loc'[p])
    BY <2>1, <2>2, Ends, Zenon
  <2> QED
    BY <1>1, <2>1, <2>2, <2>3, Zenon DEF Same, Kept
<1>4. CASE /\ loc' = [loc EXCEPT ![p].mtu = link.mtu]
           /\ Goto(p, CASE loc[p].cmd = "ADD" -> "addr"
                        [] loc[p].cmd = "CHECK" -> "check_addr"
                        [] loc[p].cmd = "DEL" -> DelEntry)
  <2>1. loc'[p] = [loc[p] EXCEPT !.mtu = link.mtu]
    BY <1>4, Zenon DEF TypeOK
  <2>2. \/ loc[p].cmd = "ADD" /\ pc'[p] = "addr"
        \/ loc[p].cmd = "CHECK" /\ pc'[p] = "check_addr"
        \/ loc[p].cmd = "DEL" /\ pc'[p] = "list_egress"
    BY <1>0, <1>4, Zenon DEF Goto, TypeOK, Cmds, DelEntry
  <2>3. Kept(loc[p], loc'[p]) /\ loc'[p].raced = loc[p].raced
    BY <1>0, <2>1, Zenon DEF Kept, Locals
  <2> QED
    BY <1>1, <2>2, <2>3, Zenon
<1> QED
  BY <1>2, <1>3, <1>4, Zenon DEF Enter

(* CheckIPv4's reads and CheckAttached. *)
LEMMA CheckDoes ==
  ASSUME TypeOK, NEW p \in Procs, loc[p].cmd # "ADD", NEW at, NEW ok, NEW next,
         Check(p, at, ok, next)
  PROVE  /\ Untouched /\ pc[p] = at
         /\ Fails(p) \/ (ok /\ Goes(p, next)) \/ (~ok /\ EndsWith(p, "error"))
<1>0. loc[p] \in Locals
  BY Zenon DEF TypeOK
<1>1. Untouched /\ pc[p] = at
  BY Zenon DEF Check, Untouched, envVars, rtVars
<1>2. CASE ReadFails(p)
  BY <1>1, <1>2, ReadEnds, Zenon DEF Fails
<1>3. CASE ~ok /\ Abort(p, loc[p])
  <2>1. Finish(p, loc[p], "error")
    BY <1>3, Zenon DEF Abort
  <2> QED
    BY <1>0, <1>1, <1>3, <2>1, Ends, Zenon DEF EndsWith
<1>4. CASE ok /\ Goto(p, next) /\ UNCHANGED loc
  BY <1>1, <1>4, Zenon DEF Goto, Goes, TypeOK
<1> QED
  BY <1>2, <1>3, <1>4, Zenon DEF Check

LEMMA CheckAttachedDoes ==
  ASSUME TypeOK, NEW p \in Procs, CheckAttached(p)
  PROVE  /\ Untouched /\ pc[p] = "check_filters"
         /\ \/ Fails(p)
            \/ FiltersOK(net, loc[p].ver) /\ EndsWith(p, "verified")
            \/ ~FiltersOK(net, loc[p].ver) /\ EndsWith(p, "error")
<1>0. loc[p] \in Locals
  BY Zenon DEF TypeOK
<1>1. Untouched /\ pc[p] = "check_filters"
  BY Zenon DEF CheckAttached, Untouched, envVars, rtVars
<1>2. CASE ReadFails(p)
  BY <1>1, <1>2, ReadEnds, Zenon DEF Fails
<1>3. ASSUME NEW res, Finish(p, loc[p], res) PROVE EndsWith(p, res)
  BY <1>0, <1>3, Ends, Zenon DEF EndsWith
<1> QED
  BY <1>1, <1>2, <1>3, Zenon DEF CheckAttached

-----------------------------------------------------------------------------
(* What each writing step can come to.                                     *)

(* install. *)
LEMMA InstallDoes ==
  ASSUME TypeOK, NEW p \in Procs
  PROVE  LET c == loc[p].conf
             r == DefaultRoute(c, loc[p].mtu)
             f == Program(c, loc[p].ver)
         IN  /\ AddAddr(p)
                  => Made(p, "addr", TRUE, AddrReplace(net, c.pod4), "neigh", "def_del", FALSE)
             /\ AddNeigh(p)
                  => Made(p, "neigh", TRUE, NeighSet(net, c.gw, loc[p].mac),
                          "host", "def_del", FALSE)
             /\ AddHost(p)
                  => Made(p, "host", TRUE, HostReplace(net, c.gw), "def", "def_del", FALSE)
             /\ AddDef(p)
                  => Made(p, "def", DefAccepted(net, r), DefReplace(net, r),
                          "qdisc", "def_del", FALSE)
             /\ AddQdisc(p)
                  => Made(p, "qdisc", TRUE, QdiscAdd(net),
                          "attach_egress", "list_egress", FALSE)
             /\ AttachEgress(p)
                  => Made(p, "attach_egress", net.qdisc, FilterReplace(net, "egress", f),
                          "attach_ingress", "list_egress", FALSE)
BY CallMade, Zenon
   DEF AddAddr, AddNeigh, AddHost, AddDef, AddQdisc, AttachEgress,
       AfterConfigureError, AfterAttachError

LEMMA AttachIngressDoes ==
  ASSUME TypeOK, NEW p \in Procs, AttachIngress(p)
  PROVE  /\ pc[p] = "attach_ingress" /\ up' = up /\ pod' = pod
         /\ \/ /\ net.qdisc /\ EndsWith(p, "installed")
               /\ net' = FilterReplace(net, "ingress", Program(loc[p].conf, loc[p].ver))
            \/ net' = net /\ Goes(p, "list_egress")
<1>0. loc[p] \in Locals
  BY Zenon DEF TypeOK
<1>1. pc[p] = "attach_ingress" /\ up' = up /\ pod' = pod
  BY Zenon DEF AttachIngress, envVars, rtVars
<1>2. ASSUME Finish(p, loc[p], "installed") PROVE EndsWith(p, "installed")
  BY <1>0, <1>2, Ends, Zenon DEF EndsWith
<1>3. ASSUME Goto(p, "list_egress"), UNCHANGED loc PROVE Goes(p, "list_egress")
  BY <1>3, Zenon DEF Goto, Goes, TypeOK
<1> QED
  BY <1>1, <1>2, <1>3, Zenon DEF AttachIngress, AfterAttachError

(* Detach and RemoveIPv4. *)
LEMMA UndoDoes ==
  ASSUME TypeOK, NEW p \in Procs
  PROVE  LET c == loc[p].conf IN
         /\ DeleteQdisc(p)
              => Made(p, "qdisc_del", TRUE, QdiscDel(net), "def_del", "def_del", TRUE)
         /\ DeleteDef(p)
              => Made(p, "def_del", TRUE, DefDel(net, DefaultRoute(c, loc[p].mtu)),
                      "host_del", "host_del", TRUE)
         /\ DeleteHost(p)
              => Made(p, "host_del", TRUE, HostDel(net, c.gw), "neigh_del", "neigh_del", TRUE)
         /\ DeleteNeigh(p)
              => Made(p, "neigh_del", TRUE, NeighDel(net, c.gw), "addr_del", "addr_del", TRUE)
BY CallMade, Zenon DEF DeleteQdisc, DeleteDef, DeleteHost, DeleteNeigh

(* The steps of Detach before the qdisc touch filters only. *)
LEMMA FilterStepDoes ==
  ASSUME TypeOK, NEW p \in Procs, NEW h \in Hooks, ListFilter(p, h) \/ DeleteFilter(p, h)
  PROVE  /\ Same(loc[p], loc'[p]) /\ up' = up /\ pod' = pod
         /\ pc[p] \in DetachSteps /\ pc'[p] \in DetachSteps
         /\ net' = net \/ net' = FilterDel(net, h)
<1>1. /\ ListPC(h) \in DetachSteps /\ DelPC(h) \in DetachSteps /\ AfterHook(h) \in DetachSteps
  BY Zenon DEF ListPC, DelPC, AfterHook, DetachSteps
<1>2. CASE ListFilter(p, h)
  <2> DEFINE nx == IF net.filters[h] = Nil THEN AfterHook(h) ELSE DelPC(h)
  <2>1. nx \in DetachSteps
    BY <1>1, Zenon
  <2>2. Call(p, ListPC(h), TRUE, net, nx, AfterHook(h), TRUE)
    BY <1>2, Zenon DEF ListFilter
  <2> HIDE DEF nx
  <2>3. Made(p, ListPC(h), TRUE, net, nx, AfterHook(h), TRUE)
    BY <2>2, CallMade, Zenon
  <2> QED
    BY <1>1, <2>1, <2>3, Zenon DEF Made
<1>3. CASE DeleteFilter(p, h)
  <2>1. Made(p, DelPC(h), TRUE, FilterDel(net, h), AfterHook(h), AfterHook(h), TRUE)
    BY <1>3, CallMade, Zenon DEF DeleteFilter
  <2> QED
    BY <1>1, <2>1, Zenon DEF Made
<1> QED
  BY <1>2, <1>3, Zenon

LEMMA DeleteAddrDoes ==
  ASSUME TypeOK, NEW p \in Procs, DeleteAddr(p)
  PROVE  /\ pc[p] = "addr_del" /\ pc'[p] = "ret" /\ up' = up /\ pod' = pod
         /\ Same(loc[p], loc'[p])
         /\ loc[p].cmd = "ADD" => loc'[p].res \in {"open", "error"}
         /\ loc[p].cmd # "ADD" => loc'[p].res = "deleted"
         /\ loc[p].failed \subseteq loc'[p].failed
         /\ \/ net' = AddrDel(net, loc[p].conf.pod4)
            \/ /\ net' = net
               /\ loc[p].alone /\ loc[p].conf.pod4 \in net.addrs => "addr_del" \in loc'[p].failed
<1> DEFINE b == loc[p].conf.pod4 \in net.addrs
           l == Failed(loc[p], "addr_del", b)
           res == IF loc[p].cmd = "ADD" THEN failOrOpen(loc[p].conf) ELSE "deleted"
<1>p. "addr_del" \in PCs /\ b \in BOOLEAN /\ loc[p] \in Locals
  BY PCsAre DEF TypeOK
<1>0. /\ loc[p] \in Locals /\ l \in Locals /\ Same(loc[p], l)
      /\ loc[p].failed \subseteq l.failed
      /\ loc[p].alone /\ b => "addr_del" \in l.failed
  <2> HIDE DEF b
  <2>1. /\ l \in Locals /\ SameBut(loc[p], l) /\ loc[p].failed \subseteq l.failed
        /\ loc[p].alone /\ b => "addr_del" \in l.failed
    BY <1>p, FailedIs, Zenon
  <2> QED
    BY <1>p, <2>1, Zenon DEF SameBut, Same, Kept
<1>1. /\ pc[p] = "addr_del" /\ up' = up /\ pod' = pod
      /\ \/ net' = AddrDel(net, loc[p].conf.pod4) /\ Finish(p, loc[p], res)
         \/ net' = net /\ Finish(p, l, res)
  BY Zenon DEF DeleteAddr, envVars, rtVars
<1>2. /\ loc[p].cmd = "ADD" => res \in {"open", "error"}
      /\ loc[p].cmd # "ADD" => res = "deleted"
  BY Zenon DEF failOrOpen
<1> HIDE DEF l, res
<1>3. CASE net' = AddrDel(net, loc[p].conf.pod4) /\ Finish(p, loc[p], res)
  BY <1>0, <1>1, <1>2, <1>3, Ends, Zenon
<1>4. CASE net' = net /\ Finish(p, l, res)
  <2>1. pc'[p] = "ret" /\ loc'[p].res = res /\ loc'[p].failed = l.failed /\ Same(l, loc'[p])
    BY <1>0, <1>4, Ends, Zenon
  <2>2. Same(loc[p], loc'[p])
    BY <1>0, <2>1, Zenon DEF Same, Kept
  <2> QED
    BY <1>0, <1>1, <1>2, <1>4, <2>1, <2>2, Zenon
<1> QED
  BY <1>1, <1>3, <1>4, Zenon

-----------------------------------------------------------------------------
(* ADD's inspection.                                                       *)

(* What ADD itself installs is not foreign to its configuration. *)
LEMMA InstallIsOurs ==
  ASSUME NEW n \in Netns, NEW c \in Configs, NEW u \in Mtus, NEW m \in Macs, NEW v \in Versions,
         ~Foreign(n, c)
  PROVE  /\ ~Foreign(AddrReplace(n, c.pod4), c) /\ ~Foreign(NeighSet(n, c.gw, m), c)
         /\ ~Foreign(HostReplace(n, c.gw), c) /\ ~Foreign(DefReplace(n, DefaultRoute(c, u)), c)
         /\ ~Foreign(QdiscAdd(n), c)
         /\ \A h \in Hooks : ~Foreign(FilterReplace(n, h, Program(c, v)), c)
<1>1. DefaultRoute(c, u).gw = c.gw
  BY Zenon DEF DefaultRoute
<1>2. ~Foreign(AddrReplace(n, c.pod4), c)
  BY Zenon DEF Foreign, ForeignAddr, ForeignRoute, AddrReplace, Netns
<1>3. ~Foreign(NeighSet(n, c.gw, m), c) /\ ~Foreign(HostReplace(n, c.gw), c)
  BY Zenon DEF Foreign, ForeignAddr, ForeignRoute, NeighSet, HostReplace, Netns
<1>4. ~Foreign(DefReplace(n, DefaultRoute(c, u)), c)
  BY <1>1, Zenon DEF Foreign, ForeignAddr, ForeignRoute, DefReplace, Netns
<1>5. ~Foreign(QdiscAdd(n), c)
  BY Zenon DEF Foreign, ForeignAddr, ForeignRoute, QdiscAdd, Netns
<1>6. \A h \in Hooks : ~Foreign(FilterReplace(n, h, Program(c, v)), c)
  BY Zenon DEF Foreign, ForeignAddr, ForeignRoute, FilterReplace, Netns
<1> QED
  BY <1>2, <1>3, <1>4, <1>5, <1>6, Zenon

(* A step of the process keeps what its inspection found. *)
LEMMA InspectedStep ==
  ASSUME InstalledInv, NEW p \in Procs, InspectedSoFar(p), Step(p)
  PROVE  InspectedSoFar(p)'
<1>0. /\ TypeOK /\ StepOfCmd /\ net \in Netns /\ loc[p] \in Locals /\ loc[p].conf \in Configs
      /\ loc[p].mtu \in Mtus /\ loc[p].mac \in Macs /\ loc[p].ver \in Versions
  BY Zenon DEF InstalledInv, TypeOK, Locals
<1> USE DEF ConfigureSteps, AttachSteps
<1>1. CASE Parse(p)
  BY <1>0, <1>1, ParseDoes, Zenon DEF InspectedSoFar, EndsWith, Goes
<1>2. CASE InspectAddrs(p)
  <2>1. /\ net' = net
        /\ \/ pc'[p] = "ret"
           \/ /\ pc'[p] = "insp_routes" /\ loc'[p].conf = loc[p].conf
              /\ loc'[p].foreign = ForeignAddr(net, loc[p].conf)
    BY <1>0, <1>2, InspectAddrsDoes, Zenon DEF Untouched, Fails, Finds, Kept
  <2>2. CASE pc'[p] = "ret"
    BY <2>2, Zenon DEF InspectedSoFar
  <2>3. CASE /\ pc'[p] = "insp_routes" /\ loc'[p].conf = loc[p].conf
             /\ loc'[p].foreign = ForeignAddr(net, loc[p].conf)
    BY <2>1, <2>3, Zenon DEF InspectedSoFar
  <2> QED
    BY <2>1, <2>2, <2>3, Zenon
<1>3. CASE InspectRoutes(p)
  <2>1. CASE pc'[p] # "prepare"
    BY <1>0, <1>3, <2>1, InspectRoutesDoes, Zenon DEF InspectedSoFar, Fails, Finds
  <2>2. CASE pc'[p] = "prepare"
    <3>1. /\ pc[p] = "insp_routes" /\ loc[p].cmd = "ADD" /\ net' = net
          /\ Kept(loc[p], loc'[p]) /\ loc'[p].raced = loc[p].raced
          /\ ~(loc[p].foreign \/ ForeignRoute(net, loc[p].conf))
      BY <1>0, <1>3, <2>2, InspectRoutesDoes, Zenon DEF Untouched, Fails, Finds
    <3> QED
      BY <2>2, <3>1, Zenon DEF InspectedSoFar, Kept, Foreign
  <2> QED
    BY <2>1, <2>2, Zenon
<1>4. CASE ListAttached(p) \/ CheckAddr(p) \/ CheckNeigh(p) \/ CheckRoutes(p) \/ CheckAttached(p)
  <2>1. loc[p].cmd = "CHECK" /\ Framed(p)
    <3>1. pc[p] \in CheckSteps
      BY <1>4, Zenon DEF ListAttached, CheckAddr, CheckNeigh, CheckRoutes, CheckAttached, Check, CheckSteps
    <3> QED
      BY <1>0, <3>1, StepFrames, Zenon DEF StepOfCmd
  <2> QED
    BY <2>1, Zenon DEF InspectedSoFar, Framed
<1>5. CASE Prepare(p)
  BY <1>0, <1>5, PrepareDoes, Zenon DEF InspectedSoFar, Untouched, Fails, Kept
<1>6. CASE Enter(p)
  BY <1>0, <1>6, EnterDoes, Zenon DEF InspectedSoFar, Untouched, Fails, Kept
<1>7. CASE AddAddr(p) \/ AddNeigh(p) \/ AddHost(p) \/ AddDef(p) \/ AddQdisc(p) \/ AttachEgress(p)
  <2>1. /\ pc[p] \in ConfigureSteps \cup AttachSteps /\ pc'[p] # "insp_routes"
        /\ Same(loc[p], loc'[p])
        /\ \/ net' = net \/ net' = AddrReplace(net, loc[p].conf.pod4)
           \/ net' = NeighSet(net, loc[p].conf.gw, loc[p].mac)
           \/ net' = HostReplace(net, loc[p].conf.gw)
           \/ net' = DefReplace(net, DefaultRoute(loc[p].conf, loc[p].mtu))
           \/ net' = QdiscAdd(net)
           \/ net' = FilterReplace(net, "egress", Program(loc[p].conf, loc[p].ver))
    BY <1>0, <1>7, InstallDoes, Zenon DEF Made
  <2>2. ~Foreign(net, loc[p].conf) => ~Foreign(net', loc[p].conf)
    BY <1>0, <2>1, InstallIsOurs, Zenon DEF Hooks
  <2> QED
    BY <2>1, <2>2, Zenon DEF InspectedSoFar, Same, Kept
<1>8. CASE AttachIngress(p)
  BY <1>0, <1>8, AttachIngressDoes, Zenon DEF InspectedSoFar, EndsWith, Goes
<1>9. CASE \E h \in Hooks : ListFilter(p, h) \/ DeleteFilter(p, h)
  BY <1>0, <1>9, FilterStepDoes, Zenon DEF InspectedSoFar, DetachSteps
<1>10. CASE DeleteQdisc(p) \/ DeleteDef(p) \/ DeleteHost(p) \/ DeleteNeigh(p) \/ DeleteAddr(p)
  <2>1. pc'[p] \in RemoveSteps \cup {"ret"}
    BY <1>0, <1>10, UndoDoes, DeleteAddrDoes, Zenon DEF Made, RemoveSteps
  <2> QED
    BY <2>1, Zenon DEF InspectedSoFar, RemoveSteps
<1> QED
  BY <1>1, <1>2, <1>3, <1>4, <1>5, <1>6, <1>7, <1>8, <1>9, <1>10, Zenon DEF Step

(* ADD installs only next to no other IPv4 stack (InspectIPv4 in CmdAdd):  *)
(* from its inspection to its last step, an ADD that runs alone meets      *)
(* foreign addresses or default routes only if their owner came meanwhile. *)
THEOREM InspectionHolds == Spec => []NoSecondStack
<1>1. Init => InspectedInv
  <2>1. ~Blank.alone
    BY BlankType, Zenon
  <2> QED
    BY <2>1, Zenon DEF Init, InspectedInv, InspectedSoFar
<1>2. InstalledInv /\ InspectedInv /\ [Next]_vars => InspectedInv'
  <2> SUFFICES ASSUME InstalledInv, InspectedInv, [Next]_vars, NEW p \in Procs
               PROVE  InspectedSoFar(p)'
    BY Zenon DEF InspectedInv
  <2>0. InspectedSoFar(p) /\ EmptyNetns \in Netns
    BY Zenon DEF InspectedInv, EmptyNetns, Netns
  <2> USE DEF ConfigureSteps, AttachSteps
  <2>1. CASE ~Running(p)' \/ Gone(p)
    BY <2>1, Zenon DEF Running, Gone, InspectedSoFar
  <2>2. CASE Step(p)
    BY <2>0, <2>2, InspectedStep, Zenon
  <2>3. CASE Begins(p)
    BY <2>3, Zenon DEF Begins, InspectedSoFar
  <2>4. CASE Rests(p)
    BY <2>0, <2>4, Zenon DEF Rests, InspectedSoFar
  <2>5. CASE Raced(p)
    BY <2>5, Zenon DEF Raced, InspectedSoFar
  <2>6. CASE TornDown(p)
    <3>1. ~Foreign(net', loc[p].conf) /\ ~ForeignAddr(net', loc[p].conf)
      BY <2>6, Zenon DEF TornDown, Foreign, ForeignAddr, ForeignRoute, EmptyNetns
    <3> QED
      BY <2>6, <3>1, Zenon DEF TornDown, InspectedSoFar
  <2> QED
    BY <2>1, <2>2, <2>3, <2>4, <2>5, <2>6, View, Zenon
<1>3. InspectedInv => NoSecondStack
  BY Zenon DEF InspectedInv, InspectedSoFar, NoSecondStack
<1> QED
  BY <1>1, <1>2, <1>3, InstalledAlways, PTL DEF Spec

-----------------------------------------------------------------------------
(* Undo: DEL, and ADD when it fails.                                       *)

(* What each netlink call changes of a namespace, and what it leaves. *)
KeepsHooks(n, m) == m.qdisc = n.qdisc /\ m.filters = n.filters

LEMMA BareKept ==
  ASSUME NEW n, NEW m, KeepsHooks(n, m), Bare(n)
  PROVE  Bare(m)
BY Zenon DEF KeepsHooks, Bare

LEMMA AddrReplaceIs ==
  ASSUME NEW n \in Netns, NEW a, NEW m, m = AddrReplace(n, a)
  PROVE  KeepsHooks(n, m) /\ m.addrs = n.addrs \cup {a} /\ m.def = n.def
BY Zenon DEF AddrReplace, Netns, KeepsHooks

LEMMA NeighSetIs ==
  ASSUME NEW n \in Netns, NEW g \in Gateways, NEW mac, NEW m, m = NeighSet(n, g, mac)
  PROVE  KeepsHooks(n, m) /\ m.addrs = n.addrs /\ m.def = n.def
BY Zenon DEF NeighSet, Netns, KeepsHooks

LEMMA HostReplaceIs ==
  ASSUME NEW n \in Netns, NEW g, NEW m, m = HostReplace(n, g)
  PROVE  KeepsHooks(n, m) /\ m.addrs = n.addrs /\ m.def = n.def
BY Zenon DEF HostReplace, Netns, KeepsHooks

LEMMA DefReplaceIs ==
  ASSUME NEW n \in Netns, NEW r, NEW m, m = DefReplace(n, r)
  PROVE  KeepsHooks(n, m) /\ m.addrs = n.addrs /\ m.def = r
BY Zenon DEF DefReplace, Netns, KeepsHooks

LEMMA QdiscAddIs ==
  ASSUME NEW n \in Netns, NEW m, m = QdiscAdd(n)
  PROVE  m.qdisc /\ m.addrs = n.addrs /\ m.def = n.def
BY Zenon DEF QdiscAdd, Netns

LEMMA FilterReplaceIs ==
  ASSUME NEW n \in Netns, NEW h \in Hooks, NEW f, NEW m, m = FilterReplace(n, h, f)
  PROVE  m.addrs = n.addrs /\ m.def = n.def /\ m.qdisc = n.qdisc
BY Zenon DEF FilterReplace, Netns

LEMMA FilterDelIs ==
  ASSUME NEW n \in Netns, NEW h \in Hooks, NEW m, m = FilterDel(n, h)
  PROVE  /\ m.addrs = n.addrs /\ m.def = n.def /\ m.qdisc = n.qdisc
         /\ \A k \in Hooks : m.filters[k] \in {n.filters[k], Nil}
BY Zenon DEF FilterDel, Netns

LEMMA QdiscDelIs ==
  ASSUME NEW n \in Netns, NEW m, m = QdiscDel(n)
  PROVE  Bare(m) /\ m.addrs = n.addrs /\ m.def = n.def
BY Zenon DEF QdiscDel, Netns, Bare

LEMMA DefDelIs ==
  ASSUME NEW n \in Netns, NEW r \in Routes, NEW m, m = DefDel(n, r)
  PROVE  KeepsHooks(n, m) /\ m.addrs = n.addrs /\ m.def # r /\ m.def \in {n.def, Nil}
BY NetnsAssumption, Zenon DEF DefDel, Netns, KeepsHooks

LEMMA HostDelIs ==
  ASSUME NEW n \in Netns, NEW g, NEW m, m = HostDel(n, g)
  PROVE  KeepsHooks(n, m) /\ m.addrs = n.addrs /\ m.def = n.def /\ g \notin m.hosts
BY Zenon DEF HostDel, Netns, KeepsHooks

LEMMA NeighDelIs ==
  ASSUME NEW n \in Netns, NEW g \in Gateways, NEW m, m = NeighDel(n, g)
  PROVE  /\ KeepsHooks(n, m) /\ m.addrs = n.addrs /\ m.def = n.def
         /\ m.hosts = n.hosts /\ m.neigh[g] = Nil
BY Zenon DEF NeighDel, Netns, KeepsHooks

(* Removing the last address takes routes and neighbours along. *)
LEMMA AddrDelIs ==
  ASSUME NEW n \in Netns, NEW a, NEW m, m = AddrDel(n, a)
  PROVE  /\ KeepsHooks(n, m) /\ m.addrs = n.addrs \ {a} /\ m.def \in {n.def, Nil}
         /\ m.hosts \subseteq n.hosts
         /\ \A g \in Gateways : m.neigh[g] \in {n.neigh[g], Nil}
         /\ m.addrs = {} /\ n.addrs # {} => m.def = Nil
<1>1. CASE a \in n.addrs /\ n.addrs \ {a} = {}
  BY <1>1, Zenon DEF AddrDel, Netns, KeepsHooks
<1>2. CASE ~(a \in n.addrs /\ n.addrs \ {a} = {})
  BY <1>2, Zenon DEF AddrDel, Netns, KeepsHooks
<1> QED
  BY <1>1, <1>2, Zenon

(* A step of an ADD that started clean. *)
LEMMA FreshStep ==
  ASSUME InstalledInv, NEW p \in Procs, FreshSoFar(p), Step(p)
  PROVE  FreshSoFar(p)'
<1> DEFINE c == loc[p].conf
           r == DefaultRoute(c, loc[p].mtu)
<1>0. /\ TypeOK /\ StepOfCmd /\ net \in Netns /\ loc[p] \in Locals /\ c \in Configs
      /\ loc[p].mtu \in Mtus /\ loc[p].mac \in Macs /\ loc[p].ver \in Versions
  BY Zenon DEF InstalledInv, TypeOK, Locals
<1>1. c.gw \in Gateways /\ c.pod4 \in Addrs /\ r \in Routes /\ r # Nil
  BY <1>0, InstalledTypes, Zenon
<1> USE DEF ConfigureSteps
<1>2. CASE Parse(p)
  BY <1>0, <1>2, ParseDoes, Zenon DEF FreshSoFar, Untouched, EndsWith, Goes, Same, Kept, Running
<1>3. CASE InspectAddrs(p) \/ InspectRoutes(p)
  <2>1. /\ Untouched /\ pc[p] \in {"insp_addrs", "insp_routes"}
        /\ pc'[p] \in {"insp_routes", "prepare", "filters", "ret"}
        /\ Kept(loc[p], loc'[p]) /\ loc'[p].mtu = loc[p].mtu
    BY <1>0, <1>3, InspectAddrsDoes, InspectRoutesDoes, Zenon DEF Fails, Finds, Same
  <2> QED
    BY <2>1, Zenon DEF FreshSoFar, Untouched, Kept, Running
<1>4. CASE ListAttached(p) \/ CheckAddr(p) \/ CheckNeigh(p) \/ CheckRoutes(p) \/ CheckAttached(p)
  <2>1. pc[p] \in CheckSteps
    BY <1>4, Zenon DEF ListAttached, CheckAddr, CheckNeigh, CheckRoutes, CheckAttached, Check, CheckSteps
  <2>2. loc[p].cmd = "CHECK" /\ Framed(p)
    BY <1>0, <2>1, StepFrames, Zenon DEF StepOfCmd
  <2> QED
    BY <2>2, Zenon DEF FreshSoFar, Framed
<1>5. CASE Prepare(p)
  BY <1>0, <1>5, PrepareDoes, Zenon DEF FreshSoFar, Untouched, Fails, Same, Kept, Running
<1>6. CASE Enter(p)
  <2>1. CASE Fails(p)
    BY <1>0, <1>6, <2>1, EnterDoes, ZenonT(90) DEF FreshSoFar, Untouched, Fails, Same, Kept, Running
  <2>2. CASE ~Fails(p)
    <3>1. /\ Untouched /\ pc[p] = "enter" /\ pc'[p] \in {"addr", "check_addr", "list_egress", "ret"}
          /\ Kept(loc[p], loc'[p])
      BY <1>0, <1>6, <2>2, EnterDoes, Zenon
    <3>2. Clean(net, c) => Bare(net) /\ ~OurRoute(net, c)
      BY ZenonT(90) DEF Clean, Bare
    <3> QED
      BY <3>1, <3>2, Zenon DEF FreshSoFar, Untouched, Kept, Running
  <2> QED
    BY <2>1, <2>2, Zenon
<1>7. ASSUME Same(loc[p], loc'[p]), net'.def \in {net.def, r, Nil}, pc[p] # "idle",
             pc'[p] \notin {"parse", "insp_addrs", "insp_routes", "prepare", "enter"},
             pc'[p] \in ConfigureSteps => pc[p] \in ConfigureSteps /\ (Bare(net) => Bare(net'))
      PROVE  FreshSoFar(p)'
  BY <1>7, Zenon DEF FreshSoFar, Same, Kept, Running, OurRoute
<1>8. CASE AddAddr(p) \/ AddNeigh(p) \/ AddHost(p) \/ AddDef(p)
  <2>1. /\ Same(loc[p], loc'[p]) /\ pc[p] \in ConfigureSteps
        /\ pc'[p] \in {"neigh", "host", "def", "qdisc", "def_del"}
        /\ \/ net' = net \/ net' = AddrReplace(net, c.pod4)
           \/ net' = NeighSet(net, c.gw, loc[p].mac) \/ net' = HostReplace(net, c.gw)
           \/ net' = DefReplace(net, r)
    BY <1>0, <1>8, InstallDoes, Zenon DEF Made
  <2>2. net'.def \in {net.def, r} /\ (Bare(net) => Bare(net'))
    <3>0. net \in Netns /\ c.gw \in Gateways
      BY <1>0, <1>1, Zenon
    <3> HIDE DEF c, r
    <3>1. ASSUME KeepsHooks(net, net'), net'.def \in {net.def, r}
          PROVE  net'.def \in {net.def, r} /\ (Bare(net) => Bare(net'))
      BY <3>1, BareKept, Zenon
    <3>2. CASE net' = DefReplace(net, r)
      BY <3>0, <3>1, <3>2, DefReplaceIs, ZenonT(90)
    <3>3. CASE net' = AddrReplace(net, c.pod4)
      BY <3>0, <3>1, <3>3, AddrReplaceIs, ZenonT(90)
    <3>4. CASE net' = NeighSet(net, c.gw, loc[p].mac)
      <4>1. KeepsHooks(net, net') /\ net'.def = net.def
        BY <3>0, <3>4, NeighSetIs, SMTT(90)
      <4> QED
        BY <3>1, <4>1, Zenon
    <3>5. CASE net' = HostReplace(net, c.gw)
      BY <3>0, <3>1, <3>5, HostReplaceIs, ZenonT(90)
    <3> QED
      BY <2>1, <3>2, <3>3, <3>4, <3>5, Zenon
  <2> HIDE DEF c, r
  <2> QED
    BY <1>7, <2>1, <2>2, Zenon
<1>9. CASE AddQdisc(p) \/ AttachEgress(p) \/ AttachIngress(p)
  <2>1. /\ Same(loc[p], loc'[p]) /\ pc[p] # "idle"
        /\ pc'[p] \in {"attach_egress", "attach_ingress", "list_egress", "ret"}
        /\ \/ net' = net \/ net' = QdiscAdd(net)
           \/ \E h \in Hooks : net' = FilterReplace(net, h, Program(c, loc[p].ver))
    BY <1>0, <1>9, InstallDoes, AttachIngressDoes, ZenonT(90) DEF Made, EndsWith, Goes, Same, Kept, Hooks
  <2>2. net'.def = net.def
    <3>0. net \in Netns
      BY <1>0, Zenon
    <3>1. CASE net' = QdiscAdd(net)
      BY <3>0, <3>1, QdiscAddIs, ZenonT(90)
    <3>2. ASSUME NEW h \in Hooks, net' = FilterReplace(net, h, Program(c, loc[p].ver))
          PROVE  net'.def = net.def
      BY <3>0, <3>2, FilterReplaceIs, SMTT(90)
    <3> QED
      BY <2>1, <3>1, <3>2, Zenon
  <2> HIDE DEF c, r
  <2> QED
    BY <1>7, <2>1, <2>2, Zenon
<1>10. CASE \E h \in Hooks : ListFilter(p, h) \/ DeleteFilter(p, h)
  <2>1. PICK h \in Hooks : ListFilter(p, h) \/ DeleteFilter(p, h)
    BY <1>10, Zenon
  <2>2. net'.def = net.def
    <3>1. net' = net \/ net' = FilterDel(net, h)
      BY <1>0, <2>1, FilterStepDoes, Zenon
    <3> QED
      BY <1>0, <3>1, FilterDelIs, Zenon
  <2>3. Same(loc[p], loc'[p]) /\ pc[p] \in DetachSteps /\ pc'[p] \in DetachSteps
    BY <1>0, <2>1, FilterStepDoes, Zenon
  <2> HIDE DEF c, r
  <2> QED
    BY <1>7, <2>2, <2>3, Zenon DEF DetachSteps
<1>11. CASE DeleteQdisc(p) \/ DeleteDef(p) \/ DeleteHost(p) \/ DeleteNeigh(p) \/ DeleteAddr(p)
  <2>1. /\ Same(loc[p], loc'[p]) /\ pc[p] # "idle"
        /\ pc'[p] \in {"def_del", "host_del", "neigh_del", "addr_del", "ret"}
        /\ \/ net' = net \/ net' = QdiscDel(net) \/ net' = DefDel(net, r)
           \/ net' = HostDel(net, c.gw) \/ net' = NeighDel(net, c.gw)
           \/ net' = AddrDel(net, c.pod4)
    BY <1>0, <1>11, UndoDoes, DeleteAddrDoes, ZenonT(90) DEF Made
  <2>2. net'.def \in {net.def, Nil}
    <3>1. CASE net' = QdiscDel(net)
      BY <1>0, <3>1, QdiscDelIs, Zenon
    <3>2. CASE net' = DefDel(net, r)
      BY <1>0, <1>1, <3>2, DefDelIs, Zenon
    <3>3. CASE net' = HostDel(net, c.gw)
      BY <1>0, <3>3, HostDelIs, Zenon
    <3>4. CASE net' = NeighDel(net, c.gw)
      BY <1>0, <1>1, <3>4, NeighDelIs, Zenon
    <3>5. CASE net' = AddrDel(net, c.pod4)
      BY <1>0, <3>5, AddrDelIs, Zenon
    <3> HIDE DEF c, r
    <3> QED
      BY <2>1, <3>1, <3>2, <3>3, <3>4, <3>5, Zenon
  <2> HIDE DEF c, r
  <2> QED
    BY <1>7, <2>1, <2>2, Zenon
<1> QED
  BY <1>2, <1>3, <1>4, <1>5, <1>6, <1>8, <1>9, <1>10, <1>11, Zenon DEF Step
(* A step of DEL, or of an ADD that started clean: what it undoes is gone, *)
(* and what was gone stays so.                                             *)
LEMMA UndoneStep ==
  ASSUME InstalledInv, NEW p \in Procs, UndoneSoFar(p), FreshSoFar(p), Step(p)
  PROVE  UndoneSoFar(p)'
<1> DEFINE c == loc[p].conf
           r == DefaultRoute(c, loc[p].mtu)
           Heads == {"parse", "insp_addrs", "insp_routes", "prepare", "enter"}
<1>0. /\ TypeOK /\ StepOfCmd /\ net \in Netns /\ loc[p] \in Locals /\ c \in Configs
      /\ loc[p].mtu \in Mtus /\ loc[p].mac \in Macs /\ loc[p].ver \in Versions
  BY Zenon DEF InstalledInv, TypeOK, Locals
<1>1. c.gw \in Gateways /\ c.pod4 \in Addrs /\ r \in Routes /\ r # Nil /\ r.gw = c.gw
  BY <1>0, InstalledTypes, Zenon DEF DefaultRoute
<1> USE DEF RemoveSteps
<1>2. ASSUME pc'[p] \notin RemoveSteps \cup {"ret"} PROVE UndoneSoFar(p)'
  BY <1>2, Zenon DEF UndoneSoFar, Undone, Ended
<1>3. ASSUME pc'[p] = "ret", pc[p] \in Heads, Untouched, Same(loc[p], loc'[p]),
             loc[p].cmd # "ADD" => loc'[p].res # "deleted"
      PROVE  UndoneSoFar(p)'
  <2>1. CASE loc[p].cmd = "ADD" /\ loc[p].alone /\ loc[p].fresh
    <3>1. Clean(net, c)
      BY <1>3, <2>1, Zenon DEF FreshSoFar
    <3>2. /\ Bare(net) /\ net.def # r /\ c.gw \notin net.hosts /\ net.neigh[c.gw] = Nil
          /\ c.pod4 \notin net.addrs
      BY <1>1, <3>1, Zenon DEF Clean, Bare, OurAddr, OurRoute
    <3> QED
      BY <1>3, <3>2, Zenon DEF UndoneSoFar, Untouched, Same, Kept
  <2>2. CASE ~(loc[p].cmd = "ADD" /\ loc[p].alone /\ loc[p].fresh)
    BY <1>3, <2>2, Zenon DEF UndoneSoFar, Undone, Ended, Same, Kept
  <2> QED
    BY <2>1, <2>2, Zenon
<1>4. CASE Parse(p)
  BY <1>0, <1>2, <1>3, <1>4, ParseDoes, Zenon DEF EndsWith, Goes
<1>5. CASE InspectAddrs(p) \/ InspectRoutes(p)
  <2>1. \/ pc'[p] \in {"insp_routes", "prepare", "filters"}
        \/ /\ pc'[p] = "ret" /\ pc[p] \in Heads /\ Untouched /\ Same(loc[p], loc'[p])
           /\ loc[p].cmd # "ADD" => loc'[p].res # "deleted"
        \/ pc'[p] = "ret" /\ loc'[p].res = "skipped"
    BY <1>0, <1>5, InspectAddrsDoes, InspectRoutesDoes, Zenon DEF Fails, Finds
  <2> QED
    BY <1>2, <1>3, <2>1, Zenon DEF UndoneSoFar, Undone, Ended
<1>6. CASE ListAttached(p) \/ CheckAddr(p) \/ CheckNeigh(p) \/ CheckRoutes(p) \/ CheckAttached(p)
  <2>1. pc[p] \in CheckSteps
    BY <1>6, Zenon DEF ListAttached, CheckAddr, CheckNeigh, CheckRoutes, CheckAttached, Check, CheckSteps
  <2>2. loc'[p].cmd = "CHECK"
    BY <1>0, <2>1, StepFrames, Zenon DEF StepOfCmd, Framed
  <2>3. pc'[p] \notin RemoveSteps
    BY <1>0, <1>6, ReadStep, Zenon DEF CheckSteps
  <2> QED
    BY <2>2, <2>3, Zenon DEF UndoneSoFar, Undone, Ended
<1>7. CASE Prepare(p)
  BY <1>0, <1>2, <1>3, <1>7, PrepareDoes, Zenon DEF Fails
<1>8. CASE Enter(p)
  <2>1. CASE loc[p].cmd # "DEL" /\ Fails(p)
    BY <1>0, <1>3, <1>8, <2>1, EnterDoes, Zenon DEF Fails
  <2>2. CASE /\ pc'[p] = "ret" /\ Kept(loc[p], loc'[p])
             /\ loc[p].alone => "enter" \in loc'[p].failed
    BY <2>2, Zenon DEF UndoneSoFar, Missed, Kept
  <2> QED
    BY <1>0, <1>2, <1>8, <2>1, <2>2, EnterDoes, Zenon
<1>9. CASE AddAddr(p) \/ AddNeigh(p) \/ AddHost(p) \/ AddDef(p)
  <2>1. /\ Same(loc[p], loc'[p]) /\ pc[p] \in ConfigureSteps
        /\ pc'[p] \in {"neigh", "host", "def", "qdisc"} \/ (pc'[p] = "def_del" /\ net' = net)
    BY <1>0, <1>9, InstallDoes, Zenon DEF Made, ConfigureSteps
  <2>2. loc[p].cmd = "ADD"
    BY <1>0, <2>1, Zenon DEF StepOfCmd
  <2>3. CASE pc'[p] = "def_del" /\ net' = net
    BY <2>1, <2>2, <2>3, Zenon DEF UndoneSoFar, FreshSoFar, Undone, Ended, Same, Kept
  <2> QED
    BY <1>2, <2>1, <2>3, Zenon
<1>10. CASE AddQdisc(p) \/ AttachEgress(p)
  <2>1. pc'[p] \in {"attach_egress", "attach_ingress", "list_egress"}
    BY <1>0, <1>10, InstallDoes, Zenon DEF Made
  <2> QED
    BY <1>2, <2>1, Zenon
<1>11. CASE AttachIngress(p)
  BY <1>0, <1>11, AttachIngressDoes, Zenon DEF EndsWith, Goes, UndoneSoFar, Undone, Ended
<1>12. CASE \E h \in Hooks : ListFilter(p, h) \/ DeleteFilter(p, h)
  BY <1>0, <1>2, <1>12, FilterStepDoes, Zenon DEF DetachSteps
<1>13. ASSUME NEW at, NEW eff, NEW next, Made(p, at, TRUE, eff, next, next, TRUE)
       PROVE  /\ Same(loc[p], loc'[p]) /\ pc[p] = at /\ pc'[p] = next
              /\ loc[p].failed \subseteq loc'[p].failed
              /\ net' = eff \/ (net' = net /\ (loc[p].alone => at \in loc'[p].failed))
  BY <1>13, Zenon DEF Made
<1>14. CASE DeleteQdisc(p)
  <2>1. Made(p, "qdisc_del", TRUE, QdiscDel(net), "def_del", "def_del", TRUE)
    BY <1>0, <1>14, UndoDoes, Zenon
  <2>2. /\ pc'[p] = "def_del" /\ Same(loc[p], loc'[p])
        /\ net' = QdiscDel(net) \/ (loc[p].alone => "qdisc_del" \in loc'[p].failed)
    BY <1>13, <2>1, Zenon
  <2>3. Bare(QdiscDel(net))
    BY <1>0, QdiscDelIs, Zenon
  <2>4. loc'[p].alone => Bare(net') \/ "qdisc_del" \in loc'[p].failed
    BY <2>2, <2>3, Zenon DEF Same, Kept
  <2> QED
    BY <2>2, <2>4, Zenon DEF UndoneSoFar, Undone, Ended, Missed
<1>15. CASE DeleteDef(p)
  <2>1. Made(p, "def_del", TRUE, DefDel(net, r), "host_del", "host_del", TRUE)
    BY <1>0, <1>15, UndoDoes, Zenon
  <2> HIDE DEF r
  <2>2. /\ Same(loc[p], loc'[p]) /\ pc[p] = "def_del" /\ pc'[p] = "host_del"
        /\ loc[p].failed \subseteq loc'[p].failed
        /\ \/ net' = DefDel(net, r)
           \/ net' = net /\ (loc[p].alone => "def_del" \in loc'[p].failed)
    BY <1>13, <2>1, Zenon
  <2>3. /\ Bare(net) => Bare(net')
        /\ loc[p].alone => net'.def # r \/ "def_del" \in loc'[p].failed
    <3>1. CASE net' = DefDel(net, r)
      BY <1>0, <1>1, <3>1, BareKept, DefDelIs, Zenon
    <3>2. CASE net' = net /\ (loc[p].alone => "def_del" \in loc'[p].failed)
      BY <3>2, Zenon
    <3> QED
      BY <2>2, <3>1, <3>2, Zenon
  <2>4. DefaultRoute(c, loc'[p].mtu) = r
    BY <2>2, Zenon DEF r, Same
  <2> QED
    BY <2>2, <2>3, <2>4, Zenon DEF UndoneSoFar, Undone, Ended, Same, Kept, Missed
<1>16. CASE DeleteHost(p)
  <2>1. Made(p, "host_del", TRUE, HostDel(net, c.gw), "neigh_del", "neigh_del", TRUE)
    BY <1>0, <1>16, UndoDoes, Zenon
  <2>2. /\ Same(loc[p], loc'[p]) /\ pc[p] = "host_del" /\ pc'[p] = "neigh_del"
        /\ loc[p].failed \subseteq loc'[p].failed
        /\ \/ net' = HostDel(net, c.gw)
           \/ net' = net /\ (loc[p].alone => "host_del" \in loc'[p].failed)
    BY <1>13, <2>1, Zenon
  <2>3. /\ net'.def = net.def /\ (Bare(net) => Bare(net'))
        /\ loc[p].alone => c.gw \notin net'.hosts \/ "host_del" \in loc'[p].failed
    <3>1. CASE net' = HostDel(net, c.gw)
      <4>1. KeepsHooks(net, net') /\ net'.def = net.def /\ c.gw \notin net'.hosts
        BY <1>0, <3>1, HostDelIs, Zenon
      <4> QED
        BY <4>1, BareKept, Zenon
    <3>2. CASE net' = net /\ (loc[p].alone => "host_del" \in loc'[p].failed)
      BY <3>2, Zenon
    <3> QED
      BY <2>2, <3>1, <3>2, Zenon
  <2> QED
    BY <2>2, <2>3, Zenon DEF UndoneSoFar, Undone, Ended, Same, Kept, Missed
<1>17. CASE DeleteNeigh(p)
  <2>1. Made(p, "neigh_del", TRUE, NeighDel(net, c.gw), "addr_del", "addr_del", TRUE)
    BY <1>0, <1>17, UndoDoes, Zenon
  <2>2. /\ Same(loc[p], loc'[p]) /\ pc[p] = "neigh_del" /\ pc'[p] = "addr_del"
        /\ loc[p].failed \subseteq loc'[p].failed
        /\ \/ net' = NeighDel(net, c.gw)
           \/ net' = net /\ (loc[p].alone => "neigh_del" \in loc'[p].failed)
    BY <1>13, <2>1, Zenon
  <2>3. /\ net'.def = net.def /\ net'.hosts = net.hosts /\ (Bare(net) => Bare(net'))
        /\ loc[p].alone => net'.neigh[c.gw] = Nil \/ "neigh_del" \in loc'[p].failed
    <3>1. CASE net' = NeighDel(net, c.gw)
      <4>1. KeepsHooks(net, net') /\ net'.def = net.def /\ net'.hosts = net.hosts
            /\ net'.neigh[c.gw] = Nil
        BY <1>0, <1>1, <3>1, NeighDelIs, Zenon
      <4> QED
        BY <4>1, BareKept, Zenon
    <3>2. CASE net' = net /\ (loc[p].alone => "neigh_del" \in loc'[p].failed)
      BY <3>2, Zenon
    <3> QED
      BY <2>2, <3>1, <3>2, Zenon
  <2> QED
    BY <2>2, <2>3, Zenon DEF UndoneSoFar, Undone, Ended, Same, Kept, Missed
<1>18. CASE DeleteAddr(p)
  <2>1. /\ pc[p] = "addr_del" /\ pc'[p] = "ret" /\ Same(loc[p], loc'[p])
        /\ loc[p].failed \subseteq loc'[p].failed
        /\ \/ net' = AddrDel(net, c.pod4)
           \/ /\ net' = net
              /\ loc[p].alone /\ c.pod4 \in net.addrs => "addr_del" \in loc'[p].failed
    BY <1>0, <1>18, DeleteAddrDoes, Zenon
  <2>2. /\ net'.def \in {net.def, Nil} /\ net'.hosts \subseteq net.hosts
        /\ net'.neigh[c.gw] \in {net.neigh[c.gw], Nil}
        /\ Bare(net) => Bare(net')
        /\ loc[p].alone => c.pod4 \notin net'.addrs \/ "addr_del" \in loc'[p].failed
    <3>1. CASE net' = AddrDel(net, c.pod4)
      <4>1. /\ KeepsHooks(net, net') /\ net'.addrs = net.addrs \ {c.pod4}
            /\ net'.def \in {net.def, Nil} /\ net'.hosts \subseteq net.hosts
            /\ \A g \in Gateways : net'.neigh[g] \in {net.neigh[g], Nil}
        BY <1>0, <3>1, AddrDelIs, ZenonT(90)
      <4>2. Bare(net) => Bare(net')
        BY <4>1, BareKept, Zenon
      <4> QED
        BY <1>0, <1>1, <4>1, <4>2, Zenon
    <3>2. CASE /\ net' = net
               /\ loc[p].alone /\ c.pod4 \in net.addrs => "addr_del" \in loc'[p].failed
      BY <3>2, Zenon
    <3> QED
      BY <2>1, <3>1, <3>2, Zenon
  <2>3. DefaultRoute(c, loc'[p].mtu) = r
    BY <2>1, Zenon DEF Same
  <2> HIDE DEF r
  <2> QED
    BY <1>1, <2>1, <2>2, <2>3, Zenon DEF r, UndoneSoFar, Undone, Same, Kept, Missed
<1> QED
  BY <1>4, <1>5, <1>6, <1>7, <1>8, <1>9, <1>10, <1>11, <1>12, <1>14, <1>15, <1>16, <1>17,
     <1>18, Zenon DEF Step

(* No gateway of a configuration is another owner's; an empty namespace is clean. *)
LEMMA OwnGateway ==
  ASSUME NEW c \in Configs
  PROVE  c.gw \notin OtherGateways /\ Clean(EmptyNetns, c)
<1>1. c.gw \notin OtherGateways /\ c.gw \in Gateways
  BY PluginAssumption, Zenon DEF OtherGateways, Config
<1>2. /\ EmptyNetns.addrs = {} /\ EmptyNetns.neigh[c.gw] = Nil /\ EmptyNetns.hosts = {}
      /\ EmptyNetns.def = Nil /\ \A h \in Hooks : EmptyNetns.filters[h] = Nil
  BY <1>1, Zenon DEF EmptyNetns
<1>3. ~EmptyNetns.qdisc
  BY Zenon DEF EmptyNetns
<1> QED
  BY <1>1, <1>2, <1>3, Zenon DEF Clean, OurAddr, OurRoute

(* What undo has removed, and what a clean start left absent, stays away. *)
LEMMA UndoAlways == Spec => []UndoInv
<1>1. Init => UndoInv
  <2>1. ~Blank.alone
    BY BlankType, Zenon
  <2> QED
    BY <2>1, Zenon DEF Init, UndoInv, UndoneSoFar, FreshSoFar
<1>2. InstalledInv /\ UndoInv /\ [Next]_vars => UndoInv'
  <2> SUFFICES ASSUME InstalledInv, UndoInv, [Next]_vars, NEW p \in Procs
               PROVE  UndoneSoFar(p)' /\ FreshSoFar(p)'
    BY Zenon DEF UndoInv
  <2> DEFINE c == loc[p].conf
             r == DefaultRoute(c, loc[p].mtu)
  <2>0. UndoneSoFar(p) /\ FreshSoFar(p) /\ c \in Configs /\ conflist \in Configs
    BY Zenon DEF UndoInv, InstalledInv, TypeOK, Locals
  <2>r. r # Nil /\ r.gw = c.gw
    <3>1. loc[p].mtu \in Mtus /\ loc[p].ver \in Versions
      BY Zenon DEF InstalledInv, TypeOK, Locals
    <3> QED
      BY <2>0, <3>1, InstalledTypes, Zenon DEF DefaultRoute
  <2>1. CASE ~Running(p)' \/ Gone(p)
    BY <2>1, Zenon DEF Running, Gone, UndoneSoFar, FreshSoFar, Undone, Ended, RemoveSteps, ConfigureSteps
  <2>2. CASE Step(p)
    BY <2>0, <2>2, UndoneStep, FreshStep, Zenon
  <2>3. CASE Begins(p)
    <3>1. UndoneSoFar(p)'
      BY <2>3, Zenon DEF Begins, UndoneSoFar, Undone, Ended, RemoveSteps
    <3>2. FreshSoFar(p)'
      BY <2>3, Zenon DEF Begins, FreshSoFar, ConfigureSteps, Clean
    <3> QED
      BY <3>1, <3>2, Zenon
  <2>4. CASE Rests(p)
    BY <2>0, <2>4, Zenon DEF Rests, UndoneSoFar, FreshSoFar, Undone, Ended, Running, Missed
  <2>5. CASE Raced(p)
    <3>1. /\ Bare(net) => Bare(net')
          /\ Clean(net, c) => Clean(net', c)
          /\ OurRoute(net', c) => net'.def = net.def /\ OurRoute(net, c)
      BY <2>0, <2>5, OwnGateway, Zenon DEF Raced, Bare, Clean, OurAddr, OurRoute
    <3>2. net.def # r => net'.def # r
      <4> HIDE DEF r
      <4> QED
        BY <2>0, <2>r, <2>5, OwnGateway, Zenon DEF Raced
    <3>3. UndoneSoFar(p)'
      <4>1. DefaultRoute(c, loc'[p].mtu) = r /\ loc'[p].conf = c
        BY <2>5, Zenon DEF Raced, Kept
      <4> HIDE DEF r
      <4> QED
        BY <2>0, <2>5, <3>1, <3>2, <4>1, Zenon DEF r, Raced, Kept, UndoneSoFar, Undone, Ended, Missed
    <3>4. FreshSoFar(p)'
      BY <2>0, <2>5, <3>1, Zenon DEF Raced, Kept, FreshSoFar, Running
    <3> QED
      BY <3>3, <3>4, Zenon
  <2>6. CASE TornDown(p)
    <3>1. Clean(net', c) /\ net'.def = Nil /\ c.pod4 \notin net'.addrs
      BY <2>0, <2>6, OwnGateway, Zenon DEF TornDown, EmptyNetns
    <3> QED
      BY <2>r, <2>6, <3>1, Zenon DEF TornDown, UndoneSoFar, FreshSoFar, Undone, Ended, Clean, Bare
  <2> QED
    BY <2>1, <2>2, <2>3, <2>4, <2>5, <2>6, View, Zenon
<1> QED
  BY <1>1, <1>2, InstalledAlways, PTL DEF Spec

(* Undo is complete (install's error paths): an ADD that runs alone, began *)
(* in a namespace with nothing of its CLAT and fails, at whichever of its  *)
(* calls, leaves nothing of it behind, unless a call of the undo itself    *)
(* failed.  For every set of configurations, and with any other commands   *)
(* before and after it.                                                    *)
THEOREM FailedAddCleans == Spec => []FailedAddLeavesNothing
<1>1. UndoInv => FailedAddLeavesNothing
  <2> SUFFICES ASSUME UndoInv, NEW p \in Procs, Ended(p, "ADD", {"open", "error"}),
                      loc[p].alone, loc[p].fresh, loc[p].failed = {}
               PROVE  Clean(net, loc[p].conf)
    BY Zenon DEF FailedAddLeavesNothing
  <2>1. /\ UndoneSoFar(p) /\ FreshSoFar(p) /\ loc[p].cmd = "ADD" /\ Running(p)
    BY Zenon DEF UndoInv, Ended, Running
  <2> QED
    BY <2>1, Zenon DEF UndoneSoFar, FreshSoFar, Undone, Clean, Bare, OurAddr, Missed
<1> QED
  BY <1>1, UndoAlways, PTL

-----------------------------------------------------------------------------
(* DEL.                                                                    *)

(* DEL undoes whatever it finds (CmdDel, Detach, RemoveIPv4): every        *)
(* command before it may have been killed, failed or lost track of, with   *)
(* other configurations, and any of its own calls may fail.  What is left  *)
(* of its configuration's CLAT is what a failed call of its own was to     *)
(* remove.  The default route is removed by next hop and MTU, so of that   *)
(* one alone the MTU is part of the promise.                               *)
THEOREM DelKeepsGoing == Spec => []DelGoesOn
<1>1. UndoInv => DelGoesOn
  <2> SUFFICES ASSUME UndoInv, NEW p \in Procs, Ended(p, "DEL", {"deleted"}),
                      loc[p].alone, "enter" \notin loc[p].failed
               PROVE  /\ \/ ~net.qdisc /\ \A h \in Hooks : net.filters[h] = Nil
                         \/ "qdisc_del" \in loc[p].failed
                      /\ \/ net.def # DefaultRoute(loc[p].conf, loc[p].mtu)
                         \/ "def_del" \in loc[p].failed
                      /\ loc[p].conf.gw \notin net.hosts \/ "host_del" \in loc[p].failed
                      /\ net.neigh[loc[p].conf.gw] = Nil \/ "neigh_del" \in loc[p].failed
                      /\ loc[p].conf.pod4 \notin net.addrs \/ "addr_del" \in loc[p].failed
    BY Zenon DEF DelGoesOn
  <2>1. UndoneSoFar(p) /\ loc[p].cmd # "ADD"
    BY Zenon DEF UndoInv, Ended
  <2> QED
    BY <2>1, Zenon DEF UndoneSoFar, Undone, Missed, Bare
<1> QED
  BY <1>1, UndoAlways, PTL

(* What a step of a process writes. *)
Writes(p) ==
  LET c == loc[p].conf
      r == DefaultRoute(c, loc[p].mtu)
  IN
  \/ net' = net
  \/ net' = AddrReplace(net, c.pod4) \/ net' = NeighSet(net, c.gw, loc[p].mac)
  \/ net' = HostReplace(net, c.gw)
  \/ pc[p] = "def" /\ up /\ net' = DefReplace(net, r)
  \/ net' = QdiscAdd(net)
  \/ \E h \in Hooks : net.qdisc /\ net' = FilterReplace(net, h, Program(c, loc[p].ver))
  \/ \E h \in Hooks : net' = FilterDel(net, h)
  \/ net' = QdiscDel(net) \/ net' = DefDel(net, r) \/ net' = HostDel(net, c.gw)
  \/ net' = NeighDel(net, c.gw) \/ net' = AddrDel(net, c.pod4)

LEMMA StepWrites ==
  ASSUME InstalledInv, NEW p \in Procs, Step(p)
  PROVE  Writes(p)
<1>0. TypeOK /\ StepOfCmd /\ "egress" \in Hooks /\ "ingress" \in Hooks
  BY Zenon DEF InstalledInv, Hooks
<1>1. CASE Parse(p) \/ InspectAddrs(p) \/ InspectRoutes(p) \/ ListAttached(p) \/ Prepare(p)
             \/ Enter(p) \/ CheckAddr(p) \/ CheckNeigh(p) \/ CheckRoutes(p) \/ CheckAttached(p)
  BY <1>0, <1>1, ReadStep, Zenon DEF Writes
<1>2. CASE AddAddr(p) \/ AddNeigh(p) \/ AddHost(p) \/ AddDef(p) \/ AddQdisc(p)
  BY <1>0, <1>2, InstallDoes, Zenon DEF Writes, Made
<1>3. CASE AttachEgress(p)
  BY <1>0, <1>3, InstallDoes, Zenon DEF Writes, Made
<1>4. CASE AttachIngress(p)
  BY <1>0, <1>4, AttachIngressDoes, Zenon DEF Writes
<1>5. CASE \E h \in Hooks : ListFilter(p, h) \/ DeleteFilter(p, h)
  BY <1>0, <1>5, FilterStepDoes, Zenon DEF Writes
<1>6. CASE DeleteQdisc(p) \/ DeleteDef(p) \/ DeleteHost(p) \/ DeleteNeigh(p)
  BY <1>0, <1>6, UndoDoes, Zenon DEF Writes, Made
<1>7. CASE DeleteAddr(p)
  BY <1>0, <1>7, DeleteAddrDoes, Zenon DEF Writes
<1> QED
  BY <1>1, <1>2, <1>3, <1>4, <1>5, <1>6, <1>7, Zenon DEF Step

(* What any other step does to the namespace. *)
LEMMA OtherWrites ==
  ASSUME TypeOK, [Next]_vars, \A p \in Procs : ~Step(p)
  PROVE  \/ net' = net \/ net' = EmptyNetns
         \/ /\ net'.addrs = net.addrs /\ net'.qdisc = net.qdisc /\ net'.filters = net.filters
            /\ net'.def = net.def \/ net'.def = Nil \/ net'.def.gw \in OtherGateways
<1>1. CASE Foreigner
  BY <1>1, Zenon DEF Foreigner, TypeOK, Netns
<1>2. CASE RemoveNetns
  BY <1>2, Zenon DEF RemoveNetns
<1>3. CASE Orphan \/ LinkChange \/ Reconfigure \/ Upgrade \/ UNCHANGED vars
  BY <1>3, Zenon DEF Orphan, LinkChange, Reconfigure, Upgrade, vars
<1>4. CASE \E p \in Procs : Return(p) \/ Kill(p) \/ (\E cmd \in Cmds : Start(p, cmd))
  BY <1>4, Zenon DEF Return, Kill, Start
<1> QED
  BY <1>1, <1>2, <1>3, <1>4, Zenon DEF Next
(* With one process at a time, a default route of the plugin's leans on an *)
(* address: ConfigureIPv4 adds the address first, RemoveIPv4 deletes it    *)
(* last, and routes go with the last address.                              *)
OneMtu == \A u, v \in Mtus : u = v
OneAtATime == \A p, q \in Procs : p = q
OneAddress == \A c, d \in Configs : c.pod4 = d.pod4

RouteLeans ==
  /\ net.addrs \subseteq {c.pod4 : c \in Configs}
  /\ net.addrs = {} => \A c \in Configs : ~OurRoute(net, c)
  /\ \A p \in Procs : Running(p) => loc[p].alone

LEMMA RouteLeansStep ==
  ASSUME InstalledInv, NEW p \in Procs, Step(p), RouteLeans
  PROVE  /\ net'.addrs \subseteq {c.pod4 : c \in Configs}
         /\ net'.addrs = {} => \A c \in Configs : ~OurRoute(net', c)
<1> DEFINE c == loc[p].conf
           r == DefaultRoute(c, loc[p].mtu)
<1>0. /\ net \in Netns /\ loc[p] \in Locals /\ c \in Configs /\ c.gw \in Gateways
      /\ pc[p] # "idle" /\ InstalledSoFar(p) /\ r \in Routes
  <2>1. net \in Netns /\ loc[p] \in Locals /\ c \in Configs /\ loc[p].mtu \in Mtus
        /\ loc[p].ver \in Versions /\ InstalledSoFar(p)
    BY Zenon DEF InstalledInv, TypeOK, Locals, Progress
  <2> QED
    BY <2>1, StepFrames, InstalledTypes, Zenon DEF Framed, Running
<1> HIDE DEF r
<1>1. CASE /\ net'.addrs = net.addrs
           /\ net'.def \in {net.def, Nil}
  BY <1>1, ZenonT(90) DEF RouteLeans, OurRoute
<1>2. CASE net' = AddrReplace(net, c.pod4)
  <2>1. net'.addrs = net.addrs \cup {c.pod4}
    BY <1>0, <1>2, AddrReplaceIs, Zenon
  <2> QED
    BY <1>0, <2>1, Zenon DEF RouteLeans
<1>3. CASE pc[p] = "def" /\ up /\ net' = DefReplace(net, r)
  <2>1. loc[p].alone
    BY <1>0, Zenon DEF RouteLeans, Running
  <2>2. c.pod4 \in net.addrs
    BY <1>0, <1>3, <2>1, Zenon DEF InstalledSoFar, Installing
  <2>3. net'.addrs = net.addrs
    BY <1>0, <1>3, DefReplaceIs, Zenon
  <2> QED
    BY <2>2, <2>3, Zenon DEF RouteLeans
<1>4. CASE net' = AddrDel(net, c.pod4)
  <2>1. /\ net'.addrs = net.addrs \ {c.pod4} /\ net'.def \in {net.def, Nil}
        /\ net'.addrs = {} /\ net.addrs # {} => net'.def = Nil
    <3>1. net \in Netns
      BY <1>0, Zenon
    <3> QED
      BY <1>4, <3>1, AddrDelIs, SMTT(90)
  <2> QED
    BY <2>1, Zenon DEF OurRoute, RouteLeans
<1>5. CASE net' = net \/ net' = NeighSet(net, c.gw, loc[p].mac) \/ net' = HostReplace(net, c.gw)
  <2>0. net \in Netns /\ c.gw \in Gateways
    BY <1>0, Zenon
  <2>1. CASE net' = net
    BY <1>1, <2>1, Zenon
  <2>2. CASE net' = NeighSet(net, c.gw, loc[p].mac)
    <3>1. net'.addrs = net.addrs /\ net'.def = net.def
      BY <2>0, <2>2, NeighSetIs, SMTT(90)
    <3> QED
      BY <1>1, <3>1, Zenon
  <2>3. CASE net' = HostReplace(net, c.gw)
    BY <1>1, <2>0, <2>3, HostReplaceIs, ZenonT(90)
  <2> QED
    BY <1>5, <2>1, <2>2, <2>3, Zenon
<1>6. CASE \/ net' = QdiscAdd(net) \/ net' = QdiscDel(net)
           \/ \E h \in Hooks : net.qdisc /\ net' = FilterReplace(net, h, Program(c, loc[p].ver))
           \/ \E h \in Hooks : net' = FilterDel(net, h)
  <2>1. CASE net' = QdiscAdd(net)
    BY <1>0, <1>1, <2>1, QdiscAddIs, ZenonT(90)
  <2>2. CASE net' = QdiscDel(net)
    BY <1>0, <1>1, <2>2, QdiscDelIs, Zenon
  <2>3. CASE \E h \in Hooks : net' = FilterReplace(net, h, Program(c, loc[p].ver))
    <3>1. PICK h \in Hooks : net' = FilterReplace(net, h, Program(c, loc[p].ver))
      BY <2>3, ZenonT(90)
    <3>2. net'.addrs = net.addrs /\ net'.def = net.def
      <4>1. net \in Netns
        BY <1>0, Zenon
      <4> QED
        BY <3>1, <4>1, FilterReplaceIs, SMTT(90)
    <3> QED
      BY <1>1, <3>2, Zenon
  <2>4. CASE \E h \in Hooks : net' = FilterDel(net, h)
    <3>1. PICK h \in Hooks : net' = FilterDel(net, h)
      BY <2>4, Zenon
    <3>2. net'.addrs = net.addrs /\ net'.def = net.def
      BY <1>0, <3>1, FilterDelIs, Zenon
    <3> QED
      BY <1>1, <3>2, Zenon
  <2> QED
    BY <1>6, <2>1, <2>2, <2>3, <2>4, Zenon
<1>7. CASE net' = DefDel(net, r) \/ net' = HostDel(net, c.gw) \/ net' = NeighDel(net, c.gw)
  <2>1. CASE net' = DefDel(net, r)
    BY <1>0, <1>1, <2>1, DefDelIs, Zenon
  <2>2. CASE net' = HostDel(net, c.gw)
    BY <1>0, <1>1, <2>2, HostDelIs, Zenon
  <2>3. CASE net' = NeighDel(net, c.gw)
    BY <1>0, <1>1, <2>3, NeighDelIs, ZenonT(90)
  <2> QED
    BY <1>7, <2>1, <2>2, <2>3, Zenon
<1> QED
  BY <1>2, <1>3, <1>4, <1>5, <1>6, <1>7, StepWrites, Zenon DEF Writes, r

LEMMA RouteLeansAlways ==
  ASSUME OneAtATime
  PROVE  Spec => []RouteLeans
<1>1. Init => RouteLeans
  BY Zenon DEF Init, RouteLeans, EmptyNetns, OurRoute, Running
<1>2. InstalledInv /\ RouteLeans /\ [Next]_vars => RouteLeans'
  <2> SUFFICES ASSUME InstalledInv, RouteLeans, [Next]_vars
               PROVE  RouteLeans'
    BY Zenon
  <2>0. TypeOK
    BY Zenon DEF InstalledInv
  <2>1. /\ net'.addrs \subseteq {c.pod4 : c \in Configs}
        /\ net'.addrs = {} => \A c \in Configs : ~OurRoute(net', c)
    <3>1. CASE \E p \in Procs : Step(p)
      BY <3>1, RouteLeansStep, Zenon
    <3>2. CASE \A p \in Procs : ~Step(p)
      <4>1. EmptyNetns.addrs = {} /\ EmptyNetns.def = Nil
        BY Zenon DEF EmptyNetns
      <4> QED
        BY <2>0, <3>2, <4>1, OtherWrites, OwnGateway, Zenon DEF RouteLeans, OurRoute
    <3> QED
      BY <3>1, <3>2, Zenon
  <2>2. ASSUME NEW q \in Procs, Running(q)' PROVE loc'[q].alone
    <3>1. ASSUME NEW p \in Procs, Step(p) PROVE loc'[q].alone
      <4>1. q = p /\ Framed(p)
        BY <3>1, StepFrames, Zenon DEF OneAtATime
      <4> QED
        BY <4>1, Zenon DEF Framed, RouteLeans
    <3>2. ASSUME NEW p \in Procs, Return(p) \/ Kill(p) PROVE loc'[q].alone
      BY <2>0, <2>2, <3>2, Zenon DEF OneAtATime, Return, Kill, Goto, Running, TypeOK
    <3>3. ASSUME NEW p \in Procs, NEW cmd \in Cmds, Start(p, cmd) PROVE loc'[q].alone
      <4> DEFINE al == \A t \in Procs \ {p} : ~Running(t)
      <4>1. al /\ q = p
        BY Zenon DEF OneAtATime
      <4>2. loc'[q] = NewLocals(cmd, conflist, bin, Blank.mac, Blank.mtu, al, Clean(net, conflist))
        BY <3>3, <4>1, Zenon DEF Start
      <4> HIDE DEF al
      <4>3. loc'[q].alone = al
        BY <4>2, SMTT(90) DEF NewLocals
      <4> QED
        BY <4>1, <4>3, Zenon
    <3>4. CASE Foreigner
      <4>1. pc' = pc /\ loc'[q] = [loc[q] EXCEPT !.raced = TRUE]
        BY <2>2, <3>4, Zenon DEF Foreigner, Running
      <4>2. loc[q].alone /\ loc[q] \in Locals
        BY <2>0, <2>2, <4>1, Zenon DEF RouteLeans, Running, TypeOK
      <4> QED
        BY <4>1, <4>2, Zenon DEF Locals
    <3>5. CASE Orphan \/ LinkChange \/ Reconfigure \/ Upgrade \/ RemoveNetns \/ UNCHANGED vars
      <4>1. pc' = pc /\ loc' = loc
        BY <3>5, Zenon DEF Orphan, LinkChange, Reconfigure, Upgrade, RemoveNetns, vars
      <4> QED
        BY <2>2, <4>1, Zenon DEF RouteLeans, Running
    <3> QED
      BY <3>1, <3>2, <3>3, <3>4, <3>5, Zenon DEF Next
  <2> QED
    BY <2>1, <2>2, Zenon DEF RouteLeans
<1> QED
  BY <1>1, <1>2, InstalledAlways, PTL DEF Spec

(* DEL leaves nothing of its configuration's CLAT (CmdDel, Detach,         *)
(* RemoveIPv4) where the pod interface has one MTU for life, or where the  *)
(* node has one CLAT address and the plugin's processes never overlap: the *)
(* route an ADD left with another MTU, which RouteDel does not match, then *)
(* goes with the address.                                                  *)
THEOREM DelIsClean ==
  ASSUME OneMtu \/ (OneAtATime /\ OneAddress)
  PROVE  Spec => []DelCleans
<1>1. ASSUME OneMtu PROVE InstalledInv /\ DelGoesOn => DelCleans
  <2> SUFFICES ASSUME InstalledInv, DelGoesOn, NEW p \in Procs,
                      Ended(p, "DEL", {"deleted"}), loc[p].alone, loc[p].failed = {}
               PROVE  Clean(net, loc[p].conf)
    BY Zenon DEF DelCleans
  <2>1. /\ Bare(net) /\ net.def # DefaultRoute(loc[p].conf, loc[p].mtu)
        /\ loc[p].conf.gw \notin net.hosts /\ net.neigh[loc[p].conf.gw] = Nil
        /\ ~OurAddr(net, loc[p].conf)
    BY Zenon DEF DelGoesOn, Bare, OurAddr
  <2>2. net.def \in Routes \cup {Nil} /\ loc[p].mtu \in Mtus
    BY Zenon DEF InstalledInv, TypeOK, Netns, Locals
  <2>3. \A u \in Mtus : RouteMTU(u) = RouteMTU(loc[p].mtu)
    BY <1>1, <2>2, Zenon DEF OneMtu
  <2>4. ~OurRoute(net, loc[p].conf)
    BY <2>1, <2>2, <2>3, Zenon DEF OurRoute, DefaultRoute, Routes
  <2> QED
    BY <2>1, <2>4, Zenon DEF Clean, Bare
<1>2. ASSUME OneAddress PROVE InstalledInv /\ DelGoesOn /\ RouteLeans => DelCleans
  <2> SUFFICES ASSUME InstalledInv, DelGoesOn, RouteLeans, NEW p \in Procs,
                      Ended(p, "DEL", {"deleted"}), loc[p].alone, loc[p].failed = {}
               PROVE  Clean(net, loc[p].conf)
    BY Zenon DEF DelCleans
  <2>1. /\ Bare(net) /\ loc[p].conf.gw \notin net.hosts /\ net.neigh[loc[p].conf.gw] = Nil
        /\ ~OurAddr(net, loc[p].conf) /\ loc[p].conf \in Configs
    BY Zenon DEF DelGoesOn, Bare, OurAddr, InstalledInv, TypeOK, Locals
  <2>2. net.addrs = {}
    BY <1>2, <2>1, Zenon DEF OneAddress, RouteLeans, OurAddr
  <2> QED
    BY <2>1, <2>2, Zenon DEF Clean, Bare, RouteLeans
<1>3. CASE OneMtu
  BY <1>1, <1>3, InstalledAlways, DelKeepsGoing, PTL
<1>4. CASE OneAtATime /\ OneAddress
  <2>1. Spec => []RouteLeans
    BY <1>4, RouteLeansAlways, Zenon
  <2> QED
    BY <1>2, <1>4, <2>1, InstalledAlways, DelKeepsGoing, PTL
<1> QED
  BY <1>3, <1>4, Zenon

-----------------------------------------------------------------------------
(* CHECK.                                                                  *)

(* Attach adds the qdisc first, and the kernel takes a filter only then. *)
LEMMA FiltersHangAlways == Spec => []FiltersHang
<1>1. Init => FiltersHang
  BY SMTT(90) DEF Init, FiltersHang, EmptyNetns
<1>2. InstalledInv /\ FiltersHang /\ [Next]_vars => FiltersHang'
  <2> SUFFICES ASSUME InstalledInv, FiltersHang, [Next]_vars PROVE FiltersHang'
    BY Zenon
  <2>0. TypeOK /\ net \in Netns
    BY Zenon DEF InstalledInv, TypeOK
  <2>1. CASE net'.qdisc = net.qdisc /\ net'.filters = net.filters
    BY <2>1, Zenon DEF FiltersHang
  <2>2. CASE net' = EmptyNetns \/ net' = QdiscDel(net)
    <3>1. \A h \in Hooks : EmptyNetns.filters[h] = Nil /\ QdiscDel(net).filters[h] = Nil
      BY <2>0, Zenon DEF EmptyNetns, QdiscDel, Netns
    <3> QED
      BY <2>2, <3>1, Zenon DEF FiltersHang
  <2>3. ASSUME NEW p \in Procs, Step(p) PROVE FiltersHang'
    <3>0. loc[p] \in Locals /\ loc[p].conf \in Configs
      BY <2>0, Zenon DEF TypeOK, Locals
    <3>1. loc[p].conf.gw \in Gateways
      BY <3>0, PluginAssumption, Zenon DEF Config
    <3>2. CASE net' = QdiscAdd(net)
      <4>1. net'.qdisc
        BY <2>0, <3>2, Zenon DEF QdiscAdd, Netns
      <4> QED
        BY <4>1, Zenon DEF FiltersHang
    <3>3. CASE \E h \in Hooks : net.qdisc /\ net' = FilterReplace(net, h, Program(loc[p].conf, loc[p].ver))
      <4>1. net'.qdisc = net.qdisc
        BY <2>0, <3>3, Zenon DEF FilterReplace, Netns
      <4> QED
        BY <3>3, <4>1, Zenon DEF FiltersHang
    <3>4. CASE \E h \in Hooks : net' = FilterDel(net, h)
      <4>1. net'.qdisc = net.qdisc /\ \A h \in Hooks : net'.filters[h] \in {net.filters[h], Nil}
        BY <2>0, <3>4, Zenon DEF FilterDel, Netns
      <4> QED
        BY <4>1, Zenon DEF FiltersHang
    <3> DEFINE c == loc[p].conf
               r == DefaultRoute(c, loc[p].mtu)
    <3>6. r \in Routes
      BY <2>0, <3>0, InstalledTypes, Zenon DEF Locals
    <3>5. CASE \/ net' = net
               \/ net' = AddrReplace(net, c.pod4) \/ net' = NeighSet(net, c.gw, loc[p].mac)
               \/ net' = HostReplace(net, c.gw) \/ net' = DefReplace(net, r)
               \/ net' = DefDel(net, r) \/ net' = HostDel(net, c.gw)
               \/ net' = NeighDel(net, c.gw) \/ net' = AddrDel(net, c.pod4)
      <4>1. ASSUME KeepsHooks(net, net') PROVE FiltersHang'
        BY <2>1, <4>1, Zenon DEF KeepsHooks
      <4>2. CASE net' = AddrReplace(net, c.pod4) \/ net' = AddrDel(net, c.pod4)
        BY <2>0, <4>1, <4>2, AddrReplaceIs, AddrDelIs, ZenonT(90)
      <4>3. CASE net' = NeighSet(net, c.gw, loc[p].mac) \/ net' = NeighDel(net, c.gw)
        <5>1. CASE net' = NeighSet(net, c.gw, loc[p].mac)
          BY <2>0, <3>1, <4>1, <5>1, NeighSetIs, ZenonT(90)
        <5>2. CASE net' = NeighDel(net, c.gw)
          BY <2>0, <3>1, <4>1, <5>2, NeighDelIs, ZenonT(90)
        <5> QED
          BY <4>3, <5>1, <5>2, Zenon
      <4>4. CASE net' = HostReplace(net, c.gw) \/ net' = HostDel(net, c.gw)
        BY <2>0, <4>1, <4>4, HostReplaceIs, HostDelIs, ZenonT(90)
      <4>5. CASE net' = DefReplace(net, r) \/ net' = DefDel(net, r)
        <5>1. CASE net' = DefReplace(net, r)
          BY <2>0, <3>6, <4>1, <5>1, DefReplaceIs, ZenonT(90)
        <5>2. CASE net' = DefDel(net, r)
          BY <2>0, <3>6, <4>1, <5>2, DefDelIs, ZenonT(90)
        <5> QED
          BY <4>5, <5>1, <5>2, Zenon
      <4> HIDE DEF c, r
      <4> QED
        BY <2>1, <3>5, <4>2, <4>3, <4>4, <4>5, Zenon
    <3> QED
      BY <2>2, <2>3, <3>2, <3>3, <3>4, <3>5, StepWrites, Zenon DEF Writes
  <2>4. CASE \A p \in Procs : ~Step(p)
    BY <2>0, <2>1, <2>2, <2>4, OtherWrites, Zenon
  <2> QED
    BY <2>3, <2>4, Zenon
<1> QED
  BY <1>1, <1>2, InstalledAlways, PTL DEF Spec

(* The steps of CHECK, and that no other command's step is one. *)
CheckActions(p) ==
  \/ Parse(p) \/ InspectAddrs(p) \/ InspectRoutes(p) \/ ListAttached(p) \/ Prepare(p) \/ Enter(p)
  \/ CheckAddr(p) \/ CheckNeigh(p) \/ CheckRoutes(p) \/ CheckAttached(p)
LEMMA OnlyCheckChecks ==
  ASSUME InstalledInv, NEW p \in Procs, Step(p)
  PROVE  /\ loc'[p].cmd = loc[p].cmd
         /\ loc[p].cmd = "CHECK" => CheckActions(p)
         /\ pc'[p] \in CheckSteps => loc[p].cmd = "CHECK"
<1>0. TypeOK /\ StepOfCmd /\ InstalledSoFar(p)
  BY Zenon DEF InstalledInv, Progress
<1>1. loc'[p].cmd = loc[p].cmd
  BY StepFrames, Zenon DEF Framed
<1>2. StepOfCmd'
  BY StepKeeps, Zenon
<1>3. loc[p].cmd = "CHECK" => CheckActions(p)
  BY <1>0, InstallStep, UndoStep, Zenon DEF Step, CheckActions
<1> QED
  BY <1>1, <1>2, <1>3, Zenon DEF StepOfCmd

(* A step of CHECK past good reads: they are still good. *)
LEMMA CheckedStep ==
  ASSUME InstalledInv, NEW p \in Procs, CheckedSoFar(p), Step(p)
  PROVE  CheckedSoFar(p)'
<1>0. TypeOK /\ loc'[p].cmd = loc[p].cmd
  BY OnlyCheckChecks, Zenon DEF InstalledInv
<1> USE DEF CheckSteps
<1>1. CASE loc[p].cmd # "CHECK"
  BY <1>0, <1>1, OnlyCheckChecks, Zenon DEF CheckedSoFar, Verifying, Ended
<1>2. CASE loc[p].cmd = "CHECK"
  <2>1. ASSUME pc'[p] \notin {"check_neigh", "check_routes", "check_filters"},
               pc'[p] = "ret" => loc'[p].res # "verified"
        PROVE  CheckedSoFar(p)'
    BY <2>1, Zenon DEF CheckedSoFar, Verifying, Ended
  <2>2. CASE Parse(p) \/ InspectAddrs(p) \/ InspectRoutes(p)
    BY <1>0, <1>2, <2>1, <2>2, ParseDoes, InspectAddrsDoes, InspectRoutesDoes, Zenon
       DEF EndsWith, Goes, Fails, Finds
  <2>3. CASE ListAttached(p) \/ Prepare(p) \/ Enter(p)
    BY <1>0, <1>2, <2>1, <2>3, ListAttachedDoes, PrepareDoes, EnterDoes, Zenon DEF EndsWith, Goes, Fails
  <2>4. ASSUME NEW ok, Fails(p) \/ (~ok /\ EndsWith(p, "error")) PROVE CheckedSoFar(p)'
    BY <2>1, <2>4, Zenon DEF Fails, EndsWith
  <2>5. CASE CheckAddr(p)
    <3>1. Untouched /\ pc[p] = "check_addr"
          /\ (Fails(p) \/ (AddrOK(net, loc[p].conf) /\ Goes(p, "check_neigh"))
                \/ (~AddrOK(net, loc[p].conf) /\ EndsWith(p, "error")))
      BY <1>0, <1>2, <2>5, CheckDoes, Zenon DEF CheckAddr
    <3> QED
      BY <2>4, <3>1, Zenon DEF Goes, Untouched, CheckedSoFar, Verifying, Ended
  <2>6. CASE CheckNeigh(p)
    <3>1. Untouched /\ pc[p] = "check_neigh"
          /\ (Fails(p) \/ (NeighOK(net, loc[p].conf, loc[p].mac) /\ Goes(p, "check_routes"))
                \/ (~NeighOK(net, loc[p].conf, loc[p].mac) /\ EndsWith(p, "error")))
      BY <1>0, <1>2, <2>6, CheckDoes, Zenon DEF CheckNeigh
    <3> QED
      BY <2>4, <3>1, Zenon DEF Goes, Untouched, CheckedSoFar, Verifying, Ended
  <2>7. CASE CheckRoutes(p)
    <3>1. Untouched /\ pc[p] = "check_routes"
          /\ (Fails(p) \/ (RoutesOK(net, loc[p].conf, loc[p].mtu) /\ Goes(p, "check_filters"))
                \/ (~RoutesOK(net, loc[p].conf, loc[p].mtu) /\ EndsWith(p, "error")))
      BY <1>0, <1>2, <2>7, CheckDoes, Zenon DEF CheckRoutes
    <3> QED
      BY <2>4, <3>1, Zenon DEF Goes, Untouched, CheckedSoFar, Verifying, Ended
  <2>8. CASE CheckAttached(p)
    <3>1. CASE FiltersOK(net, loc[p].ver) /\ EndsWith(p, "verified")
      <4>1. Untouched /\ pc[p] = "check_filters"
        BY <1>0, <2>8, CheckAttachedDoes, Zenon
      <4> QED
        BY <3>1, <4>1, Zenon DEF EndsWith, Same, Kept, Untouched, CheckedSoFar, Verifying, Ended
    <3> QED
      BY <1>0, <2>4, <2>8, <3>1, CheckAttachedDoes, Zenon
  <2> QED
    BY <1>2, <2>2, <2>3, <2>5, <2>6, <2>7, <2>8, OnlyCheckChecks, Zenon DEF CheckActions
<1> QED
  BY <1>1, <1>2, Zenon
(* What CHECK has read and found good stays good until it returns: a       *)
(* running pod sees no other process, and another owner neither adds nor   *)
(* removes a route to a configured gateway.                                *)
LEMMA CheckedAlways == Spec => []CheckedInv
<1>1. Init => CheckedInv
  <2>1. ~Blank.alone
    BY BlankType, Zenon
  <2> QED
    BY <2>1, Zenon DEF Init, CheckedInv, CheckedSoFar
<1>2. InstalledInv /\ CheckedInv /\ [Next]_vars => CheckedInv'
  <2> SUFFICES ASSUME InstalledInv, CheckedInv, [Next]_vars, NEW p \in Procs
               PROVE  CheckedSoFar(p)'
    BY Zenon DEF CheckedInv
  <2>0. /\ CheckedSoFar(p) /\ loc[p].conf \in Configs /\ loc[p].mtu \in Mtus
        /\ loc[p].ver \in Versions
    BY Zenon DEF CheckedInv, InstalledInv, TypeOK, Locals
  <2>1. CASE ~Running(p)' \/ Gone(p)
    BY <2>1, Zenon DEF Running, Gone, CheckedSoFar, Verifying, Ended
  <2>2. CASE Step(p)
    BY <2>0, <2>2, CheckedStep, Zenon
  <2>3. CASE Begins(p)
    BY <2>3, Zenon DEF Begins, CheckedSoFar, Verifying, Ended
  <2>4. CASE Rests(p)
    BY <2>0, <2>4, Zenon DEF Rests, CheckedSoFar, Verifying, Ended
  <2>5. CASE Raced(p)
    <3> DEFINE r == DefaultRoute(loc[p].conf, loc[p].mtu)
    <3>1. r # Nil /\ r.gw = loc[p].conf.gw
      BY <2>0, InstalledTypes, Zenon DEF DefaultRoute
    <3> HIDE DEF r
    <3>2. net.def = r => net'.def = r
      BY <2>0, <2>5, <3>1, OwnGateway, Zenon DEF Raced
    <3> QED
      BY <2>0, <2>5, <3>2, ZenonT(90) DEF r, Raced, Kept, CheckedSoFar, Verifying, Ended,
                              AddrOK, NeighOK, RoutesOK, FiltersOK
  <2>6. CASE TornDown(p)
    BY <2>6, Zenon DEF TornDown, CheckedSoFar
  <2> QED
    BY <2>1, <2>2, <2>3, <2>4, <2>5, <2>6, View, Zenon
<1> QED
  BY <1>1, <1>2, InstalledAlways, PTL DEF Spec

(* CheckIPv4 and CheckAttached, put together: a CHECK that read address,   *)
(* neighbour, routes and program tags one after the other, and found each  *)
(* good, returns success for a namespace that holds all of them at once.   *)
THEOREM VerifiedHolds == Spec => []VerifiedIsComplete
<1>1. InstalledInv /\ CheckedInv /\ FiltersHang => VerifiedIsComplete
  <2> SUFFICES ASSUME InstalledInv, CheckedInv, FiltersHang, NEW p \in Procs,
                      Ended(p, "CHECK", {"verified"}), loc[p].alone, up
               PROVE  \E pre \in [Hooks -> Prefixes] :
                        /\ Complete([net EXCEPT !.filters = [h \in Hooks |-> Program(loc[p].conf, loc[p].ver)]],
                                    loc[p].conf, loc[p].ver, loc[p].mac, loc[p].mtu)
                        /\ net.filters = [h \in Hooks |-> [ver |-> loc[p].ver, prefix |-> pre[h]]]
    BY Zenon DEF VerifiedIsComplete
  <2> DEFINE l == loc[p]
             pre == [h \in Hooks |-> net.filters[h].prefix]
             m == [net EXCEPT !.filters = [h \in Hooks |-> Program(l.conf, l.ver)]]
  <2>0. net \in Netns
    BY Zenon DEF InstalledInv, TypeOK
  <2>1. /\ AddrOK(net, l.conf) /\ NeighOK(net, l.conf, l.mac) /\ RoutesOK(net, l.conf, l.mtu)
        /\ FiltersOK(net, l.ver)
    BY Zenon DEF CheckedInv, CheckedSoFar, Verifying
  <2>2. \A h \in Hooks : net.filters[h] \in Programs /\ net.filters[h].ver = l.ver
    BY <2>0, <2>1, Zenon DEF FiltersOK, Tag, Netns
  <2>3. pre \in [Hooks -> Prefixes]
    BY <2>2, Zenon DEF Programs
  <2>4. net.filters = [h \in Hooks |-> [ver |-> l.ver, prefix |-> pre[h]]]
    <3>1. \A h \in Hooks : net.filters[h] = [ver |-> l.ver, prefix |-> net.filters[h].prefix]
      BY <2>2, Zenon DEF Programs
    <3>2. net.filters = [h \in Hooks |-> net.filters[h]]
      BY <2>0, Zenon DEF Netns
    <3> QED
      BY <3>1, <3>2, Zenon
  <2>5. net.qdisc
    BY <2>1, Zenon DEF FiltersHang, FiltersOK, Hooks
  <2>6. /\ m.addrs = net.addrs /\ m.neigh = net.neigh /\ m.hosts = net.hosts
        /\ m.def = net.def /\ m.qdisc = net.qdisc
        /\ m.filters = [h \in Hooks |-> Program(l.conf, l.ver)]
    BY <2>0, Zenon DEF Netns
  <2> HIDE DEF m
  <2>7. Complete(m, l.conf, l.ver, l.mac, l.mtu)
    BY <2>1, <2>5, <2>6, Zenon DEF Complete, AddrOK, NeighOK, RoutesOK, DefaultRoute, RouteMTU, Program
  <2> QED
    BY <2>3, <2>4, <2>7, Zenon DEF m
<1> QED
  BY <1>1, InstalledAlways, CheckedAlways, FiltersHangAlways, PTL

(* A step of CHECK: what it saw, and what its error means. *)
LEMMA AlarmStep ==
  ASSUME InstalledInv, NEW p \in Procs, AlarmSoFar(p), Step(p)
  PROVE  AlarmSoFar(p)'
<1> DEFINE c == loc[p].conf
           l == loc[p]
<1>0. /\ TypeOK /\ loc'[p].cmd = loc[p].cmd /\ Running(p) /\ c \in Configs /\ l.ver \in Versions
      /\ l.mtu \in Mtus /\ l.ours \in BOOLEAN
  BY OnlyCheckChecks, StepFrames, Zenon DEF InstalledInv, Framed, TypeOK, Locals
<1> USE DEF CheckSteps
<1>1. CASE loc[p].cmd # "CHECK"
  BY <1>0, <1>1, Zenon DEF AlarmSoFar
<1>2. CASE loc[p].cmd = "CHECK"
  <2>1. ASSUME Fails(p), Untouched PROVE AlarmSoFar(p)'
    BY <1>0, <1>2, <2>1, Zenon DEF Fails, Untouched, Same, Kept, AlarmSoFar
  <2>2. ASSUME NEW res, EndsWith(p, res), res # "error" \/ ~c.valid, Untouched
        PROVE  AlarmSoFar(p)'
    BY <1>0, <1>2, <2>2, Zenon DEF EndsWith, Untouched, Same, Kept, AlarmSoFar
  <2>3. ASSUME EndsWith(p, "error"), Untouched,
               l.alone /\ ~l.raced => /\ c.gets /\ ~Foreign(net, c)
                                      /\ ~Complete(net, c, l.ver, l.mac, l.mtu)
                                      /\ ~(c.failOpen /\ Clean(net, c))
        PROVE  AlarmSoFar(p)'
    BY <1>0, <1>2, <2>3, Zenon DEF EndsWith, Untouched, Same, Kept, AlarmSoFar
  <2>4. CASE Parse(p)
    <3>1. CASE Goes(p, "insp_addrs") /\ Untouched /\ c.gets
      BY <1>0, <1>2, <3>1, Zenon DEF Goes, Untouched, AlarmSoFar
    <3> QED
      BY <1>0, <1>2, <2>2, <2>4, <3>1, ParseDoes, Zenon
  <2>5. CASE InspectAddrs(p)
    <3>1. CASE /\ Finds(p, "insp_routes") /\ Untouched /\ pc[p] = "insp_addrs"
               /\ loc'[p].ours = OurAddr(net, c) /\ loc'[p].foreign = ForeignAddr(net, c)
      BY <1>0, <1>2, <3>1, Zenon DEF Finds, Kept, Untouched, AlarmSoFar
    <3> QED
      BY <1>0, <2>1, <2>5, <3>1, InspectAddrsDoes, Zenon
  <2>6. CASE InspectRoutes(p)
    <3>1. CASE /\ Untouched /\ pc[p] = "insp_routes" /\ Finds(p, "filters")
               /\ ~loc'[p].foreign => /\ ~(l.foreign \/ ForeignRoute(net, c))
                                      /\ loc'[p].ours <=> l.ours \/ OurRoute(net, c)
      <4>1. l.alone /\ ~l.raced => /\ l.ours <=> OurAddr(net, c)
                                   /\ ForeignAddr(net, c) => l.foreign
        BY <1>0, <1>2, <3>1, Zenon DEF AlarmSoFar
      <4>2. l.alone /\ ~l.raced /\ ~loc'[p].foreign
              => (loc'[p].ours <=> OurAddr(net, c) \/ OurRoute(net, c)) /\ ~Foreign(net, c)
        BY <3>1, <4>1, Zenon DEF Foreign
      <4> QED
        BY <1>0, <1>2, <3>1, <4>2, Zenon DEF Finds, Kept, Untouched, AlarmSoFar
    <3> QED
      BY <1>0, <1>2, <2>1, <2>6, <3>1, InspectRoutesDoes, Zenon
  <2>7. CASE ListAttached(p)
    <3> DEFINE none == ~l.ours /\ \A h \in Hooks : net.filters[h] = Nil
    <3>1. CASE /\ Untouched /\ pc[p] = "filters" /\ ~l.foreign /\ none /\ ~c.failOpen
               /\ EndsWith(p, "error")
      <4>1. l.alone /\ ~l.raced => c.gets /\ ~Foreign(net, c) /\ ~OurAddr(net, c)
        BY <1>0, <1>2, <3>1, Zenon DEF AlarmSoFar
      <4> QED
        BY <2>3, <3>1, <4>1, Zenon DEF Complete, OurAddr
    <3>2. CASE Untouched /\ pc[p] = "filters" /\ ~l.foreign /\ ~none /\ Goes(p, "prepare")
      <4>1. l.alone /\ ~l.raced => ~Clean(net, c) /\ ~Foreign(net, c)
        BY <1>0, <1>2, <3>2, Zenon DEF AlarmSoFar, Clean
      <4> QED
        BY <1>0, <1>2, <3>2, <4>1, Zenon DEF Goes, Untouched, AlarmSoFar
    <3> QED
      BY <1>0, <2>1, <2>2, <2>7, <3>1, <3>2, ListAttachedDoes, Zenon
  <2>8. CASE Prepare(p) \/ Enter(p)
    <3>1. CASE /\ pc[p] \in {"prepare", "enter"} /\ pc'[p] \in {"enter", "check_addr"}
               /\ Kept(loc[p], loc'[p]) /\ loc'[p].raced = loc[p].raced /\ Untouched
      BY <1>0, <1>2, <3>1, Zenon DEF Kept, Untouched, AlarmSoFar
    <3> QED
      BY <1>0, <1>2, <2>1, <2>8, <3>1, PrepareDoes, EnterDoes, Zenon
  <2>9. ASSUME NEW at \in {"check_addr", "check_neigh", "check_routes"},
               NEW next \in {"check_neigh", "check_routes", "check_filters"},
               NEW ok, Check(p, at, ok, next), Complete(net, c, l.ver, l.mac, l.mtu) => ok
        PROVE  AlarmSoFar(p)'
    <3>1. /\ Untouched /\ pc[p] = at
          /\ Fails(p) \/ (ok /\ Goes(p, next)) \/ (~ok /\ EndsWith(p, "error"))
      BY <1>0, <1>2, <2>9, CheckDoes, Zenon
    <3>2. l.alone /\ ~l.raced => c.gets /\ ~Foreign(net, c) /\ ~Clean(net, c)
      BY <1>0, <1>2, <3>1, Zenon DEF AlarmSoFar
    <3>3. CASE Goes(p, next)
      BY <1>0, <1>2, <3>1, <3>2, <3>3, Zenon DEF Goes, Untouched, AlarmSoFar
    <3>4. CASE ~ok /\ EndsWith(p, "error")
      BY <2>3, <2>9, <3>1, <3>2, <3>4, Zenon
    <3> QED
      BY <2>1, <3>1, <3>3, <3>4, Zenon
  <2>10. CASE CheckAddr(p)
    <3>1. Complete(net, c, l.ver, l.mac, l.mtu) => AddrOK(net, c)
      BY Zenon DEF Complete, AddrOK
    <3> QED
      BY <2>9, <2>10, <3>1, Zenon DEF CheckAddr
  <2>11. CASE CheckNeigh(p)
    <3>1. Complete(net, c, l.ver, l.mac, l.mtu) => NeighOK(net, c, l.mac)
      BY Zenon DEF Complete, NeighOK
    <3> QED
      BY <2>9, <2>11, <3>1, Zenon DEF CheckNeigh
  <2>12. CASE CheckRoutes(p)
    <3>1. Complete(net, c, l.ver, l.mac, l.mtu) => RoutesOK(net, c, l.mtu)
      BY Zenon DEF Complete, RoutesOK, DefaultRoute, RouteMTU
    <3> QED
      BY <2>9, <2>12, <3>1, Zenon DEF CheckRoutes
  <2>13. CASE CheckAttached(p)
    <3>1. Complete(net, c, l.ver, l.mac, l.mtu) => FiltersOK(net, l.ver)
      <4>1. [ver |-> l.ver, prefix |-> c.prefix] # Nil
        BY <1>0, InstalledTypes, NetnsAssumption, Zenon DEF Program
      <4> QED
        BY <4>1, SMTT(90) DEF Complete, FiltersOK, Tag
    <3>2. Untouched /\ pc[p] = "check_filters"
      BY <1>0, <2>13, CheckAttachedDoes, Zenon
    <3>3. l.alone /\ ~l.raced => c.gets /\ ~Foreign(net, c) /\ ~Clean(net, c)
      BY <1>0, <1>2, <3>2, Zenon DEF AlarmSoFar
    <3> QED
      BY <1>0, <2>1, <2>2, <2>3, <2>13, <3>1, <3>2, <3>3, CheckAttachedDoes, ZenonT(90)
  <2> QED
    BY <1>2, <2>4, <2>5, <2>6, <2>7, <2>8, <2>10, <2>11, <2>12, <2>13, OnlyCheckChecks, Zenon
       DEF CheckActions
<1> QED
  BY <1>1, <1>2, Zenon

(* CHECK raises no false alarm (CmdCheck): when it reports an error        *)
(* although every read succeeded and no other owner came between, the pod  *)
(* is one that gets a CLAT, it has no other IPv4 stack, the installation   *)
(* really is incomplete, and the pod is not simply one that failed open.   *)
THEOREM AlarmIsReal == Spec => []CheckErrorIsReal
<1>1. Init => AlarmInv
  BY Zenon DEF Init, AlarmInv, AlarmSoFar, Running
<1>2. InstalledInv /\ AlarmInv /\ [Next]_vars => AlarmInv'
  <2> SUFFICES ASSUME InstalledInv, AlarmInv, [Next]_vars, NEW p \in Procs
               PROVE  AlarmSoFar(p)'
    BY Zenon DEF AlarmInv
  <2>0. AlarmSoFar(p)
    BY Zenon DEF AlarmInv
  <2> USE DEF CheckSteps
  <2>1. CASE ~Running(p)' \/ Gone(p)
    BY <2>1, Zenon DEF Running, Gone, AlarmSoFar
  <2>2. CASE Step(p)
    BY <2>0, <2>2, AlarmStep, Zenon
  <2>3. CASE Begins(p)
    BY <2>3, Zenon DEF Begins, AlarmSoFar
  <2>4. CASE Rests(p)
    BY <2>0, <2>4, Zenon DEF Rests, AlarmSoFar, Running
  <2>5. CASE Raced(p)
    BY <2>0, <2>5, Zenon DEF Raced, Kept, AlarmSoFar, Running
  <2>6. CASE TornDown(p)
    BY <2>0, <2>6, Zenon DEF TornDown, AlarmSoFar, Running
  <2> QED
    BY <2>1, <2>2, <2>3, <2>4, <2>5, <2>6, View, Zenon
<1>3. AlarmInv => CheckErrorIsReal
  BY Zenon DEF AlarmInv, AlarmSoFar, CheckErrorIsReal, Ended, Running
<1> QED
  BY <1>1, <1>2, <1>3, InstalledAlways, PTL DEF Spec
=============================================================================
