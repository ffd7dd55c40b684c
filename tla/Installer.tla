------------------------------ MODULE Installer ------------------------------
(***************************************************************************)
(* `cilium-clat install` (cmd/cilium-clat/main.go): copy the running       *)
(* binary to a temporary name in the plugin directory, sync, close,        *)
(* rename.  Installers are killed and retried, every call may fail, the    *)
(* node may lose power, and the runtime executes whatever has the final    *)
(* name.                                                                   *)
(*                                                                         *)
(* The file system is external: names refer to inodes; fsync puts a file's *)
(* content on disk, and a power loss leaves anything in a file written     *)
(* since; a change of names reaches the disk at any time, as a whole.      *)
(***************************************************************************)
EXTENDS Integers

CONSTANTS
  Installers,  \* installer processes that can exist at the same time
  Versions,    \* versions of the binary
  Size,        \* blocks of a binary
  Inodes,      \* inodes of the directory's file system
  Overlap,     \* whether an installer may start while another runs
  Nil          \* no inode, no block, no version

ASSUME InstallerAssumption ==
  /\ Size \in Nat \ {0}
  /\ Nil \notin Versions /\ Nil \notin Inodes
  /\ Versions # {} /\ Inodes # {}
  /\ Overlap \in BOOLEAN

VARIABLES
  dir, ddir,    \* the plugin directory: as seen, and on disk
  data,         \* the blocks of each inode
  synced,       \* whether they are on disk
  stage,        \* step of each installer
  ver,          \* version each installer copies
  fd, off       \* its open file and its offset there

copyvars == <<dir, ddir, data, synced, stage, ver, fd, off>>
disk == <<ddir, synced>>

Blocks == 1 .. Size
Contents == [Blocks -> Versions \cup {Nil}]
Dirs == [tmp: Inodes \cup {Nil}, final: Inodes \cup {Nil}]
Empty == [b \in Blocks |-> Nil]
Whole(v) == [b \in Blocks |-> v]

(* A node with an older version installed, or none. *)
CopyInit ==
  LET i == CHOOSE j \in Inodes : TRUE IN
  \E v \in Versions \cup {Nil} :
    /\ dir = [tmp |-> Nil, final |-> IF v = Nil THEN Nil ELSE i] /\ ddir = dir
    /\ data = [j \in Inodes |-> IF j = i THEN Whole(v) ELSE Empty]
    /\ synced = [j \in Inodes |-> TRUE]
    /\ stage = [p \in Installers |-> "idle"]
    /\ ver = [p \in Installers |-> CHOOSE w \in Versions : TRUE]
    /\ fd = [p \in Installers |-> Nil]
    /\ off = [p \in Installers |-> 0]

Goto(p, next) == stage' = [stage EXCEPT ![p] = next]

-----------------------------------------------------------------------------
(* One installer.                                                          *)

(* An inode nothing refers to, on disk or in memory. *)
Free == Inodes \ ({dir.tmp, dir.final, ddir.tmp, ddir.final} \cup {fd[p] : p \in Installers})

(* os.Executable, MkdirAll and the open of the source may fail before the  *)
(* temporary name is created, or opened and truncated.                     *)
OpenTmp(p) ==
  /\ stage[p] = "open"
  /\ \/ /\ Goto(p, "failed")
        /\ UNCHANGED <<dir, data, synced, fd>>
     \/ /\ dir.tmp # Nil
        /\ data' = [data EXCEPT ![dir.tmp] = Empty]
        /\ synced' = [synced EXCEPT ![dir.tmp] = FALSE]
        /\ fd' = [fd EXCEPT ![p] = dir.tmp]
        /\ Goto(p, "copy")
        /\ UNCHANGED dir
     \/ /\ dir.tmp = Nil /\ Free # {}
        /\ LET i == CHOOSE j \in Free : TRUE IN
           /\ dir' = [dir EXCEPT !.tmp = i]
           /\ data' = [j \in Inodes |-> IF j \in Free THEN Empty ELSE data[j]]
           /\ synced' = [j \in Inodes |-> j # i /\ (j \in Free \/ synced[j])]
           /\ fd' = [fd EXCEPT ![p] = i]
        /\ Goto(p, "copy")
  /\ UNCHANGED <<ddir, ver, off>>

(* Mutant: a short copy passes. *)
MutAfterBlockShort(n) == "sync"
AfterBlock(n) == IF n = Size THEN "sync" ELSE "copy"
(* io.Copy: one block per step. *)
CopyBlock(p) ==
  /\ stage[p] = "copy"
  /\ \/ /\ data' = [data EXCEPT ![fd[p]][off[p] + 1] = ver[p]]
        /\ synced' = [synced EXCEPT ![fd[p]] = FALSE]
        /\ off' = [off EXCEPT ![p] = @ + 1]
        /\ Goto(p, AfterBlock(off[p] + 1))
     \/ /\ Goto(p, "remove")
        /\ UNCHANGED <<data, synced, off>>
  /\ UNCHANGED <<dir, ddir, ver, fd>>

(* Mutant: the content is not forced to disk. *)
MutSyncTmp(p) ==
  /\ stage[p] = "sync"
  /\ Goto(p, "close")
  /\ UNCHANGED <<dir, ddir, data, synced, ver, fd, off>>
SyncTmp(p) ==
  /\ stage[p] = "sync"
  /\ \/ /\ synced' = [synced EXCEPT ![fd[p]] = TRUE]
        /\ Goto(p, "close")
     \/ /\ Goto(p, "remove")
        /\ UNCHANGED synced
  /\ UNCHANGED <<dir, ddir, data, ver, fd, off>>

CloseTmp(p) ==
  /\ stage[p] = "close"
  /\ fd' = [fd EXCEPT ![p] = Nil]
  /\ Goto(p, "rename") \/ Goto(p, "remove")
  /\ UNCHANGED <<dir, disk, data, ver, off>>

(* Mutant: an error of the rename is not looked at. *)
MutRename(p) ==
  /\ stage[p] = "rename"
  /\ \/ /\ dir.tmp # Nil
        /\ dir' = [tmp |-> Nil, final |-> dir.tmp]
     \/ UNCHANGED dir
  /\ Goto(p, "done")
  /\ UNCHANGED <<disk, data, ver, fd, off>>
Rename(p) ==
  /\ stage[p] = "rename"
  /\ \/ /\ dir.tmp # Nil
        /\ dir' = [tmp |-> Nil, final |-> dir.tmp]
        /\ Goto(p, "done")
     \/ /\ Goto(p, "remove")
        /\ UNCHANGED dir
  /\ UNCHANGED <<disk, data, ver, fd, off>>

(* The error paths: close if still open, remove the temporary name; an     *)
(* error of the removal is not looked at.                                  *)
RemoveTmp(p) ==
  /\ stage[p] = "remove"
  /\ dir' = [dir EXCEPT !.tmp = Nil] \/ UNCHANGED dir
  /\ fd' = [fd EXCEPT ![p] = Nil]
  /\ Goto(p, "failed")
  /\ UNCHANGED <<disk, data, ver, off>>

InstallerStep(p) ==
  OpenTmp(p) \/ CopyBlock(p) \/ SyncTmp(p) \/ CloseTmp(p) \/ Rename(p) \/ RemoveTmp(p)

-----------------------------------------------------------------------------
(* Around the installers.                                                  *)

Ended(p) == stage[p] \in {"idle", "done", "failed"}

(* The kubelet starts the init container, again after every exit. *)
Start(p, v) ==
  /\ Ended(p)
  /\ Overlap \/ \A q \in Installers : Ended(q)
  /\ stage' = [q \in Installers |-> IF q = p THEN "open" ELSE IF Ended(q) THEN "idle" ELSE stage[q]]
  /\ ver' = [ver EXCEPT ![p] = v]
  /\ off' = [off EXCEPT ![p] = 0]
  /\ UNCHANGED <<dir, disk, data, fd>>

Kill(p) ==
  /\ ~Ended(p)
  /\ Goto(p, "idle")
  /\ fd' = [fd EXCEPT ![p] = Nil]
  /\ off' = [off EXCEPT ![p] = 0]
  /\ UNCHANGED <<dir, disk, data, ver>>

WriteBackNames ==
  /\ ddir' = dir
  /\ UNCHANGED <<dir, data, synced, stage, ver, fd, off>>

After(i) == IF i = Nil THEN {Empty} ELSE IF synced[i] THEN {data[i]} ELSE Contents
PowerLoss ==
  /\ dir' = ddir
  /\ \E t \in After(ddir.tmp), f \in After(ddir.final) :
       data' = [i \in Inodes |-> CASE i = ddir.final -> f [] i = ddir.tmp -> t [] OTHER -> Empty]
  /\ synced' = [i \in Inodes |-> TRUE]
  /\ stage' = [p \in Installers |-> "idle"]
  /\ fd' = [p \in Installers |-> Nil]
  /\ off' = [p \in Installers |-> 0]
  /\ UNCHANGED <<ddir, ver>>

CopyNext ==
  \/ \E p \in Installers : InstallerStep(p) \/ Kill(p) \/ \E v \in Versions : Start(p, v)
  \/ WriteBackNames \/ PowerLoss

CopySpec == CopyInit /\ [][CopyNext]_copyvars

-----------------------------------------------------------------------------
(* Properties.                                                             *)

(* "The runtime must never execute a partial binary" (DESIGN.md; install's *)
(* comment): a file under the final name that nobody has open for writing  *)
(* - the kernel refuses to execute one that somebody has - is one whole    *)
(* version, through kills, failed calls and power losses at any point.     *)
RunsWhole ==
  (dir.final # Nil /\ \A p \in Installers : fd[p] # dir.final)
    => \E v \in Versions : data[dir.final] = Whole(v)

(* The version under the final name, and the one a power loss would leave  *)
(* there; Nil if there is no whole one.                                    *)
Found ==
  LET vs == {v \in Versions : dir.final # Nil /\ data[dir.final] = Whole(v)}
  IN IF vs = {} THEN Nil ELSE CHOOSE v \in vs : TRUE
FoundOnDisk ==
  LET vs == {v \in Versions : ddir.final # Nil /\ After(ddir.final) = {Whole(v)}}
  IN IF vs = {} THEN Nil ELSE CHOOSE v \in vs : TRUE

(* An installer that exits with 0 has put its own version under the final  *)
(* name and left no temporary file, whatever earlier, killed installers    *)
(* left there (install's last lines, O_TRUNC).                             *)
SuccessInstalls ==
  \A p \in Installers : stage[p] = "done" => Found = ver[p] /\ dir.tmp = Nil

(* The installer replaces the binary in one step: the runtime's view goes  *)
(* from one whole version to the next, never to none, and after a power    *)
(* loss to the whole version the disk has (copy, sync and rename).         *)
Atomic == INSTANCE PluginBinary WITH bin <- Found, disk <- FoundOnDisk
ReplacesAtomically == Atomic!Spec
=============================================================================
