-------------------------- MODULE ClatSteps_proofs --------------------------
(***************************************************************************)
(* Proofs about the two components that are followed call by call:         *)
(* Installer, for installers that do not overlap (the final name never     *)
(* refers to a partial binary, success means the new version is there, and *)
(* the installation implements PluginBinary), and SkbProgram, for every    *)
(* option list and every bound of the loop that IHL justifies (the walk of *)
(* ip4_has_source_route agrees with what the options are).                 *)
(***************************************************************************)
EXTENDS Installer, SkbProgram, TLAPS

-----------------------------------------------------------------------------
(* The inductive invariant.                                                *)

TypeOK ==
  /\ dir \in Dirs /\ ddir \in Dirs
  /\ data \in [Inodes -> Contents] /\ synced \in [Inodes -> BOOLEAN]
  /\ stage \in [Installers -> {"idle", "open", "copy", "sync", "close", "rename",
                            "remove", "done", "failed"}]
  /\ ver \in [Installers -> Versions]
  /\ fd \in [Installers -> Inodes \cup {Nil}]
  /\ off \in [Installers -> 0 .. Size]

(* One installer at a time: no two have begun. *)
Serial == \A p, q \in Installers : p # q => stage[p] = "idle" \/ stage[q] = "idle"

(* A final name, as seen or on disk, refers to a whole version that is on  *)
(* disk, and the temporary name to another file.                           *)
Good(ino) == synced[ino] /\ \E v \in Versions : data[ino] = Whole(v)
Names ==
  /\ dir.final # Nil => Good(dir.final)
  /\ ddir.final # Nil => Good(ddir.final)
  /\ dir.tmp # Nil => dir.tmp \notin {dir.final, ddir.final}
  /\ ddir.tmp # Nil => ddir.tmp # ddir.final

(* What an installer has done by the step it is at.  Its open file is the  *)
(* one under the temporary name.                                           *)
Copied(p, n) == \A b \in 1 .. n : data[dir.tmp][b] = ver[p]
DoneSoFar(p) ==
  /\ stage[p] \in {"idle", "open", "rename", "done", "failed"} => fd[p] = Nil
  /\ stage[p] = "open" => off[p] = 0
  /\ stage[p] \in {"copy", "sync", "close"} => fd[p] = dir.tmp /\ dir.tmp # Nil
  /\ stage[p] = "remove" => fd[p] \in {Nil, dir.tmp}
  /\ stage[p] = "copy" => off[p] < Size /\ Copied(p, off[p])
  /\ stage[p] \in {"sync", "close", "rename"} => dir.tmp # Nil /\ data[dir.tmp] = Whole(ver[p])
  /\ stage[p] \in {"close", "rename"} => synced[dir.tmp]
  /\ stage[p] = "done" => /\ dir.tmp = Nil /\ dir.final # Nil
                       /\ data[dir.final] = Whole(ver[p])

InstallerInv == TypeOK /\ Serial /\ Names /\ \A p \in Installers : DoneSoFar(p)
-----------------------------------------------------------------------------
(* Contents.                                                               *)

LEMMA ContentsTypes ==
  /\ Empty \in Contents
  /\ \A v \in Versions \cup {Nil} : Whole(v) \in Contents
  /\ \A v, w : Whole(v) = Whole(w) => v = w
  /\ 1 \in Blocks
<1>1. 1 \in Blocks
  BY InstallerAssumption DEF Blocks
<1>2. \A v, w : Whole(v) = Whole(w) => v = w
  <2> SUFFICES ASSUME NEW v, NEW w, Whole(v) = Whole(w) PROVE v = w
    OBVIOUS
  <2>1. Whole(v)[1] = v /\ Whole(w)[1] = w
    BY <1>1 DEF Whole
  <2> QED
    BY <2>1
<1> QED
  BY <1>1, <1>2 DEF Empty, Whole, Contents

(* A power loss leaves some content, and what was synced as it was. *)
LEMMA AfterIs ==
  ASSUME TypeOK
  PROVE  /\ \A ino \in Inodes \cup {Nil} : After(ino) \subseteq Contents
         /\ \A ino \in Inodes : synced[ino] => After(ino) = {data[ino]}
BY ContentsTypes, InstallerAssumption DEF TypeOK, After

-----------------------------------------------------------------------------
(* The invariant holds of the first states, and every step keeps it.       *)

LEMMA InitInv == CopyInit => InstallerInv
<1> SUFFICES ASSUME CopyInit PROVE InstallerInv
  OBVIOUS
<1> DEFINE ino == CHOOSE j \in Inodes : TRUE
<1>0. ino \in Inodes /\ ino # Nil
  BY InstallerAssumption
<1> HIDE DEF ino
<1>1. PICK v \in Versions \cup {Nil} :
        /\ dir = [tmp |-> Nil, final |-> IF v = Nil THEN Nil ELSE ino] /\ ddir = dir
        /\ data = [j \in Inodes |-> IF j = ino THEN Whole(v) ELSE Empty]
        /\ synced = [j \in Inodes |-> TRUE]
        /\ stage = [p \in Installers |-> "idle"]
        /\ ver = [p \in Installers |-> CHOOSE w \in Versions : TRUE]
        /\ fd = [p \in Installers |-> Nil]
        /\ off = [p \in Installers |-> 0]
  BY Zenon DEF CopyInit, ino
<1>2. TypeOK
  <2>1. (CHOOSE w \in Versions : TRUE) \in Versions
    BY InstallerAssumption
  <2>2. dir \in Dirs /\ ddir \in Dirs
    BY <1>0, <1>1 DEF Dirs
  <2>3. data \in [Inodes -> Contents]
    BY <1>1, ContentsTypes
  <2>4. synced \in [Inodes -> BOOLEAN]
    BY <1>1, Zenon
  <2>5. 0 \in 0 .. Size
    BY InstallerAssumption
  <2> QED
    BY <1>1, <2>1, <2>2, <2>3, <2>4, <2>5 DEF TypeOK
<1>3. Names
  <2>1. dir.tmp = Nil /\ ddir.tmp = Nil /\ dir.final = ddir.final
    BY <1>1
  <2>2. dir.final # Nil => v \in Versions /\ dir.final = ino
    BY <1>1
  <2>3. synced[ino] /\ data[ino] = Whole(v)
    BY <1>0, <1>1
  <2> QED
    BY <2>1, <2>2, <2>3 DEF Names, Good
<1>4. Serial /\ \A p \in Installers : DoneSoFar(p)
  BY <1>1 DEF Serial, DoneSoFar
<1> QED
  BY <1>2, <1>3, <1>4 DEF InstallerInv

(* A step of installer p leaves the others where they are, and idle. *)
LEMMA OthersIdle ==
  ASSUME TypeOK, Serial, NEW p \in Installers, stage[p] # "idle",
         NEW next, Goto(p, next),
         \A q \in Installers \ {p} : DoneSoFar(q),
         NEW f, fd' = [fd EXCEPT ![p] = f]
  PROVE  /\ stage'[p] = next /\ fd'[p] = f /\ Serial'
         /\ \A q \in Installers \ {p} : DoneSoFar(q)'
<1>1. /\ stage'[p] = next /\ fd'[p] = f
      /\ \A q \in Installers \ {p} : stage'[q] = stage[q] /\ fd'[q] = fd[q] /\ stage[q] = "idle"
  BY DEF TypeOK, Serial, Goto
<1> QED
  BY <1>1 DEF Serial, DoneSoFar
(* What a step of p has to show: the types, the names, and where p is. *)
LEMMA StepSuffices ==
  ASSUME InstallerInv, NEW p \in Installers, stage[p] # "idle", NEW next, Goto(p, next),
         NEW f, fd' = [fd EXCEPT ![p] = f],
         TypeOK', Names', DoneSoFar(p)'
  PROVE  InstallerInv'
<1>1. TypeOK /\ Serial /\ \A q \in Installers : DoneSoFar(q)
  BY DEF InstallerInv
<1>2. Serial' /\ \A q \in Installers \ {p} : DoneSoFar(q)'
  BY <1>1, OthersIdle, Zenon
<1> QED
  BY <1>2 DEF InstallerInv

(* A step that leaves the final names and their content as they are. *)
Steady ==
  /\ dir'.final = dir.final /\ ddir' = ddir
  /\ \A ino \in Inodes : ino \in {dir.final, ddir.final}
       => data'[ino] = data[ino] /\ synced'[ino] = synced[ino]

(* The temporary name is created, or what an earlier installer left under  *)
(* it is truncated.                                                        *)
LEMMA OpenStep ==
  ASSUME InstallerInv, NEW p \in Installers, OpenTmp(p)
  PROVE  InstallerInv' /\ Steady
<1>0. /\ TypeOK /\ Names /\ DoneSoFar(p) /\ stage[p] = "open" /\ fd[p] = Nil /\ off[p] = 0
      /\ ddir' = ddir /\ ver' = ver /\ off' = off
  BY DEF InstallerInv, OpenTmp, DoneSoFar
<1>1. CASE Goto(p, "failed") /\ UNCHANGED <<dir, data, synced, fd>>
  <2>1. TypeOK'
    BY <1>0, <1>1 DEF TypeOK, Goto
  <2>2. Names' /\ fd' = [fd EXCEPT ![p] = Nil] /\ stage'[p] = "failed"
    BY <1>0, <1>1 DEF Names, Good, TypeOK, Goto
  <2>3. DoneSoFar(p)'
    BY <1>0, <1>1, <2>2 DEF DoneSoFar
  <2>4. InstallerInv'
    BY <1>0, <1>1, <2>1, <2>2, <2>3, StepSuffices, Zenon
  <2> QED
    BY <1>0, <1>1, <2>4 DEF Steady
<1>2. CASE /\ dir.tmp # Nil
           /\ data' = [data EXCEPT ![dir.tmp] = Empty]
           /\ synced' = [synced EXCEPT ![dir.tmp] = FALSE]
           /\ fd' = [fd EXCEPT ![p] = dir.tmp]
           /\ Goto(p, "copy")
           /\ UNCHANGED dir
  <2>1. dir.tmp \in Inodes
    BY <1>0, <1>2 DEF TypeOK, Dirs
  <2>2. TypeOK'
    <3>1. data' \in [Inodes -> Contents] /\ fd' \in [Installers -> Inodes \cup {Nil}]
      BY <1>0, <1>2, <2>1, ContentsTypes DEF TypeOK
    <3>2. synced' \in [Inodes -> BOOLEAN]
      BY <1>0, <1>2, Zenon DEF TypeOK
    <3> QED
      BY <1>0, <1>2, <3>1, <3>2 DEF TypeOK, Goto
  <2>3. \A ino \in Inodes : ino \in {dir.final, ddir.final}
          => data'[ino] = data[ino] /\ synced'[ino] = synced[ino]
    BY <1>0, <1>2, Zenon DEF Names, TypeOK
  <2>4. Names'
    BY <1>0, <1>2, <2>3 DEF Names, Good, TypeOK, Dirs
  <2>5. stage'[p] = "copy" /\ fd'[p] = dir.tmp
    BY <1>0, <1>2 DEF TypeOK, Goto
  <2>6. DoneSoFar(p)'
    BY <1>0, <1>2, <2>5, InstallerAssumption DEF DoneSoFar, Copied
  <2>7. InstallerInv'
    BY <1>0, <1>2, <2>2, <2>4, <2>6, StepSuffices, Zenon
  <2> QED
    BY <1>0, <1>2, <2>3, <2>7, Zenon DEF Steady
<1>3. CASE /\ dir.tmp = Nil /\ Free # {}
           /\ LET ino == CHOOSE j \in Free : TRUE IN
              /\ dir' = [dir EXCEPT !.tmp = ino]
              /\ data' = [j \in Inodes |-> IF j \in Free THEN Empty ELSE data[j]]
              /\ synced' = [j \in Inodes |-> j # ino /\ (j \in Free \/ synced[j])]
              /\ fd' = [fd EXCEPT ![p] = ino]
           /\ Goto(p, "copy")
  <2> DEFINE ino == CHOOSE j \in Free : TRUE
  <2>0. ino \in Free
    BY <1>3
  <2> HIDE DEF ino
  <2>1. /\ ino \in Inodes /\ ino # Nil /\ ino \notin {dir.final, ddir.final}
        /\ dir.final \notin Free /\ ddir.final \notin Free
    BY <2>0, InstallerAssumption DEF Free
  <2>2. /\ dir' = [dir EXCEPT !.tmp = ino]
        /\ data' = [j \in Inodes |-> IF j \in Free THEN Empty ELSE data[j]]
        /\ synced' = [j \in Inodes |-> j # ino /\ (j \in Free \/ synced[j])]
        /\ fd' = [fd EXCEPT ![p] = ino] /\ Goto(p, "copy")
    BY <1>3 DEF ino
  <2>3. TypeOK'
    <3>1. /\ dir' \in Dirs
          /\ data' \in [Inodes -> Contents] /\ fd' \in [Installers -> Inodes \cup {Nil}]
      BY <1>0, <2>1, <2>2, ContentsTypes DEF TypeOK, Dirs
    <3>2. synced' \in [Inodes -> BOOLEAN]
      BY <2>2, Zenon
    <3> QED
      BY <1>0, <2>2, <3>1, <3>2 DEF TypeOK, Goto
  <2>4. dir'.tmp = ino /\ dir'.final = dir.final
    BY <1>0, <2>2 DEF TypeOK, Dirs
  <2>5. \A j \in Inodes : j \in {dir.final, ddir.final}
          => data'[j] = data[j] /\ synced'[j] = synced[j]
    <3> SUFFICES ASSUME NEW j \in Inodes, j \in {dir.final, ddir.final}
                 PROVE  data'[j] = data[j] /\ synced'[j] = synced[j]
      OBVIOUS
    <3>1. synced'[j] = (j # ino /\ (j \in Free \/ synced[j])) /\ synced[j] \in BOOLEAN
      BY <1>0, <2>2 DEF TypeOK
    <3>2. j # ino /\ j \notin Free
      BY <2>1
    <3>3. synced'[j] = synced[j]
      BY <3>1, <3>2, Zenon
    <3> QED
      BY <2>2, <3>2, <3>3
  <2>6. Names'
    BY <1>0, <2>1, <2>4, <2>5 DEF Names, Good, TypeOK, Dirs
  <2>7. stage'[p] = "copy" /\ fd'[p] = ino
    BY <1>0, <2>2 DEF TypeOK, Goto
  <2>8. DoneSoFar(p)'
    BY <1>0, <2>1, <2>4, <2>7, InstallerAssumption DEF DoneSoFar, Copied
  <2>9. InstallerInv'
    BY <1>0, <2>2, <2>3, <2>6, <2>8, StepSuffices, Zenon
  <2> QED
    BY <1>0, <2>4, <2>5, <2>9 DEF Steady
<1> QED
  BY <1>1, <1>2, <1>3 DEF OpenTmp
(* io.Copy writes the next block, or fails. *)
LEMMA CopyStep ==
  ASSUME InstallerInv, NEW p \in Installers, CopyBlock(p)
  PROVE  InstallerInv' /\ Steady
<1> DEFINE ino == dir.tmp
           n == off[p] + 1
<1>0. /\ TypeOK /\ Names /\ stage[p] = "copy" /\ fd[p] = ino /\ ino # Nil /\ ino \in Inodes
      /\ off[p] < Size /\ Copied(p, off[p]) /\ off[p] \in Nat /\ Size \in Nat
      /\ dir' = dir /\ ddir' = ddir /\ ver' = ver /\ fd' = fd /\ fd' = [fd EXCEPT ![p] = ino]
  <2>1. TypeOK /\ Names /\ DoneSoFar(p) /\ stage[p] = "copy" /\ Size \in Nat
        /\ dir' = dir /\ ddir' = ddir /\ ver' = ver /\ fd' = fd
    BY InstallerAssumption DEF InstallerInv, CopyBlock
  <2>2. off[p] \in 0 .. Size /\ ino \in Inodes \cup {Nil}
    BY <2>1 DEF TypeOK, Dirs
  <2>3. fd[p] = ino /\ ino # Nil /\ off[p] < Size /\ Copied(p, off[p])
    BY <2>1 DEF DoneSoFar
  <2> QED
    BY <2>1, <2>2, <2>3 DEF TypeOK
<1> HIDE DEF ino
<1>1. CASE Goto(p, "remove") /\ UNCHANGED <<data, synced, off>>
  <2>1. TypeOK' /\ Names' /\ stage'[p] = "remove"
    BY <1>0, <1>1 DEF TypeOK, Names, Good, Goto
  <2>2. DoneSoFar(p)'
    BY <1>0, <2>1 DEF DoneSoFar, ino
  <2>3. InstallerInv'
    BY <1>0, <1>1, <2>1, <2>2, StepSuffices, Zenon
  <2> QED
    BY <1>0, <1>1, <2>3 DEF Steady
<1>2. CASE /\ data' = [data EXCEPT ![fd[p]][off[p] + 1] = ver[p]]
           /\ synced' = [synced EXCEPT ![fd[p]] = FALSE]
           /\ off' = [off EXCEPT ![p] = @ + 1]
           /\ Goto(p, AfterBlock(off[p] + 1))
  <2>0. n \in Blocks /\ ver[p] \in Versions /\ data[ino] \in Contents
    BY <1>0 DEF TypeOK, Blocks
  <2>1. data' = [data EXCEPT ![ino] = [data[ino] EXCEPT ![n] = ver[p]]]
    BY <1>0, <1>2
  <2>2. [data[ino] EXCEPT ![n] = ver[p]] \in Contents
    BY <2>0 DEF Contents
  <2>3. /\ data'[ino] = [data[ino] EXCEPT ![n] = ver[p]]
        /\ off'[p] = n
        /\ stage'[p] = (IF n = Size THEN "sync" ELSE "copy")
    BY <1>0, <1>2, <2>1 DEF TypeOK, Goto, AfterBlock
  <2>4. TypeOK'
    <3>1. data' \in [Inodes -> Contents]
      BY <1>0, <2>1, <2>2 DEF TypeOK
    <3>2. synced' \in [Inodes -> BOOLEAN]
      BY <1>0, <1>2, Zenon DEF TypeOK
    <3>3. off' \in [Installers -> 0 .. Size]
      BY <1>0, <1>2 DEF TypeOK
    <3>4. stage' \in [Installers -> {"idle", "open", "copy", "sync", "close", "rename",
                                  "remove", "done", "failed"}]
      BY <1>0, <1>2 DEF TypeOK, Goto, AfterBlock
    <3> QED
      BY <1>0, <3>1, <3>2, <3>3, <3>4, Zenon DEF TypeOK
  <2>5. Steady
    BY <1>0, <1>2, <2>1, Zenon DEF Steady, Names, TypeOK, ino
  <2>6. Names'
    BY <1>0, <2>5 DEF Steady, Names, Good, TypeOK, Dirs
  <2>7. \A b \in 1 .. n : data'[ino][b] = ver[p]
    <3>1. \A b \in 1 .. off[p] : data[ino][b] = ver[p]
      BY <1>0 DEF Copied, ino
    <3>2. \A b \in 1 .. n : b \in Blocks /\ (b = n \/ b \in 1 .. off[p])
      BY <1>0 DEF Blocks
    <3> QED
      BY <2>0, <2>3, <3>1, <3>2 DEF Contents
  <2>8. n = Size => data'[ino] = Whole(ver[p])
    <3>1. data'[ino] \in Contents
      BY <2>2, <2>3
    <3> QED
      BY <2>7, <3>1, Zenon DEF Contents, Whole, Blocks
  <2>9. DoneSoFar(p)'
    <3>1. n # Size => n < Size
      BY <1>0
    <3> HIDE DEF n
    <3> QED
      BY <1>0, <2>3, <2>7, <2>8, <3>1 DEF DoneSoFar, Copied, ino
  <2>10. InstallerInv'
    BY <1>0, <1>2, <2>4, <2>6, <2>9, StepSuffices, Zenon
  <2> QED
    BY <2>5, <2>10
<1> QED
  BY <1>1, <1>2 DEF CopyBlock
(* Sync puts the whole copy on disk; a failed sync or close, and the error *)
(* path, touch no final name.                                              *)
LEMMA SyncStep ==
  ASSUME InstallerInv, NEW p \in Installers, SyncTmp(p) \/ CloseTmp(p) \/ RemoveTmp(p)
  PROVE  InstallerInv' /\ Steady
<1>0. TypeOK /\ Names /\ DoneSoFar(p)
  BY DEF InstallerInv
<1>1. CASE SyncTmp(p)
  <2>0. /\ stage[p] = "sync" /\ fd[p] = dir.tmp /\ dir.tmp # Nil /\ dir.tmp \in Inodes
        /\ UNCHANGED <<dir, ddir, data, ver, fd, off>> /\ fd' = [fd EXCEPT ![p] = dir.tmp]
        /\ data[dir.tmp] = Whole(ver[p])
    BY <1>0, <1>1 DEF SyncTmp, DoneSoFar, TypeOK, Dirs
  <2>1. CASE Goto(p, "remove") /\ UNCHANGED synced
    <3>1. TypeOK' /\ Names' /\ stage'[p] = "remove"
      BY <1>0, <2>0, <2>1 DEF TypeOK, Names, Good, Goto
    <3>2. DoneSoFar(p)'
      BY <1>0, <2>0, <3>1 DEF DoneSoFar
    <3>3. InstallerInv'
      BY <2>0, <2>1, <3>1, <3>2, StepSuffices, Zenon
    <3> QED
      BY <2>0, <2>1, <3>3 DEF Steady
  <2>2. CASE Goto(p, "close") /\ synced' = [synced EXCEPT ![fd[p]] = TRUE]
    <3>1. TypeOK'
      <4>1. synced' \in [Inodes -> BOOLEAN]
        BY <1>0, <2>2, Zenon DEF TypeOK
      <4> QED
        BY <1>0, <2>0, <2>2, <4>1 DEF TypeOK, Goto
    <3>2. Steady
      BY <1>0, <2>0, <2>2, Zenon DEF Steady, Names, TypeOK
    <3>3. Names'
      BY <1>0, <2>0, <3>2 DEF Steady, Names, Good, TypeOK, Dirs
    <3>4. stage'[p] = "close" /\ synced'[dir.tmp]
      BY <1>0, <2>0, <2>2 DEF TypeOK, Goto
    <3>5. DoneSoFar(p)'
      BY <2>0, <3>4 DEF DoneSoFar
    <3>6. InstallerInv'
      BY <2>0, <2>2, <3>1, <3>3, <3>5, StepSuffices, Zenon
    <3> QED
      BY <3>2, <3>6
  <2> QED
    BY <1>1, <2>1, <2>2 DEF SyncTmp
<1>2. CASE CloseTmp(p)
  <2>0. /\ stage[p] = "close" /\ UNCHANGED <<dir, ddir, synced, data, ver, off>>
        /\ fd' = [fd EXCEPT ![p] = Nil]
        /\ dir.tmp # Nil /\ data[dir.tmp] = Whole(ver[p]) /\ synced[dir.tmp]
    BY <1>0, <1>2 DEF CloseTmp, DoneSoFar, disk
  <2>1. PICK next \in {"rename", "remove"} : Goto(p, next)
    BY <1>2 DEF CloseTmp
  <2>2. TypeOK' /\ Names' /\ stage'[p] = next /\ fd'[p] = Nil
    BY <1>0, <2>0, <2>1 DEF TypeOK, Names, Good, Goto
  <2>3. DoneSoFar(p)'
    BY <2>0, <2>2 DEF DoneSoFar
  <2>4. InstallerInv'
    BY <2>0, <2>1, <2>2, <2>3, StepSuffices, Zenon
  <2> QED
    BY <2>0, <2>4 DEF Steady
<1>3. CASE RemoveTmp(p)
  <2>0. /\ stage[p] = "remove" /\ UNCHANGED <<ddir, synced, data, ver, off>>
        /\ fd' = [fd EXCEPT ![p] = Nil] /\ Goto(p, "failed")
        /\ dir' = [dir EXCEPT !.tmp = Nil] \/ dir' = dir
    BY <1>3 DEF RemoveTmp, disk
  <2>1. dir' \in Dirs /\ dir'.final = dir.final /\ dir'.tmp \in {dir.tmp, Nil}
    BY <1>0, <2>0 DEF TypeOK, Dirs
  <2>2. TypeOK' /\ Names' /\ stage'[p] = "failed" /\ fd'[p] = Nil
    BY <1>0, <2>0, <2>1 DEF TypeOK, Names, Good, Goto
  <2>3. DoneSoFar(p)'
    BY <2>2 DEF DoneSoFar
  <2>4. InstallerInv'
    BY <2>0, <2>2, <2>3, StepSuffices, Zenon
  <2> QED
    BY <2>0, <2>1, <2>4 DEF Steady
<1> QED
  BY <1>1, <1>2, <1>3

(* The rename puts a whole and synced version under the final name. *)
LEMMA RenameStep ==
  ASSUME InstallerInv, NEW p \in Installers, Rename(p)
  PROVE  /\ InstallerInv'
         /\ \/ Steady
            \/ /\ dir'.final # Nil /\ data'[dir'.final] = Whole(ver[p]) /\ ver[p] \in Versions
               /\ UNCHANGED <<ddir, synced, data>>
<1>0. /\ TypeOK /\ Names /\ DoneSoFar(p) /\ stage[p] = "rename" /\ fd[p] = Nil
      /\ UNCHANGED <<ddir, synced, data, ver, fd, off>> /\ fd' = [fd EXCEPT ![p] = Nil]
      /\ dir.tmp # Nil /\ data[dir.tmp] = Whole(ver[p]) /\ synced[dir.tmp]
      /\ ver[p] \in Versions
  BY DEF InstallerInv, Rename, DoneSoFar, disk, TypeOK
<1>1. CASE Goto(p, "remove") /\ UNCHANGED dir
  <2>1. TypeOK' /\ Names' /\ stage'[p] = "remove"
    BY <1>0, <1>1 DEF TypeOK, Names, Good, Goto
  <2>2. DoneSoFar(p)'
    BY <1>0, <2>1 DEF DoneSoFar
  <2>3. InstallerInv'
    BY <1>0, <1>1, <2>1, <2>2, StepSuffices, Zenon
  <2> QED
    BY <1>0, <1>1, <2>3 DEF Steady
<1>2. CASE Goto(p, "done") /\ dir' = [tmp |-> Nil, final |-> dir.tmp]
  <2>1. TypeOK'
    BY <1>0, <1>2 DEF TypeOK, Dirs, Goto
  <2>2. Names'
    BY <1>0, <1>2 DEF Names, Good
  <2>3. stage'[p] = "done" /\ fd'[p] = Nil
    BY <1>0, <1>2 DEF TypeOK, Goto
  <2>4. DoneSoFar(p)'
    BY <1>0, <1>2, <2>3 DEF DoneSoFar
  <2>5. InstallerInv'
    BY <1>0, <1>2, <2>1, <2>2, <2>4, StepSuffices, Zenon
  <2> QED
    BY <1>0, <1>2, <2>5
<1> QED
  BY <1>1, <1>2 DEF Rename

(* An installer starts when no other runs, or is killed. *)
LEMMA ProcessStep ==
  ASSUME ~Overlap, InstallerInv, NEW p \in Installers,
         Kill(p) \/ \E v \in Versions : Start(p, v)
  PROVE  InstallerInv' /\ Steady
<1>0. TypeOK /\ Serial /\ Names /\ \A q \in Installers : DoneSoFar(q)
  BY DEF InstallerInv
<1>s. 0 \in 0 .. Size
  BY InstallerAssumption
<1>1. CASE Kill(p)
  <2>0. /\ stage[p] # "idle" /\ Goto(p, "idle") /\ fd' = [fd EXCEPT ![p] = Nil]
        /\ off' = [off EXCEPT ![p] = 0] /\ UNCHANGED <<dir, ddir, synced, data, ver>>
    BY <1>1 DEF Kill, Ended, disk
  <2>1. TypeOK' /\ Names' /\ stage'[p] = "idle" /\ fd'[p] = Nil
    BY <1>0, <1>s, <2>0 DEF TypeOK, Names, Good, Goto
  <2>2. DoneSoFar(p)'
    BY <2>1 DEF DoneSoFar
  <2>3. InstallerInv'
    BY <2>0, <2>1, <2>2, StepSuffices, Zenon
  <2> QED
    BY <2>0, <2>3 DEF Steady
<1>2. ASSUME NEW v \in Versions, Start(p, v) PROVE InstallerInv' /\ Steady
  <2>0. /\ \A q \in Installers : Ended(q)
        /\ ver' = [ver EXCEPT ![p] = v] /\ off' = [off EXCEPT ![p] = 0]
        /\ UNCHANGED <<dir, ddir, synced, data, fd>>
        /\ stage' = [q \in Installers |->
                       IF q = p THEN "open" ELSE IF Ended(q) THEN "idle" ELSE stage[q]]
    BY <1>2 DEF Start, disk
  <2>1. stage'[p] = "open" /\ off'[p] = 0 /\ \A q \in Installers \ {p} : stage'[q] = "idle"
    BY <1>0, <2>0 DEF TypeOK
  <2>2. \A q \in Installers : fd'[q] = Nil
    BY <1>0, <2>0 DEF Ended, DoneSoFar
  <2>3. TypeOK' /\ Names'
    BY <1>0, <1>s, <2>0, <2>1, Zenon DEF TypeOK, Names, Good
  <2>4. Serial' /\ \A q \in Installers : DoneSoFar(q)'
    BY <2>1, <2>2, Zenon DEF Serial, DoneSoFar
  <2> QED
    BY <2>0, <2>3, <2>4, Zenon DEF InstallerInv, Steady
<1> QED
  BY <1>1, <1>2

(* The directory reaches the disk. *)
LEMMA WriteBackStep ==
  ASSUME InstallerInv, WriteBackNames
  PROVE  InstallerInv'
<1>0. TypeOK /\ Serial /\ Names /\ \A q \in Installers : DoneSoFar(q)
  BY DEF InstallerInv
<1>1. ddir' = dir /\ UNCHANGED <<dir, data, synced, stage, ver, fd, off>>
  BY DEF WriteBackNames
<1>2. TypeOK' /\ Serial' /\ Names'
  BY <1>0, <1>1 DEF TypeOK, Serial, Names, Good
<1>3. \A q \in Installers : DoneSoFar(q)'
  BY <1>0, <1>1 DEF DoneSoFar, Copied
<1> QED
  BY <1>2, <1>3 DEF InstallerInv

(* Power is lost: what the disk has comes back, and the version under the  *)
(* final name there was synced.                                            *)
LEMMA PowerLossStep ==
  ASSUME InstallerInv, PowerLoss
  PROVE  /\ InstallerInv' /\ dir' = ddir /\ ddir' = ddir
         /\ ddir.final # Nil => data'[ddir.final] = data[ddir.final] /\ synced'[ddir.final]
<1>0. TypeOK /\ Names
  BY DEF InstallerInv
<1>1. /\ dir' = ddir /\ ddir' = ddir /\ ver' = ver
      /\ synced' = [ino \in Inodes |-> TRUE]
      /\ stage' = [p \in Installers |-> "idle"] /\ fd' = [p \in Installers |-> Nil]
      /\ off' = [p \in Installers |-> 0]
  BY DEF PowerLoss
<1>2. ddir.tmp \in Inodes \cup {Nil} /\ ddir.final \in Inodes \cup {Nil}
  BY <1>0 DEF TypeOK, Dirs
<1>3. PICK t \in After(ddir.tmp), f \in After(ddir.final) :
        data' = [ino \in Inodes |->
                   CASE ino = ddir.final -> f [] ino = ddir.tmp -> t [] OTHER -> Empty]
  BY DEF PowerLoss
<1>4. t \in Contents /\ f \in Contents
  BY <1>0, <1>2, AfterIs
<1>5. data' \in [Inodes -> Contents]
  BY <1>3, <1>4, ContentsTypes
<1>6. ddir.final # Nil => data'[ddir.final] = data[ddir.final] /\ synced'[ddir.final]
  <2> SUFFICES ASSUME ddir.final # Nil
               PROVE  data'[ddir.final] = data[ddir.final] /\ synced'[ddir.final]
    OBVIOUS
  <2>1. ddir.final \in Inodes /\ synced[ddir.final]
    BY <1>0, <1>2 DEF Names, Good
  <2>2. f = data[ddir.final]
    BY <1>0, <2>1, AfterIs
  <2>3. data'[ddir.final] = f
    <3> DEFINE x == ddir.final
    <3>1. /\ x \in Inodes
          /\ data' = [ino \in Inodes |->
                        CASE ino = x -> f [] ino = ddir.tmp -> t [] OTHER -> Empty]
      BY <1>3, <2>1
    <3>2. (CASE x = x -> f [] x = ddir.tmp -> t [] OTHER -> Empty) = f
      <4>1. x = ddir.tmp => ddir.tmp = Nil
        BY <1>0 DEF Names
      <4>2. x # ddir.tmp
        BY <4>1
      <4> HIDE DEF x
      <4> QED
        BY <4>2
    <3> HIDE DEF x
    <3>3. data'[x] = f
      BY <3>1, <3>2
    <3> QED
      BY <3>3 DEF x
  <2>4. synced'[ddir.final]
    BY <1>1, <2>1
  <2> QED
    BY <2>2, <2>3, <2>4
<1>7. TypeOK'
  <2>1. synced' \in [Inodes -> BOOLEAN]
    BY <1>1, Zenon
  <2>2. 0 \in 0 .. Size
    BY InstallerAssumption
  <2> QED
    BY <1>0, <1>1, <1>5, <2>1, <2>2 DEF TypeOK
<1>8. Names'
  BY <1>0, <1>1, <1>6 DEF Names, Good
<1>9. Serial' /\ \A p \in Installers : DoneSoFar(p)'
  BY <1>1 DEF Serial, DoneSoFar
<1> QED
  BY <1>1, <1>6, <1>7, <1>8, <1>9 DEF InstallerInv

LEMMA InstallerAlways ==
  ASSUME ~Overlap
  PROVE  CopySpec => []InstallerInv
<1>1. InstallerInv /\ [CopyNext]_copyvars => InstallerInv'
  <2> SUFFICES ASSUME InstallerInv, [CopyNext]_copyvars PROVE InstallerInv'
    OBVIOUS
  <2>1. ASSUME NEW p \in Installers, InstallerStep(p) PROVE InstallerInv'
    BY <2>1, OpenStep, CopyStep, SyncStep, RenameStep DEF InstallerStep
  <2>2. ASSUME NEW p \in Installers, Kill(p) \/ \E v \in Versions : Start(p, v)
        PROVE  InstallerInv'
    BY <2>2, ProcessStep
  <2>3. CASE WriteBackNames \/ PowerLoss
    BY <2>3, WriteBackStep, PowerLossStep
  <2>4. CASE UNCHANGED copyvars
    BY <2>4, SMTT(90) DEF copyvars, InstallerInv, TypeOK, Serial, Names, Good, DoneSoFar, Copied
  <2> QED
    BY <2>1, <2>2, <2>3, <2>4 DEF CopyNext
<1> QED
  BY <1>1, InitInv, PTL DEF CopySpec
-----------------------------------------------------------------------------
(* The results.                                                            *)

(* What the runtime finds, and would find after a power loss. *)
FoundFacts ==
  /\ dir.final = Nil => Found = Nil
  /\ \A v \in Versions : dir.final # Nil /\ data[dir.final] = Whole(v) => Found = v
  /\ dir.final # Nil => Found \in Versions
  /\ ddir.final = Nil => FoundOnDisk = Nil
  /\ \A v \in Versions : ddir.final # Nil /\ data[ddir.final] = Whole(v) => FoundOnDisk = v
  /\ ddir.final # Nil => FoundOnDisk \in Versions
LEMMA FoundIs == InstallerInv => FoundFacts
<1> SUFFICES ASSUME InstallerInv PROVE FoundFacts
  OBVIOUS
<1> DEFINE vs == {v \in Versions : dir.final # Nil /\ data[dir.final] = Whole(v)}
           ds == {v \in Versions : ddir.final # Nil /\ After(ddir.final) = {Whole(v)}}
<1>0. TypeOK /\ Names
  BY DEF InstallerInv
<1>1. Found = (IF vs = {} THEN Nil ELSE CHOOSE v \in vs : TRUE)
  BY DEF Found
<1>2. FoundOnDisk = (IF ds = {} THEN Nil ELSE CHOOSE v \in ds : TRUE)
  BY DEF FoundOnDisk
<1>3. \A v \in Versions : dir.final # Nil /\ data[dir.final] = Whole(v) => vs = {v}
  BY ContentsTypes
<1>4. ddir.final # Nil => After(ddir.final) = {data[ddir.final]}
  BY <1>0, AfterIs DEF Names, Good, TypeOK, Dirs
<1>5. \A v \in Versions : ddir.final # Nil /\ data[ddir.final] = Whole(v) => ds = {v}
  <2>1. \A x, y : {x} = {y} => x = y
    OBVIOUS
  <2> QED
    BY <1>4, <2>1, ContentsTypes
<1>6. dir.final = Nil => vs = {}
  OBVIOUS
<1>7. ddir.final = Nil => ds = {}
  OBVIOUS
<1>8. \A v : (CHOOSE w \in {v} : TRUE) = v
  OBVIOUS
<1>9. /\ dir.final # Nil => \E v \in Versions : data[dir.final] = Whole(v)
      /\ ddir.final # Nil => \E v \in Versions : data[ddir.final] = Whole(v)
  BY <1>0 DEF Names, Good
<1> HIDE DEF vs, ds
<1> QED
  BY <1>1, <1>2, <1>3, <1>5, <1>6, <1>7, <1>8, <1>9, Zenon DEF FoundFacts

(* "The runtime must never execute a partial binary" (install's comment):  *)
(* for any number of blocks, versions, restarts, kills, failed calls and   *)
(* power losses, the file under the final name is one whole version, as    *)
(* long as one installer runs at a time.                                   *)
THEOREM NeverPartial ==
  ASSUME ~Overlap
  PROVE  CopySpec => []RunsWhole
<1>1. InstallerInv => RunsWhole
  BY DEF InstallerInv, Names, Good, RunsWhole
<1> QED
  BY <1>1, InstallerAlways, PTL

(* An installer that exits with 0 has put its own version under the final  *)
(* name and left no temporary file (install's O_TRUNC and rename).         *)
THEOREM SuccessMeansInstalled ==
  ASSUME ~Overlap
  PROVE  CopySpec => []SuccessInstalls
<1>1. InstallerInv => SuccessInstalls
  <2> SUFFICES ASSUME InstallerInv, NEW p \in Installers, stage[p] = "done"
               PROVE  Found = ver[p] /\ dir.tmp = Nil
    BY DEF SuccessInstalls
  <2>1. /\ dir.tmp = Nil /\ dir.final # Nil /\ data[dir.final] = Whole(ver[p])
        /\ ver[p] \in Versions
    BY DEF InstallerInv, DoneSoFar, TypeOK
  <2> QED
    BY <2>1, FoundIs DEF FoundFacts
<1> QED
  BY <1>1, InstallerAlways, PTL

(* Copy, sync and rename replace the binary in one step (install): every   *)
(* step of an installer, of a kill or of a power loss is one of            *)
(* PluginBinary's, or leaves alone what the runtime finds.                 *)
THEOREM InstallIsAtomic ==
  ASSUME ~Overlap
  PROVE  CopySpec => ReplacesAtomically
<1>1. CopyInit => Atomic!Init
  <2> SUFFICES ASSUME CopyInit PROVE Found \in Versions \cup {Nil} /\ FoundOnDisk = Found
    BY DEF Atomic!Init
  <2>1. InstallerInv /\ ddir = dir
    BY InitInv, Zenon DEF CopyInit
  <2>2. dir.final # Nil => \E v \in Versions : data[dir.final] = Whole(v)
    BY <2>1 DEF InstallerInv, Names, Good
  <2> QED
    BY <2>1, <2>2, FoundIs DEF FoundFacts
<1>f. InstallerInv' => FoundFacts'
  BY FoundIs, PTL
<1>2. InstallerInv /\ InstallerInv' /\ [CopyNext]_copyvars => [Atomic!Next]_<<Found, FoundOnDisk>>
  <2> SUFFICES ASSUME InstallerInv, InstallerInv', [CopyNext]_copyvars
               PROVE  [Atomic!Next]_<<Found, FoundOnDisk>>
    OBVIOUS
  <2>0. /\ dir.final \in Inodes \cup {Nil} /\ ddir.final \in Inodes \cup {Nil}
        /\ dir.final # Nil => \E v \in Versions : data[dir.final] = Whole(v)
        /\ ddir.final # Nil => \E v \in Versions : data[ddir.final] = Whole(v)
    BY DEF InstallerInv, TypeOK, Dirs, Names, Good
  <2>1. FoundFacts /\ FoundFacts'
    BY <1>f, FoundIs
  <2>2. CASE Steady
    <3>1. Found' = Found /\ FoundOnDisk' = FoundOnDisk
      BY <2>0, <2>1, <2>2 DEF FoundFacts, Steady
    <3> QED
      BY <3>1
  <2>3. ASSUME NEW p \in Installers, dir'.final # Nil, data'[dir'.final] = Whole(ver[p]),
               ver[p] \in Versions, UNCHANGED <<ddir, synced, data>>
        PROVE  Atomic!Next
    <3>1. Found' \in Versions /\ FoundOnDisk' = FoundOnDisk
      BY <2>0, <2>1, <2>3 DEF FoundFacts
    <3> QED
      BY <3>1 DEF Atomic!Next, Atomic!Replace
  <2>4. CASE WriteBackNames
    <3>1. Found' = Found /\ FoundOnDisk' = Found
      BY <2>0, <2>1, <2>4 DEF FoundFacts, WriteBackNames
    <3> QED
      BY <3>1 DEF Atomic!Next, Atomic!WriteBack
  <2>5. CASE PowerLoss
    <3>1. Found' = FoundOnDisk /\ FoundOnDisk' = FoundOnDisk
      BY <2>0, <2>1, <2>5, PowerLossStep DEF FoundFacts
    <3> QED
      BY <3>1 DEF Atomic!Next, Atomic!PowerLoss
  <2>6. CASE UNCHANGED copyvars
    BY <2>2, <2>6 DEF copyvars, Steady
  <2>7. ASSUME NEW p \in Installers, InstallerStep(p) PROVE [Atomic!Next]_<<Found, FoundOnDisk>>
    BY <2>2, <2>3, <2>7, OpenStep, CopyStep, SyncStep, RenameStep, Zenon DEF InstallerStep
  <2>8. ASSUME NEW p \in Installers, Kill(p) \/ \E v \in Versions : Start(p, v)
        PROVE  [Atomic!Next]_<<Found, FoundOnDisk>>
    BY <2>2, <2>8, ProcessStep
  <2> QED
    BY <2>4, <2>5, <2>6, <2>7, <2>8 DEF CopyNext
<1> QED
  BY <1>1, <1>2, InstallerAlways, PTL DEF CopySpec, ReplacesAtomically, Atomic!Spec

-----------------------------------------------------------------------------
Numbers == INSTANCE SumTheorems

(* Reading is a recursive function of the position in the list; each value *)
(* depends on one further right.                                           *)

(* What the option at j makes of the list, if r says what the rest is. *)
Read(r, j) ==
  IF j = optlen + 1 \/ o[j] = 0 THEN "plain"
  ELSE IF o[j] = 1 THEN r[j + 1]
  ELSE IF o[j] \in {131, 137} THEN "route"
  ELSE IF j = optlen \/ o[j + 1] < 2 THEN "malformed"
  ELSE IF j + o[j + 1] > optlen + 1 THEN "overrun"
  ELSE r[j + o[j + 1]]

(* A function that reads the list from position a on. *)
ReadsFrom(r, a) == r = [j \in a..(optlen + 1) |-> Read(r, j)]

LEMMA ElementsOf ==
  ASSUME NEW S, NEW q \in Seq(S)
  PROVE  Len(q) \in Nat /\ \A j \in 1..Len(q) : q[j] \in S
  OBVIOUS

LEMMA OptionBytes ==
  ASSUME o \in Seq(0..255)
  PROVE  optlen \in Nat /\ \A j \in 1..optlen : o[j] \in 0..255
<1>1. Len(o) \in Nat /\ \A j \in 1..Len(o) : o[j] \in 0..255
  BY ElementsOf, Zenon
<1> QED
  BY <1>1, Zenon DEF optlen

LEMMA ReadDepends ==
  ASSUME o \in Seq(0..255), NEW j \in 1..(optlen + 1), NEW r, NEW s,
         \A x \in (j + 1)..(optlen + 1) : r[x] = s[x]
  PROVE  Read(r, j) = Read(s, j)
<1>1. optlen \in Nat /\ \A x \in 1..optlen : o[x] \in 0..255
  BY OptionBytes
<1>2. CASE j = optlen + 1
  BY <1>2 DEF Read
<1>3. CASE j # optlen + 1
  <2>1. j \in 1..optlen /\ o[j] \in 0..255 /\ j + 1 \in (j + 1)..(optlen + 1)
    BY <1>1, <1>3
  <2>2. r[j + 1] = s[j + 1]
    BY <2>1
  <2>3. ASSUME j # optlen, ~(o[j + 1] < 2), ~(j + o[j + 1] > optlen + 1)
        PROVE  r[j + o[j + 1]] = s[j + o[j + 1]]
    <3>1. o[j + 1] \in 0..255
      BY <1>1, <2>1, <2>3, SMTT(90)
    <3>2. j + o[j + 1] \in (j + 1)..(optlen + 1)
      <4> DEFINE b == o[j + 1]
      <4>1. b \in 0..255 /\ ~(b < 2) /\ ~(j + b > optlen + 1)
        BY <2>3, <3>1, Zenon
      <4> HIDE DEF b
      <4>2. j + b \in (j + 1)..(optlen + 1)
        BY <1>1, <2>1, <4>1
      <4> QED
        BY <4>2 DEF b
    <3> QED
      BY <3>2
  <2> QED
    BY <1>3, <2>1, <2>2, <2>3 DEF Read
<1> QED
  BY <1>2, <1>3

LEMMA ReadsFromExists ==
  ASSUME o \in Seq(0..255), NEW n \in 0..optlen
  PROVE  \E r : ReadsFrom(r, optlen + 1 - n)
<1>1. optlen \in Nat
  BY OptionBytes
<1> DEFINE bad == {m \in 0..optlen : ~ \E r : ReadsFrom(r, optlen + 1 - m)}
<1> SUFFICES ASSUME bad # {} PROVE FALSE
  OBVIOUS
<1>2. PICK m \in bad : \A x \in bad : m <= x
  <2>1. bad \in SUBSET Nat
    BY <1>1
  <2> HIDE DEF bad
  <2> QED
    BY <2>1, Numbers!LeastNumber
<1>3. m \in 0..optlen /\ ~ \E r : ReadsFrom(r, optlen + 1 - m)
  OBVIOUS
<1>4. CASE m = 0
  <2> DEFINE r == [j \in (optlen + 1)..(optlen + 1) |-> "plain"]
  <2>1. \A j \in (optlen + 1)..(optlen + 1) : Read(r, j) = "plain"
    BY <1>1 DEF Read
  <2>2. r = [j \in (optlen + 1)..(optlen + 1) |-> Read(r, j)]
    BY <2>1
  <2>3. optlen + 1 - m = optlen + 1
    BY <1>1, <1>4
  <2>4. ReadsFrom(r, optlen + 1 - m)
    BY <2>2, <2>3, Zenon DEF ReadsFrom
  <2> QED
    BY <1>3, <2>4
<1>5. CASE m # 0
  <2> DEFINE a == optlen + 1 - m
  <2>1. m - 1 \in 0..optlen /\ m - 1 \notin bad
    <3> HIDE DEF bad
    <3> QED
      BY <1>1, <1>2, <1>3, <1>5
  <2>2. PICK r : ReadsFrom(r, optlen + 1 - (m - 1))
    BY <2>1
  <2>3. a \in 1..optlen /\ optlen + 1 - (m - 1) = a + 1
    BY <1>1, <1>3, <1>5
  <2>4. r = [j \in (a + 1)..(optlen + 1) |-> Read(r, j)]
    BY <2>2, <2>3, Zenon DEF ReadsFrom
  <2> HIDE DEF a
  <2> DEFINE s == [j \in a..(optlen + 1) |-> IF j = a THEN Read(r, a) ELSE r[j]]
  <2>5. \A x \in (a + 1)..(optlen + 1) : s[x] = r[x]
    BY <1>1, <2>3
  <2>6. ASSUME NEW j \in a..(optlen + 1) PROVE s[j] = Read(s, j)
    <3>1. j \in 1..(optlen + 1) /\ \A x \in (j + 1)..(optlen + 1) : s[x] = r[x]
      BY <1>1, <2>3, <2>5
    <3> HIDE DEF s
    <3>2. Read(s, j) = Read(r, j)
      BY <3>1, ReadDepends, Zenon
    <3>3. s[j] = IF j = a THEN Read(r, a) ELSE r[j]
      BY DEF s
    <3>4. j # a => j \in (a + 1)..(optlen + 1)
      BY <1>1, <2>3
    <3>5. j # a => r[j] = Read(r, j)
      BY <2>4, <3>4, Zenon
    <3> QED
      BY <3>2, <3>3, <3>5
  <2>7. s = [j \in a..(optlen + 1) |-> Read(s, j)]
    BY <2>6
  <2>8. ReadsFrom(s, a)
    BY <2>7 DEF ReadsFrom
  <2> QED
    BY <1>3, <2>8 DEF a
<1> QED
  BY <1>4, <1>5

LEMMA ReadingIs ==
  ASSUME o \in Seq(0..255)
  PROVE  /\ Reading = ReadingFrom[1]
         /\ \A j \in 1..(optlen + 1) : ReadingFrom[j] = Read(ReadingFrom, j)
<1>1. optlen \in Nat
  BY OptionBytes
<1>2. PICK r : ReadsFrom(r, optlen + 1 - optlen)
  <2>1. optlen \in 0..optlen
    BY <1>1
  <2> QED
    BY <2>1, ReadsFromExists, Zenon
<1>3. optlen + 1 - optlen = 1
  BY <1>1
<1>4. r = [j \in 1..(optlen + 1) |-> Read(r, j)]
  BY <1>2, <1>3, Zenon DEF ReadsFrom
<1>5. ReadingFrom = [j \in 1..(optlen + 1) |-> Read(ReadingFrom, j)]
  <2> DEFINE the == CHOOSE f : f = [j \in 1..(optlen + 1) |-> Read(f, j)]
  <2>1. ReadingFrom = the
    BY DEF ReadingFrom, Read
  <2>2. the = [j \in 1..(optlen + 1) |-> Read(the, j)]
    <3> HIDE DEF Read
    <3> QED
      BY <1>4, Zenon
  <2> HIDE DEF the
  <2> QED
    BY <2>1, <2>2, Zenon
<1>6. Reading = ReadingFrom[1]
  BY DEF Reading
<1> QED
  BY <1>5, <1>6, Zenon

-----------------------------------------------------------------------------
(* The inductive invariant.  The rest of the list still decides what the   *)
(* list is, unless the walk has run past its end; and no turn moves by     *)
(* less than a byte, so the turns last for the longest list.               *)
OnTheWay ==
  /\ o \in OptionLists
  /\ i \in Nat /\ turns \in Nat /\ turns <= i
  /\ Reading = IF i <= optlen THEN ReadingFrom[i + 1] ELSE "overrun"
WalkInv ==
  /\ at \in {"walk", "done", "none"}
  /\ at = "walk" => OnTheWay
  /\ RouteIsFound

LEMMA ListsAre ==
  ASSUME o \in OptionLists
  PROVE  o \in Seq(0..255) /\ MaxOptlen \in Nat /\ optlen <= MaxOptlen /\ optlen \in 4..MaxOptlen
  BY OptionAssumption DEF optlen

LEMMA WalkStarts == Init => WalkInv
<1> SUFFICES ASSUME Init PROVE WalkInv
  OBVIOUS
<1>1. /\ o \in ListsOf(k) /\ i = 0 /\ turns = 0
      /\ at = IF k.opts = 0 THEN "none" ELSE "walk"
  BY DEF Init, WalkInit
<1>2. CASE k.opts = 0
  BY <1>1, <1>2 DEF WalkInv, RouteIsFound
<1>3. CASE k.opts # 0
  <2>1. o \in OptionLists
    BY <1>1, <1>3, FewAssumption DEF ListsOf
  <2>2. o \in Seq(0..255) /\ 0 <= optlen
    BY <2>1, ListsAre
  <2>3. Reading = ReadingFrom[i + 1]
    BY <1>1 DEF Reading
  <2> QED
    BY <1>1, <1>3, <2>1, <2>2, <2>3 DEF WalkInv, OnTheWay, RouteIsFound
<1> QED
  BY <1>2, <1>3

(* What the walk sees at an option, and what the list is then. *)
LEMMA ReadsOption ==
  ASSUME OnTheWay, i < optlen
  PROVE  /\ Byte(i) \in 0..255
         /\ Byte(i) = 0 => Reading = "plain"
         /\ Byte(i) = 1 => Reading = ReadingFrom[i + 2]
         /\ Byte(i) \in {131, 137} => Reading = "route"
         /\ Byte(i) \notin {0, 1, 131, 137} =>
              /\ Malformed(i) => Reading = "malformed"
              /\ ~Malformed(i) =>
                   /\ Byte(i + 1) \in 2..255
                   /\ Reading = IF Behind(i) <= optlen THEN ReadingFrom[Behind(i) + 1]
                                ELSE "overrun"
<1>1. o \in Seq(0..255) /\ optlen \in Nat /\ \A j \in 1..optlen : o[j] \in 0..255
  BY ListsAre, OptionBytes DEF OnTheWay
<1>2. i \in Nat /\ i + 1 \in 1..optlen /\ i + 1 \in 1..(optlen + 1) /\ i + 1 # optlen + 1
  BY <1>1 DEF OnTheWay
<1>3. Reading = Read(ReadingFrom, i + 1)
  <2>1. Reading = ReadingFrom[i + 1]
    BY <1>1, <1>2 DEF OnTheWay
  <2> QED
    BY <1>1, <1>2, <2>1, ReadingIs
<1>4. Byte(i) = o[i + 1] /\ Byte(i) \in 0..255
  BY <1>1, <1>2 DEF Byte
<1>5. Byte(i) = 0 => Reading = "plain"
  BY <1>3, <1>4 DEF Read
<1>6. Byte(i) = 1 => Reading = ReadingFrom[i + 2]
  <2>1. (i + 1) + 1 = i + 2
    BY <1>2
  <2> QED
    BY <1>2, <1>3, <1>4, <2>1 DEF Read
<1>7. Byte(i) \in {131, 137} => Reading = "route"
  BY <1>2, <1>3, <1>4 DEF Read
<1>8. ASSUME Byte(i) \notin {0, 1, 131, 137}
      PROVE  /\ Malformed(i) => Reading = "malformed"
             /\ ~Malformed(i) =>
                  /\ Byte(i + 1) \in 2..255
                  /\ Reading = IF Behind(i) <= optlen THEN ReadingFrom[Behind(i) + 1]
                               ELSE "overrun"
  <2> DEFINE b == o[(i + 1) + 1]
  <2>1. Reading = IF i + 1 = optlen \/ b < 2 THEN "malformed"
                  ELSE IF (i + 1) + b > optlen + 1 THEN "overrun"
                  ELSE ReadingFrom[(i + 1) + b]
    BY <1>2, <1>3, <1>4, <1>8 DEF Read
  <2>2. Byte(i + 1) = b
    BY DEF Byte
  <2>3. Malformed(i) <=> i + 1 = optlen \/ b < 2
    BY <1>1, <1>2, <2>2 DEF Malformed
  <2>4. Behind(i) = i + b
    BY <2>2 DEF Behind
  <2>5. i + 1 # optlen => b \in 0..255
    <3>1. i + 1 # optlen => (i + 1) + 1 \in 1..optlen
      BY <1>1, <1>2
    <3> QED
      BY <1>1, <3>1, Zenon
  <2> HIDE DEF b
  <2>6. ASSUME ~Malformed(i)
        PROVE  /\ b \in 2..255 /\ (i + 1) + b = Behind(i) + 1
               /\ (i + 1) + b > optlen + 1 <=> ~(Behind(i) <= optlen)
    <3>1. b \in 2..255
      BY <2>3, <2>5, <2>6
    <3> QED
      BY <1>1, <1>2, <2>4, <3>1
  <2> QED
    BY <2>1, <2>2, <2>3, <2>6
<1> QED
  BY <1>4, <1>5, <1>6, <1>7, <1>8, Zenon

LEMMA SameReading == o' = o => Reading' = Reading /\ ReadingFrom' = ReadingFrom /\ optlen' = optlen
  BY DEF Reading, ReadingFrom, optlen

LEMMA ExitKeeps == WalkInv /\ Exit => WalkInv'
<1> SUFFICES ASSUME WalkInv, Exit PROVE WalkInv'
  OBVIOUS
<1>1. OnTheWay /\ at' = "done" /\ ret' = FALSE /\ o' = o
  BY DEF WalkInv, Exit, Return
<1>2. o \in Seq(0..255) /\ optlen \in Nat /\ optlen <= MaxOptlen /\ MaxOptlen \in Nat /\ i \in Nat
  BY <1>1, ListsAre, OptionBytes DEF OnTheWay
<1>3. i >= optlen
  BY <1>1, <1>2 DEF Exit, Turns, OnTheWay
<1>4. Reading \in {"plain", "overrun"}
  <2>1. CASE i = optlen
    <3>1. Reading = ReadingFrom[optlen + 1] /\ optlen + 1 \in 1..(optlen + 1)
      BY <1>1, <1>2, <2>1 DEF OnTheWay
    <3> QED
      BY <1>2, <3>1, ReadingIs DEF Read
  <2>2. CASE i # optlen
    BY <1>1, <1>2, <1>3, <2>2 DEF OnTheWay
  <2> QED
    BY <2>1, <2>2
<1> QED
  BY <1>1, <1>4, SameReading DEF WalkInv, RouteIsFound

LEMMA LoadFailsKeeps == WalkInv /\ LoadFails => WalkInv'
<1> SUFFICES ASSUME WalkInv, LoadFails PROVE WalkInv'
  OBVIOUS
<1>1. at' = "done" /\ ret' = TRUE /\ failed' = TRUE
  BY DEF LoadFails, Return
<1> QED
  BY <1>1 DEF WalkInv, RouteIsFound

LEMMA TurnKeeps == WalkInv /\ Turn => WalkInv'
<1> SUFFICES ASSUME WalkInv, Turn PROVE WalkInv'
  OBVIOUS
<1>1. OnTheWay /\ i < optlen /\ o' = o /\ failed' = failed /\ at = "walk"
  BY DEF WalkInv, Turn
<1>2. /\ o \in OptionLists /\ optlen \in Nat /\ i \in Nat /\ turns \in Nat /\ turns <= i
      /\ Byte(i) \in 0..255
  BY <1>1, ListsAre, OptionBytes, ReadsOption, Zenon DEF OnTheWay
<1>3. CASE Byte(i) = 0
  <2>1. at' = "done" /\ ret' = FALSE
    BY <1>3 DEF Turn, Return, IPOPT_LSRR_T, IPOPT_SSRR_T
  <2> QED
    BY <1>1, <1>3, <2>1, ReadsOption, SameReading DEF WalkInv, RouteIsFound
<1>4. CASE Byte(i) = 1
  <2>1. i' = i + 1 /\ turns' = turns + 1 /\ at' = "walk"
    BY <1>1, <1>4 DEF Turn, IPOPT_LSRR_T, IPOPT_SSRR_T
  <2>2. Reading = ReadingFrom[i + 2]
    BY <1>1, <1>4, ReadsOption
  <2>3. OnTheWay'
    BY <1>1, <1>2, <2>1, <2>2, SameReading DEF OnTheWay
  <2> QED
    BY <2>1, <2>3 DEF WalkInv, RouteIsFound
<1>5. CASE Byte(i) \in {131, 137}
  <2>1. at' = "done" /\ ret' = TRUE
    BY <1>5 DEF Turn, Return, IPOPT_LSRR_T, IPOPT_SSRR_T
  <2> QED
    BY <1>1, <1>5, <2>1, ReadsOption, SameReading DEF WalkInv, RouteIsFound
<1>6. CASE Byte(i) \notin {0, 1, 131, 137}
  <2>1. IF Malformed(i) THEN at' = "done" /\ ret' = TRUE
        ELSE i' = Behind(i) /\ turns' = turns + 1 /\ at' = "walk"
    BY <1>1, <1>6 DEF Turn, Return, IPOPT_LSRR_T, IPOPT_SSRR_T
  <2>2. CASE Malformed(i)
    BY <1>1, <1>6, <2>1, <2>2, ReadsOption, SameReading DEF WalkInv, RouteIsFound
  <2>3. CASE ~Malformed(i)
    <3>1. /\ Byte(i + 1) \in 2..255
          /\ Reading = IF Behind(i) <= optlen THEN ReadingFrom[Behind(i) + 1] ELSE "overrun"
      BY <1>1, <1>6, <2>3, ReadsOption
    <3>2. Behind(i) \in Nat /\ turns + 1 <= Behind(i)
      BY <1>2, <3>1 DEF Behind
    <3>3. OnTheWay'
      BY <1>1, <1>2, <2>1, <2>3, <3>1, <3>2, SameReading DEF OnTheWay
    <3> QED
      BY <2>1, <2>3, <3>3 DEF WalkInv, RouteIsFound
  <2> QED
    BY <2>2, <2>3
<1> QED
  BY <1>3, <1>4, <1>5, <1>6

(* For every list of options: ip4_has_source_route finds every source      *)
(* route and every option without a valid length, in the turns the loop    *)
(* has, and returns false for every well-formed list without a route.      *)
THEOREM RoutesAreFound == Spec => []RouteIsFound
<1>1. WalkInv /\ [Next]_vars => WalkInv'
  <2> SUFFICES ASSUME WalkInv, [Next]_vars PROVE WalkInv'
    OBVIOUS
  <2>1. CASE WalkStep
    BY <2>1, ExitKeeps, LoadFailsKeeps, TurnKeeps DEF WalkStep
  <2>2. CASE WalkReturns
    BY <2>2 DEF WalkReturns, WalkInv, RouteIsFound
  <2>3. CASE UNCHANGED walk
    <3>1. o' = o /\ i' = i /\ turns' = turns /\ at' = at /\ ret' = ret /\ failed' = failed
      BY <2>3 DEF walk
    <3>2. OnTheWay => OnTheWay'
      BY <3>1, SameReading DEF OnTheWay
    <3> QED
      BY <3>1, <3>2, SameReading DEF WalkInv, RouteIsFound
  <2> QED
    BY <2>1, <2>2, <2>3 DEF Next, vars
<1>2. WalkInv => RouteIsFound
  BY DEF WalkInv
<1> QED
  BY WalkStarts, <1>1, <1>2, PTL DEF Spec
=============================================================================
