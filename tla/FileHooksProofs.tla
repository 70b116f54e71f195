-------------------------- MODULE FileHooksProofs ---------------------------
(* The file hooks keep the invariant of Capture and record only what they    *)
(* may: what their runs check of the graph, for every value of the constants. *)
EXTENDS FileHooks, CaptureProofs, SequenceTheorems

\* The relation types of the file hooks are flows: their receiver is versioned.
LEMMA FileFlows ==
    /\ {"RL_SND", "RL_WRITE", "RL_SPLICE_OUT", "RL_FILE_LOCK", "RL_MUNMAP", "RL_WRITE_IOCTL"} \subseteq Flows
    /\ {"RL_RCV", "RL_READ", "RL_SEARCH", "RL_SPLICE_IN", "RL_OPEN", "RL_FILE_RCV", "RL_FILE_SIGIO",
        "RL_READ_IOCTL"} \subseteq Flows
    /\ {"RL_MMAP_WRITE", "RL_MMAP_WRITE_PRIVATE", "RL_MMAP_READ", "RL_MMAP_READ_PRIVATE",
        "RL_MMAP_EXEC", "RL_MMAP_EXEC_PRIVATE"} \subseteq Flows
    /\ "RL_EXEC" \in Flows
    /\ LoadTypes \subseteq Flows
<1>1. Derived \ KeepsVersion \subseteq Flows /\ Generated \subseteq Flows BY DEF Flows, RelType, Generated, KeepsVersion
<1>2. Used \ KeepsVersion \subseteq Flows BY Zenon DEF Flows, RelType
<1>3. Influenced \subseteq Flows BY Zenon DEF Flows, RelType, Influenced, KeepsVersion
<1>4. LoadTypes \subseteq Flows BY Zenon, <1>3, FileHooksAssumption
<1>5. {"RL_SND", "RL_WRITE", "RL_SPLICE_OUT", "RL_FILE_LOCK", "RL_MUNMAP", "RL_WRITE_IOCTL"} \subseteq Generated
    BY Zenon DEF Generated
<1>6. {"RL_RCV", "RL_READ", "RL_SEARCH", "RL_SPLICE_IN", "RL_OPEN", "RL_FILE_RCV", "RL_FILE_SIGIO",
       "RL_READ_IOCTL"} \subseteq Used \ KeepsVersion
    BY DEF Used, KeepsVersion
<1>7. {"RL_MMAP_WRITE", "RL_MMAP_WRITE_PRIVATE", "RL_MMAP_READ", "RL_MMAP_READ_PRIVATE",
        "RL_MMAP_EXEC", "RL_MMAP_EXEC_PRIVATE"} \subseteq Used \ KeepsVersion
    BY Zenon DEF Used, KeepsVersion
<1>8. "RL_EXEC" \in Derived \ KeepsVersion BY Zenon DEF Derived, KeepsVersion
<1> QED BY Zenon, <1>1, <1>2, <1>4, <1>5, <1>6, <1>7, <1>8

\* provenance_file_permission keeps the invariant, whatever the mask.
LEMMA FilePermissionInv ==
    ASSUME CaptureInv, NEW p \in Running, NEW i \in Inodes, NEW mask, NEW mem, FilePermission(p, i, mask, mem)
    PROVE  CaptureInv' /\ Good(g, g')
<1> DEFINE t     == Tasks(p)
           c     == Creds(p)
           maps  == proc[p].maps
           kind  == Kind[imode[i]]
           perms == FileMaskToPerms(kind = "ENT_INODE_DIRECTORY", mask)
           sock  == kind = "ENT_INODE_SOCKET"
           wr    == IF sock THEN "RL_SND" ELSE "RL_WRITE"
           rd    == IF sock THEN "RL_RCV" ELSE "RL_READ"
           Ga    == Enter(g, p, mem)
           Gb    == GetInode(Ga, i, mem)
           G0    == Start(Gb)
           W     == Generates(G0, wr, c, t, i, maps)
           G1    == Then(G0, When(perms \cap {"WRITE", "APPEND"} # {}, G0, W))
           R     == Uses(G1, rd, i, t, c, maps)
           G2    == Then(G1, When("READ" \in perms, G1, R))
           S     == Uses(G2, "RL_SEARCH", i, t, c, maps)
           G3    == Then(G2, When("SEARCH" \in perms, G2, S))
           O     == [G3 EXCEPT !.node[c].opq = TRUE]
           D     == Derives(G3, "RL_EXEC", i, c)
           X     == IF G3.node[i].opq THEN O ELSE D
           G4    == Then(G3, When("EXEC" \in perms /\ ~sock, G3, X))
<1>0. InodeKnown(g, i) BY Zenon, InodesKnown
<1>1. PlainHook(G4) BY Zenon DEF FilePermission, ThenGenerates, ThenUses, ThenExec
<1>2. Good(g, Ga) BY Zenon, HookEnter
<1> HIDE DEF Ga
<1>3. Good(g, Gb) BY Zenon, <1>0, <1>2, HookGetInode
<1> HIDE DEF Gb
<1>4. Good(g, G0) BY Zenon, <1>3, HookStart
<1> HIDE DEF G0
<1>5. wr \in Flows /\ rd \in Flows /\ "RL_SEARCH" \in Flows /\ "RL_EXEC" \in Flows BY Zenon, FileFlows
<1> HIDE DEF wr, rd, perms, sock
<1>6. Good(g, W) BY Zenon, <1>0, <1>4, <1>5, HookGenerates, HookOwnMaps
<1> HIDE DEF W
<1>7. Good(g, G1) BY Zenon, <1>4, <1>6, WhenInv, ThenInv
<1> HIDE DEF G1
<1>8. Good(g, R) BY Zenon, <1>0, <1>5, <1>7, HookUses
<1> HIDE DEF R
<1>9. Good(g, G2) BY Zenon, <1>7, <1>8, WhenInv, ThenInv
<1> HIDE DEF G2
<1>10. Good(g, S) BY Zenon, <1>0, <1>5, <1>9, HookUses
<1> HIDE DEF S
<1>11. Good(g, G3) BY Zenon, <1>9, <1>10, WhenInv, ThenInv
<1> HIDE DEF G3
<1>12. Good(g, D) BY Zenon, <1>0, <1>5, <1>11, HookDerivesCred DEF c
<1>13. Good(g, O) BY Zenon, <1>11, HookOpaqueCred DEF c
<1> HIDE DEF D, O
<1>14. Good(g, X) BY Zenon, <1>12, <1>13
<1> HIDE DEF X
<1>15. Good(g, G4) BY Zenon, <1>11, <1>14, WhenInv, ThenInv
<1> HIDE DEF G4
<1> QED BY Zenon, <1>1, <1>15, HookInv

\* provenance_file_splice_pipe_to_pipe keeps the invariant.
LEMMA FileSpliceInv ==
    ASSUME CaptureInv, NEW p \in Running, NEW in \in Inodes, NEW out \in Inodes, NEW mem,
           FileSplice(p, in, out, mem)
    PROVE  CaptureInv' /\ Good(g, g')
<1> DEFINE Ga == Enter(g, p, mem)
           Gb == GetInode(Ga, in, mem)
           G0 == GetInode(Gb, out, mem)
           G1 == Uses(G0, "RL_SPLICE_IN", in, Tasks(p), Creds(p), proc[p].maps)
           G2 == Generates(G1, "RL_SPLICE_OUT", Creds(p), Tasks(p), out, proc[p].maps)
           G3 == Then(G1, G2)
<1>0. InodeKnown(g, in) /\ InodeKnown(g, out) BY Zenon, InodesKnown
<1>1. PlainHook(G3) BY Zenon DEF FileSplice, ThenGenerates, When
<1>2. "RL_SPLICE_IN" \in Flows /\ "RL_SPLICE_OUT" \in Flows BY Zenon, FileFlows
<1>3. Good(g, Ga) BY Zenon, HookEnter
<1> HIDE DEF Ga
<1>4. Good(g, Gb) BY Zenon, <1>0, <1>3, HookGetInode
<1> HIDE DEF Gb
<1>5. Good(g, G0) BY Zenon, <1>0, <1>4, HookGetInode
<1> HIDE DEF G0
<1>6. Good(g, G1) BY Zenon, <1>0, <1>2, <1>5, HookUses
<1> HIDE DEF G1
<1>7. Good(g, G2) BY Zenon, <1>0, <1>2, <1>6, HookGenerates, HookOwnMaps
<1> HIDE DEF G2
<1>8. Good(g, G3) BY Zenon, <1>6, <1>7, ThenInv
<1> HIDE DEF G3
<1> QED BY Zenon, <1>1, <1>8, HookInv

\* provenance_file_ioctl keeps the invariant.
LEMMA FileIoctlInv ==
    ASSUME CaptureInv, NEW p \in Running, NEW i \in Inodes, NEW mem, FileIoctl(p, i, mem)
    PROVE  CaptureInv' /\ Good(g, g')
<1> DEFINE Ga == Enter(g, p, mem)
           G0 == GetInode(Ga, i, mem)
           G1 == Generates(G0, "RL_WRITE_IOCTL", Creds(p), Tasks(p), i, proc[p].maps)
           G2 == Uses(G1, "RL_READ_IOCTL", i, Tasks(p), Creds(p), proc[p].maps)
           G3 == Then(G1, G2)
<1>0. InodeKnown(g, i) BY Zenon, InodesKnown
<1>1. PlainHook(G3) BY Zenon DEF FileIoctl, ThenUses, When
<1>2. "RL_READ_IOCTL" \in Flows /\ "RL_WRITE_IOCTL" \in Flows BY Zenon, FileFlows
<1>3. Good(g, Ga) BY Zenon, HookEnter
<1> HIDE DEF Ga
<1>5. Good(g, G0) BY Zenon, <1>0, <1>3, HookGetInode
<1> HIDE DEF G0
<1>6. Good(g, G1) BY Zenon, <1>0, <1>2, <1>5, HookGenerates, HookOwnMaps
<1> HIDE DEF G1
<1>7. Good(g, G2) BY Zenon, <1>0, <1>2, <1>6, HookUses
<1> HIDE DEF G2
<1>8. Good(g, G3) BY Zenon, <1>6, <1>7, ThenInv
<1> HIDE DEF G3
<1> QED BY Zenon, <1>1, <1>8, HookInv

\* provenance_file_open and provenance_file_receive keep the invariant.
LEMMA FileUseInv ==
    ASSUME CaptureInv, NEW p \in Running, NEW i \in Inodes, NEW type \in Flows, NEW mem,
           FileUse(p, i, type, mem)
    PROVE  CaptureInv' /\ Good(g, g')
<1> DEFINE Ga == Enter(g, p, mem)
           G0 == GetInode(Ga, i, mem)
           G1 == Uses(G0, type, i, Tasks(p), Creds(p), proc[p].maps)
<1>0. InodeKnown(g, i) BY Zenon, InodesKnown
<1>1. PlainHook(G1) BY Zenon DEF FileUse
<1>3. Good(g, Ga) BY Zenon, HookEnter
<1> HIDE DEF Ga
<1>5. Good(g, G0) BY Zenon, <1>0, <1>3, HookGetInode
<1> HIDE DEF G0
<1>6. Good(g, G1) BY Zenon, <1>0, <1>5, HookUses
<1> HIDE DEF G1
<1> QED BY Zenon, <1>1, <1>6, HookInv

\* provenance_kernel_read_file keeps the invariant.
LEMMA KernelReadFileInv ==
    ASSUME CaptureInv, NEW p \in Running, NEW i \in Inodes, NEW type \in LoadTypes, NEW mem,
           KernelReadFile(p, i, type, mem)
    PROVE  CaptureInv' /\ Good(g, g')
<1> DEFINE Ga == GetTask(g, p)
           G0 == GetInode(Ga, i, mem)
           G1 == InfluencesKernel(G0, type, i, Tasks(p))
<1>0. InodeKnown(g, i) BY Zenon, InodesKnown
<1>1. PlainHook(G1) BY Zenon DEF KernelReadFile
<1>2. Good(g, Ga) BY Zenon, HookEnter
<1> HIDE DEF Ga
<1>3. Good(g, G0) BY Zenon, <1>0, <1>2, HookGetInode
<1> HIDE DEF G0
<1>4. GraphInv(G0) /\ ProcKnown(G0, p) /\ Known(G0, i) /\ i # Tasks(p) /\ Globals
    BY Zenon, <1>0, <1>3, HookFacts DEF InodeKnown, Tasks
<1>5. type \in Flows BY Zenon, FileFlows
<1>6. Good(G0, G1) BY Zenon, <1>4, <1>5, InfluencesKernelInv DEF ProcKnown, Tasks
<1>7. Good(g, G1) BY Zenon, <1>3, <1>6, GoodTrans DEF CaptureInv
<1> HIDE DEF G1
<1> QED BY Zenon, <1>1, <1>7, HookInv

\* provenance_file_lock keeps the invariant.
LEMMA FileLockInv ==
    ASSUME CaptureInv, NEW p \in Running, NEW i \in Inodes, NEW mem, FileLock(p, i, mem)
    PROVE  CaptureInv' /\ Good(g, g')
<1> DEFINE Ga == Enter(g, p, mem)
           G1 == Generates(Ga, "RL_FILE_LOCK", Creds(p), Tasks(p), i, proc[p].maps)
<1>1. PlainHook(G1) BY Zenon DEF FileLock
<1>2. Good(g, Ga) BY Zenon, HookEnter
<1> HIDE DEF Ga
<1>3. Good(g, G1) BY Zenon, <1>2, InodesKnown, FileFlows, HookGenerates, HookOwnMaps
<1> HIDE DEF G1
<1> QED BY Zenon, <1>1, <1>3, HookInv

\* provenance_file_send_sigiotask keeps the invariant, although it walks the
\* mappings of another process.
LEMMA FileSendSigiotaskInv ==
    ASSUME CaptureInv, NEW p \in Running, NEW q \in Running, NEW i \in Inodes, FileSendSigiotask(p, q, i)
    PROVE  CaptureInv' /\ Good(g, g')
<1> DEFINE G1 == Uses(g, "RL_FILE_SIGIO", i, Tasks(p), Creds(p), proc[q].maps)
<1>1. PlainHook(G1) BY Zenon DEF FileSendSigiotask
<1>2. Good(g, g) BY Zenon, GoodSelf DEF CaptureInv
<1>3. Good(g, G1) BY Zenon, <1>2, InodesKnown, FileFlows, HookUses
<1> HIDE DEF G1
<1> QED BY Zenon, <1>1, <1>3, HookInv

\* A hook after which the shared mappings of process p are ms.
LEMMA MapsStep ==
    ASSUME CaptureInv, NEW G, Good(g, G), Hook(G), NEW p \in Running, NEW ms \in Seq(Mapping),
           \A k \in DOMAIN ms : InodeKnown(g, ms[k].file),
           proc' = [proc EXCEPT ![p].maps = ms], UNCHANGED <<imode, live>>
    PROVE  CaptureInv' /\ Good(g, g')
<1>0. g' = G /\ calls' = calls + 1 /\ UNCHANGED <<confVars, confs>> BY Zenon DEF Hook
<1>1. Globals' BY Zenon, <1>0 DEF CaptureInv, Globals, confVars
<1>2. GraphInv(g') /\ ObjectsOK(g') BY Zenon, <1>0, ObjectsGrow DEF CaptureInv, Good, Keeps
<1>3. GraphInv(g)' BY <1>0, <1>2, EpochInv DEF CaptureInv, Globals, confVars
<1>4. proc \in [Proc -> Process] /\ p \in Proc BY Zenon DEF CaptureInv, Running
<1>5. [proc[p] EXCEPT !.maps = ms] \in Process BY Zenon, <1>4 DEF Process
<1>6. proc' \in [Proc -> Process] BY Zenon, <1>4, <1>5
<1>7. \A q \in Proc : /\ proc'[q].task = proc[q].task /\ proc'[q].cred = proc[q].cred
                      /\ proc'[q].exe = proc[q].exe
                      /\ proc'[q].maps = IF q = p THEN ms ELSE proc[q].maps
    BY Zenon, <1>4 DEF Process
<1>8. Running' = Running BY Zenon, <1>7 DEF Running
<1>9. \A k \in DOMAIN ms : InodeKnown(g', ms[k].file)
    BY Zenon, <1>0, InodeGrows DEF CaptureInv
<1>10. ObjectsOK(g)'
  <2>1. \A q \in Running' : q \in Proc /\ q \in Running BY Zenon, <1>8 DEF Running
  <2>2. ASSUME NEW q \in Running'
        PROVE  /\ Known(g', proc'[q].task) /\ g'.node[proc'[q].task].type = "ACT_TASK"
               /\ Known(g', proc'[q].cred) /\ g'.node[proc'[q].cred].type = "ENT_PROC"
               /\ proc'[q].exe # NoId => Known(g', proc'[q].exe)
               /\ \A k \in DOMAIN proc'[q].maps : InodeKnown(g', proc'[q].maps[k].file)
    <3>1. CASE q = p BY <1>2, <1>7, <1>9, <2>1, <3>1 DEF ObjectsOK
    <3>2. CASE q # p BY <1>2, <1>7, <2>1, <3>2 DEF ObjectsOK
    <3> QED BY Zenon, <3>1, <3>2
  <2>3. g'.node[Machine].type = "AGT_MACHINE" BY Zenon, <1>2 DEF ObjectsOK
  <2>4. \A i \in live' : Known(g', i) /\ (imode'[i] # 0 => g'.node[i].type \in InodeType)
    BY Zenon, <1>2 DEF ObjectsOK
  <2> QED BY Zenon, <2>2, <2>3, <2>4 DEF ObjectsOK, InodeKnown, Known
<1> QED BY <1>0, <1>1, <1>3, <1>6, <1>10 DEF CaptureInv, ModeOK

\* provenance_mmap_file keeps the invariant, the new mapping included.
LEMMA MmapFileInv ==
    ASSUME CaptureInv, NEW p \in Running, NEW i \in Inodes, NEW prot, NEW shared \in BOOLEAN, NEW mem,
           MmapFile(p, i, prot, shared, mem)
    PROVE  CaptureInv' /\ Good(g, g')
<1> DEFINE t    == Tasks(p)
           c    == Creds(p)
           maps == proc[p].maps
           wt   == IF shared THEN "RL_MMAP_WRITE" ELSE "RL_MMAP_WRITE_PRIVATE"
           rt   == IF shared THEN "RL_MMAP_READ" ELSE "RL_MMAP_READ_PRIVATE"
           xt   == IF shared THEN "RL_MMAP_EXEC" ELSE "RL_MMAP_EXEC_PRIVATE"
           Ga   == Enter(g, p, mem)
           Gb   == GetInode(Ga, i, mem)
           G0   == Start(Gb)
           W    == Uses(G0, wt, i, t, c, maps)
           G1   == Then(G0, When("WRITE" \in prot, G0, W))
           R    == Uses(G1, rt, i, t, c, maps)
           G2   == Then(G1, When("READ" \in prot, G1, R))
           X    == Uses(G2, xt, i, t, c, maps)
           G3   == Then(G2, When("EXEC" \in prot, G2, X))
           G    == IF G0.node[c].opq THEN G0 ELSE G3
           m    == [file |-> i, rd |-> "READ" \in prot \/ "EXEC" \in prot, wr |-> "WRITE" \in prot]
<1>0. InodeKnown(g, i) BY Zenon, InodesKnown
<1>1. /\ Hook(G)
      /\ \/ proc' = [proc EXCEPT ![p].maps = Append(maps, m)]
         \/ proc' = proc
      /\ UNCHANGED <<imode, live>>
    BY Zenon DEF MmapFile, MapAfter, ThenUses
<1>2. m \in Mapping /\ m.file = i BY <1>0 DEF Mapping, InodeKnown, Known
<1>3. Good(g, Ga) BY Zenon, HookEnter
<1> HIDE DEF Ga, m
<1>4. Good(g, Gb) BY Zenon, <1>0, <1>3, HookGetInode
<1> HIDE DEF Gb
<1>5. Good(g, G0) BY Zenon, <1>4, HookStart
<1> HIDE DEF G0
<1>6. wt \in Flows /\ rt \in Flows /\ xt \in Flows BY Zenon, FileFlows
<1> HIDE DEF wt, rt, xt
<1>7. Good(g, W) BY Zenon, <1>0, <1>5, <1>6, HookUses
<1> HIDE DEF W
<1>8. Good(g, G1) BY Zenon, <1>5, <1>7, WhenInv, ThenInv
<1> HIDE DEF G1
<1>9. Good(g, R) BY Zenon, <1>0, <1>6, <1>8, HookUses
<1> HIDE DEF R
<1>10. Good(g, G2) BY Zenon, <1>8, <1>9, WhenInv, ThenInv
<1> HIDE DEF G2
<1>11. Good(g, X) BY Zenon, <1>0, <1>6, <1>10, HookUses
<1> HIDE DEF X
<1>12. Good(g, G3) BY Zenon, <1>10, <1>11, WhenInv, ThenInv
<1> HIDE DEF G3
<1>13. Good(g, G) BY Zenon, <1>5, <1>12
<1> HIDE DEF G
<1>14. CASE proc' = proc
    BY Zenon, <1>1, <1>13, <1>14, PlainHookInv DEF Hook
<1>15. CASE proc' = [proc EXCEPT ![p].maps = Append(maps, m)]
  <2>1. maps \in Seq(Mapping) /\ \A k \in DOMAIN maps : InodeKnown(g, maps[k].file)
    BY Zenon DEF CaptureInv, ObjectsOK, Process, Running
  <2>2. Append(maps, m) \in Seq(Mapping) BY <1>2, <2>1
  <2>3. \A k \in DOMAIN Append(maps, m) : InodeKnown(g, Append(maps, m)[k].file)
    <3> SUFFICES ASSUME NEW k \in DOMAIN Append(maps, m)
                 PROVE  InodeKnown(g, Append(maps, m)[k].file)
      BY Zenon
    <3>1. CASE k \in DOMAIN maps
      <4>1. Append(maps, m)[k] = maps[k] BY <2>1, <3>1
      <4> QED BY Zenon, <2>1, <3>1, <4>1
    <3>2. CASE k \notin DOMAIN maps
      <4>1. Append(maps, m)[k] = m BY <2>1, <3>2
      <4> QED BY Zenon, <1>0, <1>2, <4>1
    <3> QED BY Zenon, <3>1, <3>2
  <2> QED BY Zenon, <1>1, <1>13, <1>15, <2>2, <2>3, MapsStep
<1> QED BY Zenon, <1>1, <1>14, <1>15

\* A sequence without its k-th element.
LEMMA DropElement ==
    ASSUME NEW S, NEW s \in Seq(S), NEW k \in 1..Len(s)
    PROVE  LET r == SubSeq(s, 1, k - 1) \o SubSeq(s, k + 1, Len(s))
           IN  r \in Seq(S) /\ \A j \in DOMAIN r : \E l \in DOMAIN s : r[j] = s[l]
<1> DEFINE a == SubSeq(s, 1, k - 1)
           b == SubSeq(s, k + 1, Len(s))
           r == a \o b
<1>1. a \in Seq(S) /\ Len(a) = k - 1 /\ \A j \in 1..(k - 1) : a[j] = s[j] OBVIOUS
<1>2. b \in Seq(S) /\ Len(b) = Len(s) - k /\ \A j \in 1..(Len(s) - k) : b[j] = s[k + j] OBVIOUS
<1> HIDE DEF a, b
<1>3. r \in Seq(S) /\ Len(r) = Len(s) - 1
  <2>1. r \in Seq(S) /\ Len(r) = Len(a) + Len(b) BY Zenon, <1>1, <1>2, ConcatProperties
  <2> QED BY <1>1, <1>2, <2>1
<1>4. ASSUME NEW j \in DOMAIN r PROVE \E l \in DOMAIN s : r[j] = s[l]
  <2>1. j \in 1..(Len(s) - 1) BY <1>3
  <2>2. CASE j <= k - 1
    <3>1. r[j] = a[j] BY <1>1, <1>2, <2>1, <2>2
    <3> QED BY <1>1, <2>1, <2>2, <3>1
  <2>3. CASE ~(j <= k - 1)
    <3>1. r[j] = b[j - (k - 1)] BY <1>1, <1>2, <2>1, <2>3
    <3>2. j - (k - 1) \in 1..(Len(s) - k) BY <2>1, <2>3
    <3>3. b[j - (k - 1)] = s[k + (j - (k - 1))] BY Zenon, <1>2, <3>2
    <3>4. k + (j - (k - 1)) = j + 1 /\ j + 1 \in DOMAIN s BY <2>1
    <3>5. r[j] = s[j + 1] BY Zenon, <3>1, <3>3, <3>4
    <3> QED BY Zenon, <3>4, <3>5
  <2> QED BY Zenon, <2>2, <2>3
<1> QED BY Zenon, <1>3, <1>4 DEF a, b

\* provenance_mmap_munmap keeps the invariant.
LEMMA MmapMunmapInv ==
    ASSUME CaptureInv, NEW p \in Running, NEW k \in DOMAIN proc[p].maps, NEW linked \in BOOLEAN, NEW mem,
           MmapMunmap(p, k, linked, mem)
    PROVE  CaptureInv' /\ Good(g, g')
<1> DEFINE maps == proc[p].maps
           rest == SubSeq(maps, 1, k - 1) \o SubSeq(maps, k + 1, Len(maps))
           mm   == IF linked THEN maps ELSE rest
           Ga   == Enter(g, p, mem)
           G1   == Generates(Ga, "RL_MUNMAP", Creds(p), Tasks(p), maps[k].file, mm)
           G2   == Start(G1)
<1>1. Hook(G2) /\ proc' = [proc EXCEPT ![p].maps = rest] /\ UNCHANGED <<imode, live>>
    BY Zenon DEF MmapMunmap
<1>2. maps \in Seq(Mapping) /\ \A j \in DOMAIN maps : InodeKnown(g, maps[j].file)
    BY Zenon DEF CaptureInv, ObjectsOK, Process, Running
<1>3. rest \in Seq(Mapping) /\ \A j \in DOMAIN rest : \E l \in DOMAIN maps : rest[j] = maps[l]
  <2>1. k \in 1..Len(maps) BY <1>2
  <2> QED BY Zenon, <1>2, <2>1, DropElement
<1> HIDE DEF rest
<1>4. \A j \in DOMAIN rest : InodeKnown(g, rest[j].file) BY Zenon, <1>2, <1>3
<1>5. Good(g, Ga) BY Zenon, HookEnter
<1> HIDE DEF Ga
<1>6. MapsKnown(Ga, Creds(p), mm)
  <2>1. MapsKnown(g, Creds(p), rest)
    BY Zenon, <1>3, <1>4 DEF MapsKnown, InodeKnown, CaptureInv, ObjectsOK, InodeType, Creds
  <2>2. MapsKnown(Ga, Creds(p), rest) BY Zenon, <1>5, <2>1, MapsGrow DEF CaptureInv
  <2> QED BY Zenon, <1>5, <2>2, HookOwnMaps
<1> HIDE DEF mm
<1>7. Good(g, G1) BY Zenon, <1>2, <1>5, <1>6, FileFlows, HookGenerates
<1> HIDE DEF G1
<1>8. Good(g, G2) BY Zenon, <1>7, HookStart
<1> HIDE DEF G2
<1> QED BY Zenon, <1>1, <1>3, <1>4, <1>8, MapsStep
-----------------------------------------------------------------------------
\* The initial states satisfy the invariant.
LEMMA InitInv ==
    Init => CaptureInv
<1> SUFFICES ASSUME Init PROVE CaptureInv BY Zenon
<1> DEFINE nf    == Len(Files)
           types == [k \in 1..(nf + 2 * NProc) |->
                       IF k <= nf THEN "ENT_INODE_UNKNOWN"
                       ELSE IF k <= nf + NProc THEN "ACT_TASK" ELSE "ENT_PROC"]
<1>1. /\ InitConfig
      /\ g = InitGraph(types)
      /\ live = 1..Len(types)
      /\ imode = [i \in Id |-> IF i \in 1..nf THEN Files[i] ELSE 0]
      /\ proc = [p \in Proc |-> [task |-> nf + p, cred |-> nf + NProc + p,
                                 exe |-> IF nf > 0 THEN nf ELSE NoId, maps |-> <<>>]]
    BY Zenon DEF Init
<1>2. /\ nf \in Nat /\ NProc \in Nat /\ MaxId \in Nat /\ nf + 2 * NProc <= MaxId
      /\ Files \in Seq(DOMAIN Kind)
    BY FileHooksAssumption, CaptureAssumption, RecordAssumption
<1>3. {"ENT_INODE_UNKNOWN", "ACT_TASK", "ENT_PROC"} \subseteq NodeType /\ "ENT_INODE_UNKNOWN" \in InodeType
    BY Zenon DEF NodeType, InodeType
<1>4. types \in Seq(NodeType) /\ Len(types) = nf + 2 * NProc BY <1>2, <1>3
<1>5. /\ \A k \in 1..nf : types[k] = "ENT_INODE_UNKNOWN"
      /\ \A k \in 1..NProc : types[nf + k] = "ACT_TASK" /\ types[nf + NProc + k] = "ENT_PROC"
      /\ \A k \in 1..(nf + 2 * NProc) : types[k] # "ENT_STR"
    BY <1>2
<1> HIDE DEF types
<1>6. /\ GraphInv(g) /\ g.next = nf + 2 * NProc + 1 /\ g.node[Machine].type = "AGT_MACHINE"
      /\ \A i \in 1..(nf + 2 * NProc) : g.node[i].type = types[i]
    BY Zenon, <1>1, <1>2, <1>4, InitGraphInv
<1>7. Globals
  <2>1. policy \in Policy BY Zenon, <1>1 DEF InitConfig, InitPolicy, Policy
  <2> QED BY <1>1, <2>1 DEF InitConfig, Globals
<1>8. ModeOK BY <1>1, <1>2 DEF ModeOK
<1>9. live \subseteq Id BY <1>1, <1>2, <1>4 DEF Id
<1>10. proc \in [Proc -> Process]
  <2>1. <<>> \in Seq(Mapping) OBVIOUS
  <2>2. ASSUME NEW p \in Proc
        PROVE  [task |-> nf + p, cred |-> nf + NProc + p,
                exe |-> IF nf > 0 THEN nf ELSE NoId, maps |-> <<>>] \in Process
    <3>1. nf + p \in Id /\ nf + NProc + p \in Id /\ (nf > 0 => nf \in Id) BY <1>2 DEF Proc, Id
    <3> QED BY Zenon, <2>1, <3>1 DEF Process
  <2> QED BY Zenon, <1>1, <2>2
<1>11. calls \in Nat /\ confs \in Nat BY Zenon, <1>1 DEF InitConfig
<1>12. ObjectsOK(g)
  <2>1. ASSUME NEW i \in 1..(nf + 2 * NProc) PROVE Known(g, i)
    <3>1. g.node[i].type # "ENT_STR" BY Zenon, <1>5, <1>6
    <3>2. i \in Id /\ i < g.next BY <1>2, <1>6 DEF Id
    <3> QED BY Zenon, <3>1, <3>2 DEF Known
  <2>2. ASSUME NEW i \in live PROVE Known(g, i) /\ (imode[i] # 0 => g.node[i].type \in InodeType)
    <3>1. i \in 1..(nf + 2 * NProc) /\ i \in Id BY Zenon, <1>1, <1>4, <1>9
    <3>2. imode[i] # 0 => i \in 1..nf BY Zenon, <1>1, <3>1
    <3> QED BY <1>3, <1>5, <1>6, <2>1, <3>1, <3>2
  <2>3. ASSUME NEW p \in Running
        PROVE  /\ Known(g, proc[p].task) /\ g.node[proc[p].task].type = "ACT_TASK"
               /\ Known(g, proc[p].cred) /\ g.node[proc[p].cred].type = "ENT_PROC"
               /\ proc[p].exe # NoId => Known(g, proc[p].exe)
               /\ \A k \in DOMAIN proc[p].maps : InodeKnown(g, proc[p].maps[k].file)
    <3>1. p \in 1..NProc BY Zenon DEF Running, Proc
    <3>2. /\ proc[p].task = nf + p /\ proc[p].cred = nf + NProc + p
          /\ proc[p].exe = IF nf > 0 THEN nf ELSE NoId
          /\ proc[p].maps = <<>>
      BY Zenon, <1>1, <3>1 DEF Proc
    <3>3. nf + p \in 1..(nf + 2 * NProc) /\ nf + NProc + p \in 1..(nf + 2 * NProc) BY <1>2, <3>1
    <3>4. nf > 0 => nf \in 1..(nf + 2 * NProc) BY <1>2
    <3>5. DOMAIN proc[p].maps = {} BY <3>2
    <3> QED BY <1>5, <1>6, <2>1, <3>1, <3>2, <3>3, <3>4, <3>5
  <2> QED BY Zenon, <1>6, <2>2, <2>3 DEF ObjectsOK
<1> QED BY Zenon, <1>6, <1>7, <1>8, <1>9, <1>10, <1>11, <1>12 DEF CaptureInv

\* Every hook keeps the invariant and is made of operations.
LEMMA HookNextInv ==
    ASSUME CaptureInv, HookNext
    PROVE  CaptureInv' /\ Good(g, g')
<1>1. PICK p \in Running, mem \in MemOK :
          \/ \E i \in Inodes : FileUse(p, i, "RL_OPEN", mem)
          \/ \E i \in Inodes : FileUse(p, i, "RL_FILE_RCV", mem)
          \/ \E i \in Inodes, mask \in Masks : FilePermission(p, i, mask, mem)
          \/ \E in, out \in Inodes : FileSplice(p, in, out, mem)
          \/ \E i \in Inodes, type \in LoadTypes : KernelReadFile(p, i, type, mem)
          \/ \E i \in Inodes : FileLock(p, i, mem)
          \/ \E q \in Running, i \in Inodes : FileSendSigiotask(p, q, i)
          \/ \E i \in Inodes, prot \in Prots, shared \in BOOLEAN : MmapFile(p, i, prot, shared, mem)
          \/ \E k \in DOMAIN proc[p].maps, linked \in BOOLEAN : MmapMunmap(p, k, linked, mem)
          \/ \E i \in Inodes : FileIoctl(p, i, mem)
    BY DEF HookNext
<1>2. "RL_OPEN" \in Flows /\ "RL_FILE_RCV" \in Flows BY Zenon, FileFlows
<1> QED BY Zenon, <1>1, <1>2, FileUseInv, FilePermissionInv, FileSpliceInv, KernelReadFileInv, FileLockInv,
             FileSendSigiotaskInv, MmapFileInv, MmapMunmapInv, FileIoctlInv

\* Every step keeps the invariant and records only what it may.
LEMMA NextInv ==
    CaptureInv /\ [Next]_vars => CaptureInv' /\ [StepOK]_vars
<1> SUFFICES ASSUME CaptureInv, [Next]_vars PROVE CaptureInv' /\ [StepOK]_vars BY Zenon
<1>1. CASE UNCHANGED vars BY Zenon, <1>1, UnchangedInv
<1>2. CASE ConfigNext BY Zenon, <1>2, ConfigNextInv, ConfigStepOK
<1>3. CASE HookNext BY Zenon, <1>3, HookNextInv, GoodStep
<1> QED BY Zenon, <1>1, <1>2, <1>3 DEF Next

\* The invariant holds in every reachable state.
LEMMA SpecInv ==
    Spec => []CaptureInv
BY InitInv, NextInv, PTL DEF Spec

\* Every step records only what it may.
LEMMA SpecSteps ==
    Spec => [][StepOK]_vars
BY SpecInv, NextInv, PTL DEF Spec

\* The variables keep their types, and identifiers that were never handed out
\* carry no state, for any number of processes, files, labels and versions.
THEOREM FileTypes ==
    Spec => []CaptureTypeOK
BY SpecInv, CaptureInvTypes, PTL

\* The graph the file hooks record has no cycle, whatever the policy, the
\* filters, the capture targets and the query module do between two hooks, as
\* long as no version counter has wrapped around.
THEOREM FileNoCycle ==
    Spec => []NoCycle
BY SpecInv, CaptureInvNoCycle, PTL

\* Every relation the file hooks write comes after both its ends in the same
\* epoch, whatever node versions, epochs and duplicates have been written before
\* (__write_node in __write_relation, set_recorded, clear_recorded).
THEOREM FileEndsWritten ==
    Spec => []EndsWritten
BY SpecInv, CaptureInvSound, PTL

\* No file hook records a flow into a version that has passed information on
\* (__update_version), for any number of relations a hook records.
THEOREM FileFlowOnNewVersion ==
    Spec => FlowOnNewVersion
<1>1. [StepOK]_vars => [FlowsAhead]_vars BY Zenon DEF StepOK
<1> QED BY <1>1, SpecSteps, PTL DEF FlowOnNewVersion

\* A node that is opaque when a file hook starts gets no relation, by whatever
\* path the hook takes (filter_node in should_record_relation).
THEOREM FileOpaqueNotRecorded ==
    Spec => OpaqueNotRecorded
<1>1. [StepOK]_vars => [OpaqueLeftOut]_vars BY Zenon DEF StepOK
<1> QED BY <1>1, SpecSteps, PTL DEF OpaqueNotRecorded

\* Propagation by the file hooks is complete (flow in propagate.c): the labels
\* the sender had before the hook are the receiver's after it.
THEOREM FileTaintReaches ==
    Spec => TaintReaches
<1>1. [StepOK]_vars => [LabelsReach]_vars BY Zenon DEF StepOK
<1> QED BY <1>1, SpecSteps, PTL DEF TaintReaches

\* Propagation by the file hooks is sound: a label arrives along a recorded
\* relation that the propagation filter lets through.
THEOREM FileTaintFollowsEdges ==
    Spec => TaintFollowsEdges
<1>1. [StepOK]_vars => [LabelsFollow]_vars BY Zenon DEF StepOK
<1> QED BY <1>1, SpecSteps, PTL DEF TaintFollowsEdges
=============================================================================
