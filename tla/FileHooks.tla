----------------------------- MODULE FileHooks ------------------------------
(***************************************************************************)
(* The hooks on open files: permission, splice, reads by the kernel, open, *)
(* receive, lock, SIGIO, mmap and munmap, ioctl.                           *)
(*                                                                         *)
(* A hook call is one step here.  In the kernel most hooks hold the locks  *)
(* of the inode and the credentials while they record; the getters run     *)
(* before the locks are taken.                                             *)
(***************************************************************************)
EXTENDS Capture

CONSTANTS Files,        \* the i_mode of each inode there is
          Masks,        \* masks passed to file_permission
          Prots,        \* protections passed to mmap_file
          LoadTypes     \* relation types of kernel_read_file

ASSUME FileHooksAssumption ==
    /\ Files \in Seq(DOMAIN Kind) /\ Len(Files) + 2 * NProc <= MaxId
    /\ Masks \subseteq SUBSET {"EXEC", "READ", "WRITE", "APPEND"}
    /\ Prots \subseteq SUBSET {"READ", "WRITE", "EXEC"}
    /\ LoadTypes \subseteq Influenced

\* A file is open: provenance_file_open has run on its inode, or it is a pipe
\* or a socket, which come into being open.
Opened(i) == g.node[i].init \/ Kind[imode[i]] \in {"ENT_INODE_PIPE", "ENT_INODE_SOCKET"}

\* file_mask_to_perms
FileMaskToPerms(dir, mask) ==
    IF dir THEN {CASE m = "EXEC" -> "SEARCH" [] OTHER -> m : m \in mask \ {"APPEND"}}
    ELSE IF "APPEND" \in mask THEN mask \ {"WRITE"} ELSE mask

\* The execute permission of file i: an opaque file makes the credentials opaque.
ThenExec(G, cond, i, c) ==
    Then(G, When(cond, G, IF G.node[i].opq THEN [G EXCEPT !.node[c].opq = TRUE]
                          ELSE Derives(G, "RL_EXEC", i, c)))

\* provenance_file_permission
FilePermission(p, i, mask, mem) ==
    LET t     == Tasks(p)
        c     == Creds(p)
        maps  == proc[p].maps
        kind  == Kind[imode[i]]
        perms == FileMaskToPerms(kind = "ENT_INODE_DIRECTORY", mask)
        sock  == kind = "ENT_INODE_SOCKET"
        G0    == Start(GetInode(Enter(g, p, mem), i, mem))
        G1    == ThenGenerates(G0, perms \cap {"WRITE", "APPEND"} # {},
                               IF sock THEN "RL_SND" ELSE "RL_WRITE", c, t, i, maps)
        G2    == ThenUses(G1, "READ" \in perms, IF sock THEN "RL_RCV" ELSE "RL_READ", i, t, c, maps)
        G3    == ThenUses(G2, "SEARCH" \in perms, "RL_SEARCH", i, t, c, maps)
    IN  PlainHook(ThenExec(G3, "EXEC" \in perms /\ ~sock, i, c))

\* provenance_file_splice_pipe_to_pipe: between two pipes, which the kernel
\* requires to be different.
FileSplice(p, in, out, mem) ==
    /\ in # out
    /\ Kind[imode[in]] = "ENT_INODE_PIPE" /\ Kind[imode[out]] = "ENT_INODE_PIPE"
    /\ LET G0 == GetInode(GetInode(Enter(g, p, mem), in, mem), out, mem)
           G1 == Uses(G0, "RL_SPLICE_IN", in, Tasks(p), Creds(p), proc[p].maps)
       IN  PlainHook(ThenGenerates(G1, TRUE, "RL_SPLICE_OUT", Creds(p), Tasks(p), out, proc[p].maps))

\* provenance_kernel_read_file
KernelReadFile(p, i, type, mem) ==
    PlainHook(InfluencesKernel(GetInode(GetTask(g, p), i, mem), type, i, Tasks(p)))

\* provenance_file_open and provenance_file_receive
FileUse(p, i, type, mem) ==
    PlainHook(Uses(GetInode(Enter(g, p, mem), i, mem), type, i, Tasks(p), Creds(p), proc[p].maps))

\* provenance_file_lock
FileLock(p, i, mem) ==
    PlainHook(Generates(Enter(g, p, mem), "RL_FILE_LOCK", Creds(p), Tasks(p), i, proc[p].maps))

\* provenance_file_send_sigiotask: the nodes are those of the signalled
\* process p, the mappings those of the current process q.
FileSendSigiotask(p, q, i) ==
    PlainHook(Uses(g, "RL_FILE_SIGIO", i, Tasks(p), Creds(p), proc[q].maps))

\* The hook on a new mapping leaves graph G; the kernel then makes mapping m of
\* process p, if it is to and the hook allowed it.
MapAfter(G, p, m, make) ==
    /\ Hook(G)
    /\ proc' = IF make /\ G.rc = OK THEN [proc EXCEPT ![p].maps = Append(@, m)] ELSE proc
    /\ UNCHANGED <<imode, live>>

\* provenance_mmap_file, and the mapping the kernel then makes when it is
\* shared, the hook allowed it and the file can be mapped.
MmapFile(p, i, prot, shared, mem) ==
    LET t    == Tasks(p)
        c    == Creds(p)
        maps == proc[p].maps
        G0   == Start(GetInode(Enter(g, p, mem), i, mem))
        G1   == ThenUses(G0, "WRITE" \in prot,
                         IF shared THEN "RL_MMAP_WRITE" ELSE "RL_MMAP_WRITE_PRIVATE", i, t, c, maps)
        G2   == ThenUses(G1, "READ" \in prot,
                         IF shared THEN "RL_MMAP_READ" ELSE "RL_MMAP_READ_PRIVATE", i, t, c, maps)
        G3   == ThenUses(G2, "EXEC" \in prot,
                         IF shared THEN "RL_MMAP_EXEC" ELSE "RL_MMAP_EXEC_PRIVATE", i, t, c, maps)
        m    == [file |-> i, rd |-> "READ" \in prot \/ "EXEC" \in prot, wr |-> "WRITE" \in prot]
    IN  /\ shared => Len(maps) < MaxMaps
        /\ MapAfter(IF G0.node[c].opq THEN G0 ELSE G3, p, m, shared /\ Kind[imode[i]] = "ENT_INODE_FILE")

\* provenance_mmap_munmap on the k-th shared mapping.  The kernel unlinks the
\* mapping before or after it calls the hook; linked says which.
MmapMunmap(p, k, linked, mem) ==
    LET maps == proc[p].maps
        rest == SubSeq(maps, 1, k - 1) \o SubSeq(maps, k + 1, Len(maps))
    IN  /\ Hook(Start(Generates(Enter(g, p, mem), "RL_MUNMAP", Creds(p), Tasks(p), maps[k].file,
                                IF linked THEN maps ELSE rest)))
        /\ proc' = [proc EXCEPT ![p].maps = rest]
        /\ UNCHANGED <<imode, live>>

\* provenance_file_ioctl
FileIoctl(p, i, mem) ==
    LET G0 == GetInode(Enter(g, p, mem), i, mem)
        G1 == Generates(G0, "RL_WRITE_IOCTL", Creds(p), Tasks(p), i, proc[p].maps)
    IN  PlainHook(ThenUses(G1, TRUE, "RL_READ_IOCTL", i, Tasks(p), Creds(p), proc[p].maps))

-----------------------------------------------------------------------------
\* The files, then the task of each process, then their credentials.  Every
\* process executes the last file.
Init ==
    LET nf    == Len(Files)
        types == [k \in 1..(nf + 2 * NProc) |->
                    IF k <= nf THEN "ENT_INODE_UNKNOWN"
                    ELSE IF k <= nf + NProc THEN "ACT_TASK" ELSE "ENT_PROC"]
    IN  /\ InitConfig
        /\ g = InitGraph(types)
        /\ live = 1..Len(types)
        /\ imode = [i \in Id |-> IF i \in 1..nf THEN Files[i] ELSE 0]
        /\ proc = [p \in Proc |-> [task |-> nf + p, cred |-> nf + NProc + p,
                                   exe |-> IF nf > 0 THEN nf ELSE NoId, maps |-> <<>>]]

HookNext ==
    \E p \in Running, mem \in MemOK :
        \/ \E i \in Inodes : FileUse(p, i, "RL_OPEN", mem)
        \/ \E i \in Inodes : Opened(i) /\ FileUse(p, i, "RL_FILE_RCV", mem)
        \/ \E i \in Inodes, mask \in Masks : Opened(i) /\ FilePermission(p, i, mask, mem)
        \/ \E in, out \in Inodes : FileSplice(p, in, out, mem)
        \/ \E i \in Inodes, type \in LoadTypes : Opened(i) /\ KernelReadFile(p, i, type, mem)
        \/ \E i \in Inodes : Opened(i) /\ FileLock(p, i, mem)
        \/ \E q \in Running, i \in Inodes : Opened(i) /\ FileSendSigiotask(p, q, i)
        \/ \E i \in Inodes, prot \in Prots, shared \in BOOLEAN :
              Opened(i) /\ MmapFile(p, i, prot, shared, mem)
        \/ \E k \in DOMAIN proc[p].maps, linked \in BOOLEAN : MmapMunmap(p, k, linked, mem)
        \/ \E i \in Inodes : Opened(i) /\ FileIoctl(p, i, mem)

Next == HookNext \/ ConfigNext

Spec == Init /\ [][Next]_vars

-----------------------------------------------------------------------------
(* Properties of the file hooks *)

\* A file hook that records a relation of its own which a query module refused
\* returns the refusal: no later call of the hook overwrites it ("-EPERM if
\* flow is disallowed" of call_query_hooks reaches the caller).
RefusalReturned ==
    [][\A e \in g'.edges \ g.edges :
          ~e.ok /\ e.type \in {"RL_READ", "RL_WRITE", "RL_OPEN", "RL_WRITE_IOCTL", "RL_MMAP_WRITE"}
          => g'.rc = EPERM]_vars

-----------------------------------------------------------------------------
(* What a comment says and the code does not do *)

\* While a query module refuses RL_WRITE, a write that was refused before is
\* refused again.  A refused relation stays the receiver's last one, so that
\* the retry is compressed before call_query_hooks is reached.
RetryRefused ==
    [][\A p \in Running, i \in Inodes :
          /\ FilePermission(p, i, {"WRITE"}, TRUE)
          /\ "RL_WRITE" \in deny
          /\ \E e \in g.edges : ~e.ok /\ e.type = "RL_WRITE" /\ e.snd[1] = Tasks(p) /\ e.rcv[1] = i
          => g'.rc = EPERM]_vars
=============================================================================
