----------------------------- MODULE InodeHooks -----------------------------
(***************************************************************************)
(* The hooks on inodes: allocation and release, permission checks, links,  *)
(* attributes and extended attributes.                                     *)
(***************************************************************************)
EXTENDS Capture

CONSTANTS Files,        \* the i_mode of each inode there is at first
          NewModes,     \* modes the file system gives a new inode
          Masks,        \* masks passed to inode_permission
          Settings      \* flags and labels written to security.provenance

ASSUME InodeHooksAssumption ==
    /\ Files \in Seq(DOMAIN Kind) /\ Len(Files) + 2 * NProc <= MaxId
    /\ NewModes \subseteq DOMAIN Kind
    /\ Masks \subseteq SUBSET {"EXEC", "READ", "WRITE", "APPEND"}
    /\ Settings \subseteq [set : SUBSET SetOp, taint : SUBSET Taint]

Dirs == {i \in Inodes : Kind[imode[i]] = "ENT_INODE_DIRECTORY"}

\* How most hooks begin: the nodes of process p, then inode i, are refreshed.
EnterInode(p, i, mem) == GetInode(Enter(g, p, mem), i, mem)

-----------------------------------------------------------------------------
(* Allocation and release *)

\* provenance_inode_alloc_security: the inode has no mode yet.
InodeAlloc(mem) ==
    LET i == g.next
    IN  /\ i \in Id
        /\ IF mem THEN Hook(Start(RefreshInode(Alloc(g, "ENT_INODE_UNKNOWN"), i, mem)))
                  ELSE Hook([g EXCEPT !.rc = ENOMEM])
        /\ live' = IF mem THEN live \cup {i} ELSE live
        /\ UNCHANGED <<proc, imode>>

\* The file system fills in a new inode.
InodeFill(i, m) ==
    /\ g.node[i].type = "ENT_INODE_UNKNOWN" /\ imode[i] = 0
    /\ imode' = [imode EXCEPT ![i] = m]
    /\ UNCHANGED <<g, confVars, proc, live, calls, confs>>

\* provenance_inode_free_security, once nothing refers to the inode.
InodeFree(i) ==
    /\ \A p \in Proc : proc[p].exe # i
    /\ Hook(Start(RecordTerminate(g, "RL_FREED", i)))
    /\ live' = live \ {i}
    /\ imode' = [imode EXCEPT ![i] = 0]
    /\ UNCHANGED proc

-----------------------------------------------------------------------------
(* Permissions, links and attributes *)

\* provenance_inode_permission: the inode is taken as it is.
InodePermission(p, i, mask, mem) ==
    LET ask(G, m, type) == ThenUses(G, m \in mask, type, i, Tasks(p), Creds(p), proc[p].maps)
        G0 == Start(Enter(g, p, mem))
        G1 == ask(G0, "EXEC", "RL_PERM_EXEC")
        G2 == ask(G1, "READ", "RL_PERM_READ")
        G3 == ask(G2, "APPEND", "RL_PERM_APPEND")
    IN  PlainHook(IF mask = {} THEN Start(g) ELSE ask(G3, "WRITE", "RL_PERM_WRITE"))

\* provenance_inode_create on directory i, provenance_inode_unlink.
InodeGenerates(p, i, type, mem) ==
    PlainHook(Generates(EnterInode(p, i, mem), type, Creds(p), Tasks(p), i, proc[p].maps))

\* provenance_inode_getattr, _readlink and _listxattr.
InodeUses(p, i, type, mem) ==
    PlainHook(Uses(EnterInode(p, i, mem), type, i, Tasks(p), Creds(p), proc[p].maps))

\* provenance_inode_link and provenance_inode_rename.  What recording the name
\* returns is ignored.
InodeLink(p, i, mem) ==
    LET G1 == Generates(EnterInode(p, i, mem), "RL_LINK", Creds(p), Tasks(p), i, proc[p].maps)
    IN  PlainHook([RecordInodeNameFromDentry(G1, i, TRUE, mem) EXCEPT !.rc = G1.rc])

\* provenance_inode_symlink, when the entry has an inode and when it has none.
InodeSymlink(p, i, mem) ==
    LET G1 == Generates(EnterInode(p, i, mem), "RL_SYMLINK", Creds(p), Tasks(p), i, proc[p].maps)
    IN  PlainHook([RecordNodeName(G1, i, TRUE, mem) EXCEPT !.rc = G1.rc])
InodeSymlinkNegative(p, mem) == PlainHook(Start(Enter(g, p, mem)))

\* provenance_inode_setattr: the attributes are a node of their own.
InodeSetattr(p, i, mem) ==
    LET G0 == EnterInode(p, i, mem)
        a  == G0.next
        G1 == Generates(Alloc(G0, "ENT_IATTR"), "RL_SETATTR", Creds(p), Tasks(p), a, proc[p].maps)
    IN  PlainHook(IF ~mem \/ a \notin Id THEN [G0 EXCEPT !.rc = ENOMEM]
                  ELSE ThenDerives(G1, TRUE, "RL_SETATTR_INODE", a, i))
-----------------------------------------------------------------------------
(* Extended attributes *)

\* provenance_inode_setxattr of security.provenance, and of any other name.
InodeSetxattr(p, i, s, mem) ==
    LET G == GetInode(g, i, mem)
    IN  PlainHook(Start([G EXCEPT !.node[i] =
            Configured(@, [op |-> SetOp \cup {"taint"}, set |-> s.set, taint |-> s.taint])]))

\* Mutant of RecordWriteXattr: the attribute is tied to the inode first.
RecordWriteXattrBackwards(G, type, itype, i, t, c, mem) ==
    LET x  == G.next
        G1 == RecordRelation(Alloc(G, "ENT_XATTR"), itype, x, i)
    IN  IF ~Captured(G, {i, t, c}) \/ ~ShouldRecord(type, G.node[c], G.node[i]) THEN Start(G)
        ELSE IF ~mem \/ x \notin Id THEN [G EXCEPT !.rc = ENOMEM]
        ELSE ThenRelation(G1, type, t, x)

\* record_write_xattr: process to attribute to inode.
RecordWriteXattr(G, type, itype, i, t, c, mem) ==
    LET x  == G.next
        G1 == RecordRelation(Alloc(G, "ENT_XATTR"), "RL_PROC_READ", c, t)
        G2 == ThenRelation(G1, type, t, x)
    IN  IF ~Captured(G, {i, t, c}) \/ ~ShouldRecord(type, G.node[c], G.node[i]) THEN Start(G)
        ELSE IF ~mem \/ x \notin Id THEN [G EXCEPT !.rc = ENOMEM]
        ELSE ThenRelation(G2, itype, x, i)

\* record_read_xattr: inode to attribute to process.
RecordReadXattr(G, c, t, i, mem) ==
    LET x  == G.next
        G1 == RecordRelation(Alloc(G, "ENT_XATTR"), "RL_GETXATTR_INODE", i, x)
        G2 == ThenRelation(G1, "RL_GETXATTR", x, t)
    IN  IF ~Captured(G, {i, t, c}) \/ ~ShouldRecord("RL_GETXATTR", G.node[i], G.node[c]) THEN Start(G)
        ELSE IF ~mem \/ x \notin Id THEN [G EXCEPT !.rc = ENOMEM]
        ELSE ThenRelation(G2, "RL_PROC_WRITE", t, c)

\* provenance_inode_post_setxattr, _getxattr and _removexattr; own says that the
\* attribute is security.provenance.
InodePostSetxattr(p, i, own, mem) ==
    LET G == EnterInode(p, i, mem)
    IN  PlainHook(Start(IF own THEN G
            ELSE RecordWriteXattr(G, "RL_SETXATTR", "RL_SETXATTR_INODE", i, Tasks(p), Creds(p), mem)))
InodeGetxattr(p, i, own, mem) ==
    LET G == EnterInode(p, i, mem)
    IN  PlainHook(IF own THEN Start(G) ELSE RecordReadXattr(G, Creds(p), Tasks(p), i, mem))
InodeRemovexattr(p, i, own, mem) ==
    LET G == EnterInode(p, i, mem)
    IN  PlainHook(IF own THEN [G EXCEPT !.rc = EPERM]
            ELSE RecordWriteXattr(G, "RL_RMVXATTR", "RL_RMVXATTR_INODE", i, Tasks(p), Creds(p), mem))

\* provenance_inode_getsecurity copies the refreshed node out.
InodeGetsecurity(i, mem) == PlainHook(Start(GetInode(g, i, mem)))

-----------------------------------------------------------------------------
\* The inodes, then the task of each process, then their credentials.
Init ==
    LET nf    == Len(Files)
        types == [k \in 1..(nf + 2 * NProc) |->
                    IF k <= nf THEN "ENT_INODE_UNKNOWN"
                    ELSE IF k <= nf + NProc THEN "ACT_TASK" ELSE "ENT_PROC"]
    IN  /\ InitConfig
        /\ g = InitGraph(types)
        /\ live = 1..Len(types)
        /\ imode = [i \in Id |-> IF i \in 1..nf THEN Files[i] ELSE 0]
        /\ proc = [p \in Proc |-> [task |-> nf + p, cred |-> nf + NProc + p, exe |-> NoId, maps |-> <<>>]]

HookNext ==
    \/ \E p \in Running, mem \in MemOK :
        \/ \E i \in Inodes, mask \in Masks : InodePermission(p, i, mask, mem)
        \/ \E i \in Dirs : InodeGenerates(p, i, "RL_INODE_CREATE", mem)
        \/ \E i \in Inodes : InodeGenerates(p, i, "RL_UNLINK", mem)
        \/ \E i \in Inodes, type \in {"RL_GETATTR", "RL_READ_LINK", "RL_LSTXATTR"} : InodeUses(p, i, type, mem)
        \/ \E i \in Inodes : InodeLink(p, i, mem)
        \/ \E i \in Inodes : InodeSymlink(p, i, mem)
        \/ InodeSymlinkNegative(p, mem)
        \/ \E i \in Inodes : InodeSetattr(p, i, mem)
        \/ \E i \in Inodes, s \in Settings : InodeSetxattr(p, i, s, mem)
        \/ \E i \in Inodes, own \in BOOLEAN : InodePostSetxattr(p, i, own, mem)
        \/ \E i \in Inodes, own \in BOOLEAN : InodeGetxattr(p, i, own, mem)
        \/ \E i \in Inodes, own \in BOOLEAN : InodeRemovexattr(p, i, own, mem)
    \/ \E mem \in MemOK : InodeAlloc(mem)
    \/ \E i \in Inodes, mem \in MemOK : InodeGetsecurity(i, mem)
    \/ \E i \in live, m \in NewModes : InodeFill(i, m)
    \/ \E i \in live : g.node[i].type \in InodeType /\ InodeFree(i)

Next == HookNext \/ ConfigNext

Spec == Init /\ [][Next]_vars

-----------------------------------------------------------------------------
(* Properties of the inode hooks *)

\* Extended attributes on an inode have an author: the attribute node that a
\* hook ties to an inode was written by the task that called, with what the
\* task had read from its credentials, whichever of the three is tracked
\* (record_write_xattr).  Only a task that is opaque by itself is left out.
XattrsHaveAuthor ==
    [][\A e \in g'.edges \ g.edges : e.type \in {"RL_SETXATTR_INODE", "RL_RMVXATTR_INODE"} =>
          \/ \E p \in Running : g.node[Tasks(p)].opq
          \/ \E c, d \in g'.edges : /\ d.rcv = e.snd /\ d.type \in {"RL_SETXATTR", "RL_RMVXATTR"}
                                    /\ c.type = "RL_PROC_READ" /\ c.rcv[1] = d.snd[1]]_vars
=============================================================================
