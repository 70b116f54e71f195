# CamFlow in TLA+

CamFlow is a Linux security module that records whole-system provenance: every
hook of the kernel's LSM interface turns into relations between versions of
tasks, credentials, inodes, messages, sockets and packets. The relations are
streamed to user space as a graph. This directory holds a model of the capture
code under `src/security/provenance/` and of the calls in `src/security/security.c`
that lead to it, TLC configurations, and TLAPS proofs.

## The system

| part | state | operations | interacts with |
|---|---|---|---|
| security framework (`security.c`) | the modules loaded, in order | `security_init`, one `security_*` function per hook | calls the hooks, last of all modules |
| hooks (`hooks.c`, `provenance_task.h`, `_inode.h`, `_net.h`, `netfilter.c`) | provenance pointers of kernel objects, one lock per node | one function per LSM hook | recording |
| recording (`provenance_record.h`) | nodes: version, outgoing mark, last relation, recorded/named/kernel marks | `record_relation`, `__update_version`, `record_terminate`, `record_node_name`, `record_kernel_link`, `uses`, `uses_two`, `generates`, `derives`, `informs`, `record_influences_kernel` | called by all hooks |
| filters (`provenance_filter.h`, `_ns.h`) | policy words, target lists | `should_record_relation`, `apply_target`, list updates | recording, control files |
| queries (`query.c`, `propagate.c`) | registered modules | `call_query_hooks`, `flow` | writer |
| writer (`provenance_relay.h`) | recorded marks | `__write_node`, `__write_relation` | queries, relay |
| boot buffers, channels (`relay.c`) | boot buffers, `relay_ready`, channel list, drain tasks | `write_boot_buffer`, two async drains, `prov_create_channel` | writer, identifiers in `fs.c` |
| control files (`fs.c`, `type.c`) | `prov_policy`, `epoch`, identifiers, lists | one write function per file | everything |

What makes it hard: a hook records several relations and may fail or be
refused between two of them; versions, compression of nodes and edges, recorded
marks and the epoch all decide whether something is written, and each is
changed by other hooks and by control files; an execve, a message or a
connection is spread over several hooks with kernel code between them; nodes
change their flags at any time; hooks of different processes and interrupts run
concurrently, with some nodes locked and some not; at boot, records wait in
buffers that are handed over without a lock.

## Modules

| module | models | state |
|---|---|---|
| `ProvTypes` | node and relation types, categories | none |
| `TypeNames` | types as 64-bit words, their names, the filter tests on words | none |
| `Acyclicity` | what a graph without cycles is | none |
| `Bloom` | the bloom filters of taint, with their hash | none |
| `Record` | recording, writer, filters, propagation | `g` (nodes, edges, what was written, result), `policy`, `epoch`, `deny`, `target` |
| `Capture` | getters that refresh nodes, control files; the common properties | `proc`, `imode`, `live`, `calls`, `confs` |
| `FileHooks` | file hooks, mmap and munmap | |
| `TaskHooks` | fork, clone, credentials, execve, exit; logs and disclosed nodes | `prep`, `bprm` |
| `InodeHooks` | inode and extended attribute hooks | |
| `IpcHooks` | message queues, shared memory | `msg`, `attached`, `took` |
| `SocketHooks` | sockets, packets, netfilter | `sock`, `sent` |
| `ControlFiles` | filter words and the six target lists behind the control files | `word`, `list`, `flags` |
| `Relay` | boot buffers, hand-over, drains, channels, identifiers | one variable per global, one program counter per thread |
| `RelayStream` | what the relay promises its consumers | `log`, `out` |
| `Locking` | hooks step by step, with locks, threads and an interrupt | `node`, `lock`, `run`, the stream |
| `LSM` | which modules a call asks and in which order; the life of nodes | `loaded`, `call`, `obj` |
| `MC*` | values of the constants | |
| `*Proofs` | theorems | |

The five hook modules. The functions of the C code that change the graph are
operators from a graph to a graph (`RecordRelation(G, type, f, t)` and so on). A
hook is a composition of them and one step: `Hook(G)` sets `g' = G`. The early
returns of the code are `Then`, a call under a condition is `When`; `ThenUses`,
`ThenRelation` and the like are the next call of a chain that stops at the first
failure. They take the graph so far as an argument, so that it is written once:
TLC's coverage expands a LET definition at each use, and a chain of them grows
exponentially. The globals the code reads are variables that the operators read,
and that the actions of `ConfigNext` change between hooks. Every hook module
EXTENDS `Capture`, and its next-state relation is its hooks plus `ConfigNext`.

A vertex is `<<identifier, version>>`. A relation keeps its ends, the types they
had, its epoch and whether a query module allowed it. `g.written` is the set of
node versions that were written, with their epoch: it stands for what a consumer
of the stream knows. `g.wrapped`, `took` and `sent` are history variables.

The other modules each take up what the hook modules leave out:

- `Locking` splits a hook into the steps between which other threads run: taking
  a lock, the compression test, the new version, setting a recorded mark, writing
  a node, writing a relation. It has no filters, refusals or epochs.
- `Relay` splits `prov_write`, `insert_boot_buffer`, `write_boot_buffer` and the two
  drains at every access of shared data, but for two places: the test and the
  store of one identifier file are one step, and so is the read of the heads of
  the two chains. Writers write relations about one node. Once two drains have
  one chain, or a writer comes to a cleared pointer, the model ends (`crashed`).
- `ControlFiles` has the filter words and lists of which the hook modules take
  the outcome: `target[i]` there is what all lists together say about node `i`.
- `LSM` has what happens before and after a hook of provenance is asked.
- `Bloom` has the filter of which `Record` keeps the set of labels.

Abstractions:

- types are names and filter words are sets of types, except in `TypeNames` and
  `ControlFiles`, where both are sets of one bits;
- kernel code between hooks is modelled from how hooks depend on it and marked
  external in the map: `commit_creds`, `exec_mmap`, the queue, `sock_graft`,
  mode changes, relay channels as bounded buffers, the answers of other modules;
- the build is that of `src/scripts/.config`: WHOLE_SYSTEM set, PERSISTENCE not
  set (the Kconfig defaults both to n).

## Runs

Every bound is a constant: `MaxCalls` hook calls, `MaxConfig` control file
writes, `MaxEpoch`, `MaxId` identifiers, `MaxMaps` shared mappings of a process,
`MaxSegments`, `MaxPackets`, `MaxIrqs`, and so on. Each property is also violated, within the
bounds of its run, by a plausible error put into a definition it depends on (the
mutants of `PROJECT.json`), so the bounds reach the cases it is about. Deadlock
checking is off because these bounds end every behaviour; that hooks do not wait
for each other for ever is the property `HooksReturn`.

| run | checks | instance |
|---|---|---|
| `file_graph` | `CaptureTypeOK`, `NoCycle`, `EndsWritten`, `VersionChain`, `FlowOnNewVersion` | 2 processes, 1 file, 1 shared mapping each, 4 calls; 15,559 states |
| `file_policy` | `EndsWritten`, `TaintReaches`, `TaintFollowsEdges`, `RefusalReturned` | 1 process, 2 pipes and a file; 2 calls and 2 control writes in any order: flags (all, compress_edge, duplicate), node and relation filters, epoch, a query module, targets, process settings, mode; 250,050 states |
| `task` | `TaskTypeOK`, `GraphSound`, `ProcessLineage`, `FlowOnNewVersion`, `OpaqueExec` | at most 2 processes, 2 files, 5 calls and 1 target write: an execve takes 4 hook calls, a fork and a setuid 2 each, so that a fork with a whole execve after it is beyond the bound; the second process also writes logs and discloses nodes; 312,910 states |
| `inode` | `GraphSound`, `XattrsHaveAuthor`, `FlowOnNewVersion`, `OpaqueNotRecorded`, `TaintReaches` | 1 process, 1 directory at first; 3 calls and 2 control writes, with failing allocations; 298,134 states |
| `ipc` | `IpcTypeOK`, `EndsWritten`, `FlowOnNewVersion`, `ForwardedLineage` | 2 processes, 7 calls (two messages created, sent and received, and a third created), 1 epoch change, 1 segment; 115,865 states |
| `socket_life` | `SocketTypeOK`, `OpaqueNotRecorded` | 2 processes, one stream socket at first and 4 calls out of create, pair, connect, accept and close, 1 target write, failing allocations; 60,267 states |
| `socket_flow` | `GraphSound`, `StreamLineage` | 2 processes, a stream pair, an internet and a datagram socket; 3 calls out of bind, send, receive, packets and close, 1 flag write; 153,584 states |
| `relay` | `OneOwner`, `BootOrder`, `BootIdentified`, `ChannelComplete`, `BootDelivered`, `PromiseSpec` | 1 writer with 2 relations, and 4 writes to the control files by 1 process, or by 2 that write one identifier each, at the same time or not; boot buffers of 2 entries, channels of 2 records, 2 epochs, 1 additional channel; 209,639 states |
| `control` | `FilterExact`, `ListsExact`, `TargetRule` | 7 types, 13 different writes to the lists of which 3 are made, 3 targets, 1 address; 13,703 states |
| `lsm` | `RecordedDone`, `NodeLife` | capability, Yama, then SELinux or no major module; any 3 of some 190 calls, each module answering anything; 150,811 states |
| `locking` | `LockedSound`, `HooksReturn` | 2 threads, of one process or of two, in 10 pairs of hooks that meet on a node, and 1 interrupt, of a packet or of a signal; 107,328 states |

What the properties say, in short:

- `NoCycle`: the recorded graph has no cycle; `FlowOnNewVersion`: no flow ends
  at a version that had passed information on before the hook. The second is
  what the code arranges, the first is what it is for. Packets have no versions,
  so `FlowOnNewVersion` is not claimed for them.
- `EndsWritten`: both ends of each relation were written in its epoch;
  `GraphSound` is this and `NoCycle`.
- `VersionChain`: the versions of a node are connected back to the first.
- `OpaqueNotRecorded`, `OpaqueExec`: opaque nodes and binaries leave no trace.
- `TaintReaches`, `TaintFollowsEdges`: propagation is complete and sound.
- `RefusalReturned`: a refused relation makes the hook fail.
- `ProcessLineage`, `ForwardedLineage`, `StreamLineage`: end-to-end lineage over
  many hooks: a process descends from its parent and its binary, a message from
  what its sender had received in its own context, a receiver from the sender of a stream.
- `XattrsHaveAuthor`: an attribute tied to an inode has a writer.
- `OneOwner`: the chain of boot buffers belongs to the writers or to one drain,
  and nobody is left with a buffer that was freed; it excepts `Overlap`, when two
  processes have been writing the two identifiers at the same time. `BootOrder`, `BootIdentified`,
  `BootDelivered`: what the boot buffers hold reaches the base channel, in order,
  with complete identifiers, eventually. `ChannelComplete`: a consumer who creates
  a channel and advances the epoch is given the ends of every relation of the
  new epoch, unless the writing of the relation had begun before.
- `PromiseSpec`: `Relay` implements `RelayStream`. The mapping takes the numbers of
  the records in the boot buffers to `log` and those written to a channel to
  `out`. The promise allows a record to be replayed more than once on the base
  channel, as a drain that finds the channel full begins its buffer again.
- `FilterExact`, `ListsExact`, `TargetRule`: the words and lists against reference
  definitions over the history of writes.
- `RecordedDone`: what provenance records and accepts is done, unless IMA, EVM or
  fsnotify, asked later, refuse it, or the second half of an exchange is refused.
  `NodeLife`: nodes go with their objects; the exception is named below.
- `LockedSound`: hooks that run at once leave the graph as if they had run one
  after the other, on all nodes that are changed under their lock only. The
  nodes changed without it are named by `Bare`: what the current process has
  mapped shared, the credentials in a splice, the peer in `sendmsg`, the
  signalled task in `send_sigiotask`, the machine. Current is whoever was
  interrupted when `send_sigiotask` runs in an interrupt.
- `HooksReturn`: every hook returns, except in two situations the code allows,
  named `OppositeSplices` and `IrqOnHolder`.

`file_retry` is a run in which TLC finds a violation, of `RetryRefused`: a refused
relation is remembered as the last one, so that the retry is compressed and
allowed. Its finding in `PROJECT.json` quotes the lines.

## Fairness

`Relay`: a thread inside `prov_write` runs on, `write_boot_buffer` runs to its end,
the scheduler runs what `async_schedule` queued, and the base channel is read.
Nobody has to write or to set the identifiers. `SleepCovers`, true in the run,
says that the `msleep(1000)` at the beginning of a drain outlasts an insertion
that was under way, and that the consumer catches up meanwhile. The code relies
on it and does not enforce it.

`Locking`: weak fairness of each actor's steps. A hook is a bounded list of
operations; a thread that spins or holds a spinlock is not preempted; an
interrupted thread goes on when the interrupt handler returns; queued spinlocks
are first come, first served, and each lock is held for a bounded number of
steps.

The other modules assume no fairness: their properties are safety properties.

## Observed while modelling

Where comments or release notes say something else than the code does, or where
a property has to name an exception. These have no run of their own.

- Edge compression compares identifier and type only: after an epoch change a
  repeated relation is not written again (`CHANGES.md:86`: "Record graph in full
  once epoch changes."). It ignores the sender's version, too.
- An inline receive is recorded on the sender's task (`hooks.c:1585`), and as the
  receiver's task has read the receiver's credentials before, its next
  `RL_PROC_READ` is compressed: what it sends on does not descend from the
  message. A datagram
  comes from the creator's credentials, not from the sending socket
  (`hooks.c:2258`); packets are compared by IP identification and source
  address. Runs therefore claim lineage for queues and streams, with
  `HeadersRepeat` false.
- `record_node_name` tests the name mark before it takes the lock that the comment
  at `provenance_record.h:159` speaks of, so that two threads may name a node twice.
- `__write_node` marks a node as recorded before it writes it (the comment at
  `provenance_relay.h:195` says "Then mark") and completes the identifier of every
  node, not only of those that are no packets (`provenance_relay.h:198`). A copy
  in the boot buffers keeps the boot identifier it was written with until
  `tighten_identifier` completes it in the drain.
- Two writers that insert into the boot buffer at once may use the same slot; the
  `relay` run has one writer.
- Two processes that write the two identifier files at the same time may both
  find the identifiers complete, and both take `boot_buffer` before one has
  cleared it (`relay.c:164-169`): two drains then free one chain.
- A drain that finds the channel full returns from between `get_cpu` and `put_cpu`
  (`relay.c:98-102`, `relay.c:130-134`), with preemption off. The model has no
  preemption.
- `prepare_relation` reads the epoch after the ends of the relation were written:
  a relation may carry an epoch in which its ends were not written
  (`CHANGES.md:62`: "Properly associate epoch with relation.").
- Two splices in opposite directions take the locks of the two pipes in opposite
  orders (`hooks.c:1101`). The locks of `provenance_inode.h:228` and
  `provenance_record.h:188` are taken with interrupts on, and `sock_rcv_skb` and
  `send_sigiotask` may take them in an interrupt.
- Credential nodes are not freed when no major module is chosen, since
  `security_cred_free` returns early; `NodeLife` excepts them.
- An inode copies the identifier of its superblock before `sb_kern_mount` sets it.
- The identifier files store the value before they reject 0 (`fs.c:140`); the
  model writes other values only.
- With PERSISTENCE, `set_initialized` would precede the read of the stored attribute.
- `prov_read_policy_hash` hashes the list pointers rather than their contents.
- Updating or deleting an entry of a list leaks the entry that was parsed.
- `current_update_shst` returns the result of its last relation only, and
  `provenance_shm_alloc_security` drops refusals.
- `update_inode_type` changes the type of a recorded inode in place while its mode
  is 0; a forced rename does not reach `record_node_name`, because
  `record_inode_name_from_dentry` returns first; `provenance_inode_setattr` can
  leave an attribute node without author when only the inode is tracked.
- A version counter that wraps makes a cycle possible.

## Proofs

The theorems hold for every number of processes, files, identifiers, labels and
versions, every filter, every query module that refuses by relation type, every
size of buffers and channels, and every bound but one: `MaxMaps` is at most 2, as
the loop over the mappings is unrolled.

| properties | proved for | theorems |
|---|---|---|
| `NoCycle` | file, task and IPC hooks | `FileNoCycle`, `TaskNoCycle`, `IpcEndsWritten` |
| `EndsWritten` (with `NoCycle`, `GraphSound`) | file, task and IPC hooks | `FileEndsWritten`, `TaskGraphSound`, `IpcEndsWritten` |
| `FlowOnNewVersion` | file, task and IPC hooks | `FileFlowOnNewVersion`, `TaskFlowOnNewVersion`, `IpcFlowOnNewVersion` |
| `OpaqueNotRecorded` | file, task and IPC hooks | `FileOpaqueNotRecorded`, `TaskOpaqueNotRecorded`, `IpcPolicy` |
| `TaintReaches`, `TaintFollowsEdges` | file, task and IPC hooks | `FileTaintReaches`, `FileTaintFollowsEdges`, `TaskTaint`, `IpcPolicy` |
| `CaptureTypeOK`, `TaskTypeOK`, `IpcTypeOK` | file, task and IPC hooks | `FileTypes`, `TaskTypes`, `IpcTypes` |
| `OneOwner`, `BootOrder`, `BootIdentified` | the relay with `SleepCovers`, up to `Overlap` | `RelayOneOwner`, `RelayBootOrder`, `RelayBootIdentified` |
| `PromiseSpec` | the relay with `SleepCovers` and `OneWriter`, without `Overlap` | `RelayKeepsPromise` |
| `FilterExact`, `ListsExact`, `TargetRule` | the control files | `ControlFilterExact`, `ControlListsExact`, `ControlTargetRule` |

The hooks:

- `RecordProofs` begins with graphs: edges that climb a ranking form no cycle
  (`RankedAcyclic`), and a ranking extends to a new edge into a sink or out of a
  source. Then every operation of `Record` keeps `GraphInv`, which excludes cycles. Acyclicity alone is not inductive: one must know that the
  current version of an unmarked node has no outgoing edge, that no edge touches
  a version to come, and that no edge touches an identifier not handed out. With
  these, `__update_version` provides a sink and a fresh name node is a source. Log
  entries (`ENT_STR`) send without being marked, as the log file writes their
  relation directly; no relation ever ends at one, which is what `MaySend` and
  `Known` say. The operations need their arguments to be different nodes.
  `EndsWritten` is not inductive either: `__write_node` skips a node whose
  recorded mark is set, so the invariant says what the mark means: the version
  was written in the epoch the mark holds (`MarkTrue`).
- The action properties are about whole hooks, which record many relations.
  `Records(G, H)` states what the way from a graph to a later one may have added.
  It is transitive, so that it is proved for each operation and follows for
  every chain of them. With the graph before the hook
  as the first of the two it is `StepOK`, the four step properties of `Capture`.
- `CaptureProofs`: the getters and the control files keep `CaptureInv`, which adds
  the types of the nodes behind kernel objects. It supplies the different nodes:
  a task, credentials and an inode never share an identifier.
- `FileHooksProofs`: `Init` and every step of `FileHooks` keep `CaptureInv` and
  satisfy `StepOK`.
- `TaskHooksProofs`: here objects are made and freed, so the invariant `TaskInv`
  also says which exist. `LiveOK`: an object that exists has a known node, and an
  inode with a mode exists. `ProcessOK`: the task and credentials of a running
  process exist and have their types. `PrepOK`, `BprmOK`: so do prepared
  credentials and the file of an execve under way. `OwnTasks`: no two processes
  share a task, so that an exit takes nothing from another process. One lemma per
  action.
- `IpcHooksProofs`: `IpcInv` is `CaptureInv` with `QueueOK`: a message in use and an
  attached segment exist and have nodes of their type, and a message has a
  sender, so that the receive hook a sender calls finds both processes.

The relay (`RelayProofs`). All theorems assume `SleepCovers`: a drain that wakes up
before an insertion ends would free the buffer under it. The code relies on this
and does not enforce it. The numbers of writers and of processes that write
the control files are arbitrary. After an `Overlap` of two identifier writers the
chain may have been handed over twice, so the invariants are proved up to it
(`[](Overlap \/ OwnerInv)`; an overlap is never undone, `OverlapStays`). One theorem,
`RelayKeepsPromise`, also assumes `OneWriter`: two writers in `insert_boot_buffer` may
fill the same slot, and then a kept record is lost, which `RelayStream` does not
allow.

- `OwnerInv`: where the program counters of writers and control files may be
  before and after the hand-over (`Phase`), and to whom a chain belongs
  (`Ownership`): as long as its head is set nothing was freed and no drain was
  scheduled; a drain has freed exactly the buffers before the one it is at, and
  from the end of its sleep on nobody inserts. `Sole`: of all the processes that
  hand over at most one holds a chain, which is what the absence of an overlap
  gives and the next hand-over needs.
- `ReplayInv` adds what is in the chains and channels. `Numbered`, `Distinct`:
  entries are told apart by their numbers. `Filled`: an entry is empty or one
  that its writer has passed. `Untouched`: before the hand-over the base channel
  has none of them. `Replayed`: what a drain has passed is in the channel;
  `InOrder`: an entry is there only after all entries before it. `InOrder` alone
  is not inductive, as a drain that finds a channel full begins its buffer again;
  with `Replayed` it is, because what is repeated has its predecessors already.
  `Complete`: the identifiers in the channel are complete.
- `RelayKeepsPromise`: the refinement mapping takes the numbers of the chains to
  `log` and the channels to `out`; `Packed` (with one writer the entries that are
  counted are filled) makes a drain write only kept records. There is one lemma
  for each action, which maps it to a step of `RelayStream` or to a stutter.

The control files (`ControlProofs`). `ControlInv` relates each word to the set of
types asked for (`WordsKept`) and each list to the history of its writes
(`ListsKept`: an entry for each key not deleted since, in the order of the first
write since, with the operations of the last one). `DeleteExact`, `AddExact` and
`UpdateExact` say that the three ways a list changes keep this.
`ControlFilterExact` also rests on `TypesDistinct`, the facts about the words of
`type.h` (the bits of two types of a category do not meet) that TLC evaluates.

`BloomProofs`: a label that was added is found (`NoFalseNegative`); the operations on
filters are those on sets of labels (`FilterOfLabels`, `MatchOfLabels`), which is
what lets `Record` keep labels; and with two labels at most seven apart, all
labels between them are found as well (`LabelsBetween`), because the seven hashes
of a label are those of its successors. They hold for every hash.

The assumptions on constants are those of the modules: `RecordAssumption`,
`CaptureAssumption`, `FileHooksAssumption`, `TaskHooksAssumption`,
`IpcHooksAssumption`, `RelayAssumption`, `ControlAssumption`, `TypesDistinct` and
`HashValues`. Acyclicity is
proved up to `g.wrapped`, as the wrap of the 32-bit version counter does break it.

Only model-checked:

- `HooksReturn` and `BootDelivered` are liveness properties under fairness, which
  are out of the prover's reach.
- `ProcessLineage`, `ForwardedLineage` and `StreamLineage` use reachability. To
  prove them takes induction over paths, which the prover cannot do.
- `VersionChain` and `OpaqueExec` do not hold for all values of the constants: a
  filter that is set and removed again cuts the chain, and the hook of another
  process may make the binary opaque between the check and the commit of an
  execve, which looks at the new credentials only.
- `ChannelComplete`, `RefusalReturned`, `XattrsHaveAuthor`, `LockedSound`, and the
  modules on inodes, sockets and locks: not attempted yet.
- `RecordedDone` and `NodeLife`: `LSM` keeps the modules to be asked as a sequence
  that it filters, about which the prover knows nothing.

## Not modelled

- The stored inode attribute and its persistence: compiled in with PERSISTENCE
  only, which is off. An attribute that is found is taken to be empty.
- `cred_transfer`, which copies a whole node with its identifier: in the hook
  modules identity is by object.
- Relations disclosed by user space, which are passed through unchecked.
- Control files that only read: version, commit, policy hash.
- IPv6, and the contents of names, addresses and packets.
- A filter list that is changed while a hook walks it.
- Memory that is gone although a socket points to it, and the one allocation in
  `task_alloc` whose result is used untested.
- Loops of `security.c` that provenance takes no part in, and calls compiled out.
- Combinations across hook modules (a process that forks while it shares a
  socket): each hook module has its own next-state relation over the common
  `Capture` state, and the union of them is out of TLC's reach.

`PROJECT.json` gives the status of each part, and the hazards with the properties
that cover them or the reason why none does.
