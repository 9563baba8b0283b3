# A TLA+ model of gbash

gbash is a sandboxed bash: a shell interpreter in Go whose commands, filesystem and
network are its own, embedded as a library, run from a command line, or served to
clients over JSON-RPC. This directory models the parts of it in which goroutines meet,
and the parts in which a long sequence of calls has to keep two structures in step,
checks them with TLC on small instances, and proves the most important facts with
TLAPS for every value of the constants.

Paths such as `server/session.go` are relative to the root of the gbash repository.

## 1. The system

| component | state | operations | hard behaviour |
|---|---|---|---|
| **JSON-RPC server** `server/server.go`, `server/session.go` | session registry (`sessions`, `sessionsMu`), connection table (`conns`, `connsMu`), one context per connection | `Serve`, `addConn`, `readLoop`, `decodeLoop`, `session.create/get/list/destroy/exec`, `reapLoop`, `clientConn.close`, `closeConnections` | check-then-act with the lock given up in between, expiry against use, disconnect during an execution, shutdown while connections arrive |
| **Interpreter pipe** `internal/shell/interp/virtual_pipe.go` | byte buffer, two closed flags, read deadline, one condition variable | `Read`, `Write`, `Close` of either end, `SetReadDeadline` | lost wake-ups, several goroutines per end, deadlines racing reads |
| **Named pipe** `fs/fifo.go` | byte buffer, reader and writer counts and epochs; per open file a closed flag and what it has seen | open, `Read`, `Write`, `Close`, cancellation | end of file and broken pipe are decided from counts that change while a goroutine sleeps |
| **Unix socket listener** `server/unix_listen_unix.go` | a path in the host filesystem | listen, remove a stale socket | two servers starting on one path |
| **Session execution** `internal/runtime/session.go`, `runtime.go` | session mutex, shell state carried between executions | `Exec`, `Interact` | re-entrant calls, a timeout against a late finish |
| **Capture buffer** `internal/runtime/buffer.go` | bytes in memory, spill file | `Write`, finish, close | the limit and a spill that fails part-way |
| **Sandbox layout cache** `internal/runtime/layout_state.go` | what has been laid out | ensure, invalidate | a cached fact that a later mutation makes wrong |
| **Background jobs, process substitution** `internal/shell/interp/jobs.go` | live-job counter, list of jobs | start, wait, `StopJobs` | the cap, jobs that start jobs during `StopJobs` |
| **File descriptors, `read`** `internal/shell/interp/fds.go`, `builtin.go` | descriptor table, deadline guards | open, dup, close, `read -t` | two `read`s on one descriptor |
| **Traps** `internal/shell/interp/trap.go`, `trap_signals.go` | pending signals | deliver, run | a signal during a trap |
| **Runner, parser, expansion** `internal/shell/interp`, `shell/` | the shell's variables, functions, options | evaluation of a script | sequential, data-heavy |
| **Overlay filesystem** `fs/overlay.go` | upper layer, lower layer, tombstones | `OpenFile`, `Remove`, `Rename`, `Link`, ... | copy-up, hidden lower entries, rename failing part-way |
| **Memory, mountable, trie, host filesystems** `fs/` | inode tables, mount tables | the `FileSystem` interface | hard links, cross-mount rename |
| **Network policy, path policy, registry, trace, CLI** | configuration | predicates, appends | sequential |

How they interact. `Serve` accepts connections; each has a `readLoop`, which handles one
request after the other, and a `decodeLoop`, which hands it decoded frames over an
unbuffered channel and cancels the connection's context when the peer is lost. A
`session.exec` runs `Session.Exec` of the runtime under that context; the runtime starts a
runner of the interpreter on the session's filesystem. The runner connects the goroutines
of a pipeline through interpreter pipes, and scripts open named pipes through the
filesystem. Contexts carry cancellation downwards (client, connection, execution, blocked
`Read`), so a component below that fails to notice a cancellation stops the ones above from
finishing. That chain (server, execution with its jobs, pipes) is what the models follow
from top to bottom; the overlay filesystem and the layout cache are the two places where
state is kept twice and has to agree.

What makes each component correct:

* server: the caps hold; an execution keeps its session; sessions vanish only for a
  reason and never survive their connection; disconnects and shutdown release everything;
* pipes: no byte lost, repeated or reordered; end of file means the end; nobody sleeps who
  could go on; closing, deadlines and cancellation unblock;
* filesystems: what a lower layer holds is never changed, what was removed stays removed,
  a failed operation leaves the tree as a reader may expect it;
* jobs and executions: nothing outlives the execution that started it, the cap holds, the
  reported outcome is the real one;
* caches and buffers: never stale, never over their limit.

`PROJECT.json` lists the hazards behind these sentences, each at its line in the code.

## 2. Modules

| module | what it is |
|---|---|
| `SessionServer` | the server, one action per critical section, channel operation or blocking call |
| `SessionLease` | what the server promises about sessions, without goroutines, locks or time |
| `SessionServerProofs` | inductive invariant, theorems, refinement proof |
| `VirtualPipe` | the interpreter pipe |
| `PipeStorage` | the slice in which the interpreter pipe keeps its unread bytes |
| `MemoryFIFO` | the named pipe |
| `ByteChannel` | a bounded first-in first-out channel, implemented by all three |
| `VirtualPipeProofs`, `PipeStorageProofs`, `MemoryFIFOProofs` | inductive invariants, theorems, refinement proofs |
| `JobGroup` | background jobs and process substitutions of one shell family, and `StopJobs` |
| `CaptureBuffer` | the buffer that captures an output stream, with its spill file |
| `Execution` | one `Session.exec`: composes `JobGroup` and `CaptureBuffer` up to the result |
| `ExecutionProofs` | inductive invariants of the shell family, the buffer and the result, with their theorems |
| `SandboxLayout` | the cached directory layout of a session and its invalidation |
| `SandboxLayoutProofs` | inductive invariant of the cache and its theorems |
| `FileTree` | the memory filesystem: paths, links, and every operation on them |
| `OverlayFS` | the copy-on-write filesystem, compared with `FileTree` |
| `OverlayViewProofs` | what resolution, listings, copy-up and each operation do to the merged view |
| `OverlayFSProofs` | extends `OverlayViewProofs`: rename, the invariant of the layers, the theorems and the refinement |
| `MC*` | sets of model values and symmetry for TLC |

In the component modules an operator whose comment starts with "Mutant of" is a plausible
wrong version of the definition that follows it. No specification uses one; substituting
it for the original makes TLC report the property that `PROJECT.json` pairs it with.

### 2.1 SessionServer

Registry state (`sessions`, `owner`, `busy`, `age`) is that of `serverState.sessions` and of
the `serverSession` objects. An object exists from its construction in `createSession`,
which is before it is registered, and outlives its removal; `owner[s] # NoOwner` says that
it exists. `age[s]` is the time since `idleSince`, capped at `SessionTTL`, so the clock
needs no bound. `reapExpiredSessions` reads the clock just before it takes the mutex; the
model reads it inside, which only moves a tick across the lock.

`loop[c]` and `decode[c]` are the program counters of the two goroutines of a connection.
`session.create` takes four steps (reap, first look at the cap, construction outside the
locks, second look and insert), `session.exec` three (reap, acquire, run), and
`clientConn.close` three (cancel and close the socket, leave the connection table, drop the
sessions), each open to interleaving with everything else. `serving`, `watcher` and
`reaper` are the goroutines of `Serve`; `toClose` holds the two snapshots that
`closeConnections` works through when the watcher and `Serve`'s deferred call both run it.

Abstracted: the text of requests and responses. A frame is a number in `inbox`, its method
and session id are chosen when `readLoop` receives it, and a malformed or oversized frame is
`offerBad`. A partial frame whose deadline passes (`requestLimitReader`) is a client that
has `stalled`. Temporary accept errors are retried and change nothing.

### 2.2 VirtualPipe

Methods hold the pipe's mutex except inside `cond.Wait`. One action is therefore what a
goroutine does from getting the mutex to returning or waiting, and a woken goroutine resumes
*inside* the wait loop. `buf`
is the unread part of the slice; growing, compacting and pooling leave it unchanged, which
is what `PipeStorage` is about. `SetReadDeadline` takes two actions, because it releases the mutex before it
compares the deadline with the clock and schedules a wake-up. `got`, `lost` and `eof` are
history.

### 2.3 PipeStorage

A layout is the slice with `readPos` and `writePos`; each `...Locked` helper is an operator
from layouts to layouts, and an action is one round of `Write` or `Read` or a close. The
doubling loop of `nextBufferCapacity` is written as the set of sizes it can stop at. A slice
borrowed from the pool is full of `Junk`. `bufSize` is a variable that never changes, because
`newVirtualPipeSize` takes any size; only some sizes use the pool.

### 2.4 MemoryFIFO

A handle is one `memoryFIFOFile`: opened once, used by one `Read` or `Write` at a time,
closed by anybody at any moment. `Close` takes two actions because the closed flag is an
atomic set before the mutex is taken. The writer epoch counts every open for writing and
the reader epoch those that find no reader, as the code does; both are bounded by the number
of handles. `Cancel` and `Wake` are the context and the broadcast of its
`context.AfterFunc`. `met` and `eof` are history. `scene` says of each handle how it may be
opened, how much it writes and whether its context may end; it is a variable that never
changes, so that one run explores several combinations. `clone`, which copies the bytes into a
new FIFO, changes nothing in the original and has no action.

### 2.5 JobGroup, CaptureBuffer and Execution

A task is the goroutine of a job or of a process substitution; a shell is the main one or a
task. A task has a status: live, closing (its `bg.done` is closed, so a waiter goes on, but
`jobDone` has still to run) and ended. `startBackground` takes two actions, because the
counter is raised before it is compared with the cap: `Reserve`, then `Refuse` or `Admit`.
Contexts form a tree: `above[t]` is the set of jobs whose own context the context of `t` is,
or is below. A job that leaves cancels its context and so those of the tasks it has
started; the group reaches a job through its `AfterFunc` (`armed`), some time after
`StopJobs` has cancelled it, also for a job that is registered later. `StopJobs` takes three
actions: cancel the group, close the pipes of the substitutions, wait for the counter.

`WaitFor` is the `wait` builtin, for all tasks or for some. `EndStmt` is the end of a statement
with a substitution: its pipe is closed (`shut`) and, for `>(cmd)` of a redirection, the task
joined. Both receive from `bg.done` and look at no context. A pipe that `exec > >(cmd)` keeps is
closed by `StopJobs` only (`released`). Three kinds of substitution are told apart by what ends
them: the `Read` and `Write` of a pipe look at no context, so a command that is blocked in one
ends with its context only if the command itself looks at it (`cat`, through a reader with a
context: "subst"); one that reads its standard input directly (`tee`, `head`, `uniq`) ends when the
pipe is closed and not before ("blind"); and one that does without its pipe, such as
`<(sleep 9)`, ends with its context only ("deaf"). `Stuck` is the state in which the main shell
waits, directly or through tasks that wait themselves, for a blind one whose pipe is open.

`scene` holds the cap and the bounds of a run and never changes.

`CaptureBuffer` holds its mutex in every method, so `Write` and `Close` are operators from a
buffer to the set of its outcomes: creating the spill file, writing it (after any part of
the bytes) and closing it may fail, and so may the removal of a file that is given up, after
which it is `stray`. The i-th byte of a stream is the number i.

`Execution` adds to the family of shells that any of them writes, that the script ends with
a status or with an error, which may be a context error although the execution's own context
is live (a command may have had one of its own), and the two steps after `StopJobs`: `Classify` (the
result is taken from the buffer, and a timeout or cancellation adds its message) and
`FinishOutput` (the files are closed and reported). The buffer is that of stderr, the one the
message goes to; stdout's is filled and closed alike.

Abstracted: what a script does between two statements that start, await or print something;
it may end at any moment. Two ways to block that no context ends are left out: a shell that
is blocked in a pipe it inherited from a task it did not start, and a command that reads a
standard input of the request which itself blocks. The pipelines inside a shell are not told apart. A nested shell
(`bash -c`) has a group of its own, another instance of the module, and to its parent is
part of a statement. Decrementing `live` and `wg` at the end of a job is one step, and so
are the registration of a substitution's pipe and its `wg.Add`, which its shell does without
letting go. Identities of tasks are used in order, as they are interchangeable.

### 2.6 SandboxLayout

An item is a directory or a command stub of some layout; `Inside` says what lies at or below
its path. An environment is the HOME, PATH and working directory of a request. `Change` is a
command that makes, removes or replaces an item, and `Record` the event that tells the cache
about it, later: between the two other commands change other items, and a nested execution
(`SubExec`) asks the cache. `Return` waits for all events, which is what `NothingOutlives`
of `Execution` gives. `Built` is the loop that makes what is not tracked, up to the first
item that cannot be made; because making an item never undoes another, it is written without
recursion: entry n `Fails` if it cannot be made once those before it are, and the loop reaches
the entries before the first that fails. `failed` is history: the code clears the dirty mark before
it builds, so after a failure the cache claims more than there is, until a later event.
Paths inside a command directory that are no stub invalidate the cache too early, which
only costs time and is left out. Left out as well: the comparison of the command names in
`Fresh`, since the registry does not change within a session; the `Chmod` of `/tmp` and its
error in `Built`, which fails like an item that cannot be made; and operations that change the
tree and then fail. `CommandFS.Remove` and `Rename` record an event only on success, while
those of the overlay may fail after a change where the lower tree is in the way (section 5):
the cache is then not told (hazard `invocation_capabilities.go:388`).

### 2.7 FileTree and OverlayFS

`FileTree` is the node table of `fs/memory.go` with a node's kind, link target, inode and an
`attr` that stands for content and metadata: untouched since the start, changed in place, or
made since. Operations are operators from a tree to an outcome, so that `OverlayFS` can
apply them to its upper layer and be compared with them on the merged view. `FinalKept`
is the one difference between the two resolutions: `resolveMergedDepth` keeps
`followFinal` when it goes on after a link, `resolveAbsLocked` does not (section 5).

What the code does in loops or by recursion is written with recursive functions of the
number of rounds, so that it can be proved about: `Hops` is what is left of a path after n
links, `MkdirSteps` and `MkdirWalk` are the two `MkdirAll`s after n names, and `Moves` is
`moveMerged` after n of its calls, with the calls still to be made as a stack. The number
of rounds is known beforehand: `MaxSymlinkDepth`, the length of the path, the number of
merged entries at the source and below it. Each of these functions stays where it is once
its work is done, so a larger number would not change the result.

`OverlayFS` has the upper tree and the tombstones as variables. Copy-up, ancestors made with
their lower attributes, clearing of tombstones, the two questions of `Remove` and the
recursive move with its failures part-way are operators that follow the code's order. An
operation that fails is a step as well, for what it has copied up by then.

Abstracted: the lower tree never changes and has no hard links; the cache `lowerDirs` then
has no effect; the lower layer keeps the last name of a path (`LowerLstat`), as a host does and a
`MemoryFS` behind a link does not (section 5); `Link` sets no modification time; link targets
are absolute; the working directory is left out; the order in
which `moveMerged` goes through a directory is arbitrary; lazy files are files. One operation
is one step: `OverlayFS` takes no lock across an operation, and a second caller inside one
is not modelled.

## 3. What TLC checks

| run | instance | result |
|---|---|---|
| `server_registry` | 3 connections for 2 slots, 2 session ids for 1 session slot, TTL 1 tick, clients leave | types; both caps; executions keep their sessions; `SESSION_BUSY` never returned; no orphans; removals justified; `SessionLease` implemented |
| `server_liveness` | 1 connection, 1 session, every environment event | disconnects stop executions and release everything; shutdown completes; idle sessions are reaped |
| `pipe_safety` | 2 readers, 2 writers, buffer 2, 3 bytes each | types; no lost wake-up on either side; nothing lost or duplicated; order |
| `pipe_channel` | 2 readers, 1 writer, buffer 2, 3 bytes | end of file is final; `ByteChannel` implemented; close and deadline unblock |
| `pipe_storage` | every buffer size up to 5, buckets 2 and 4, 8 bytes | no copy out of range; no stale byte returned; `ByteChannel` implemented |
| `fifo` | capacity 2; four scenes: a reader and writers of 3 bytes and 1; a reader and a writer of 3 bytes, both cancellable; two readers and a writer of 2; a reader, a writer and a handle for both, 1 byte each | types; no lost wake-up; `ByteChannel` implemented; cancel, close and the last writer unblock |
| `fifo_stale_writer` | 2 handles | **violated**, see 5 |
| `overlay_tree` | 6 paths in 3 levels; the lower tree has nested directories, a file and a link; new links lead to a lower directory | every operation acts as on one tree; listings are those of the view |
| `overlay_listing` | the same | **violated** |
| `memory_entry` | 5 paths in 2 levels, links to 2 of them | **violated** |
| `execution` | memory limit 1, spill limit 2; three scenes: 2 tasks at a cap of 1; 2 tasks, cap 2, 2 bytes; 1 task, 3 bytes | types and limits; counters exact; nothing outlives `StopJobs`; the result accounts for every byte; nothing cut short; the execution returns unless it is `Stuck`, see 5 |
| `layout` | 2 environments, 5 items in 2 levels | the cache is coherent; a script starts with its layout |

**Bounds.** `Conns`, `SessionIDs`, `Readers`, `Writers` and `Handles` are finite sets of
identities. Each race in these components is between two actors over one slot, key or byte:
three connections with two slots let two be served while a third competes; two session ids
with a cap of one let two creates race for the last place; three handles let a reader sleep
while a writer leaves and another arrives. `MaxInbox` bounds the frames the decoder has not
read (one in each run; with `Pipelining` a second one is in the decoder's hands).
`SessionTTL` is one tick: a session is then fresh or expired, the only distinction the code
draws. `BufSize`/`Capacity` and `MaxBytes` are chosen so that a writer overruns the buffer
and has to continue a partial write. The scenes of the FIFO split what one instance would be too
large for: a queue of two with a continued write beside a second writer, for the order of bytes;
cancellation of a blocked `Read` and of a blocked `Write`, with and without a peer; readers that
follow one another; and a handle that keeps itself company. A cancellation beside a third handle
is in no scene; that nobody sleeps on after it is proved for every scene
(`ReadersNotForgotten`, `WritersNotForgotten`). `Events` selects what the environment does, so
that the registry run is not multiplied by the shutdown sequence that the liveness run
explores; the proofs hold for every `Events`. Two tasks are enough for a job that starts a job or a
substitution, for two starts that race at the cap, and for a task started while `StopJobs`
waits. In the first scene there are more tasks than the cap admits, so that exceeding it would
show. A limit of one byte in memory and two on disk lets a single write cross both. The paths of the overlay
instance give each case of the code a place: in the lower tree a directory within a directory
with a link inside it (so that a move of the inner one recurses, by one level) and a file beside
it; and a name below the file that becomes free only when the file is replaced by a directory.
Moves of deeper trees are covered by the proof, which is for every finite set of paths.
`MaxSymlinkDepth` is 2 instead of 40, so that a loop ends. `SharedDeadline` says whether a future
deadline may be set while another goroutine reads; the `read` builtin sets it on its own
goroutine, before its read.

**Symmetry** is used only in `server_registry`, over connections and session ids. **Deadlock** checking is off: a server whose clients have all left,
a pipe that is closed and drained, or an execution that has returned, has nothing left to do.

**Fairness** is what the Go scheduler and its starvation-free mutexes give: a goroutine that
can run runs, a ticker ticks, time passes. Weak fairness is per goroutine. Nothing is assumed
of clients, of new connections, of the caller's cancellation, of a write to a peer that is
connected but does not read, or of a script whose context is live; a script whose context is
cancelled returns, the contract the server relies on in `Session.Exec`. For pipes nobody has
to read, write, close or set a deadline. A `select` with two ready cases may take either;
An execution is fair to its goroutines and to a due
`AfterFunc`; a task or a script whose context is done ends (`runner.go` tests the context
before every statement, and `sleep`, `read`, `cat` and FIFOs return when it ends; not assumed
where two `read`s share a descriptor, hazard `builtin.go:1785`) unless it waits for a task or is
a blind substitution, since pipes look at no context; and a substitution that uses its pipe ends
once that is closed. This is strong fairness, since a shell may be
inside a statement in between. No script has to end, to start or to await anything.
`ShutdownCompletes` needs no strong fairness, because cancellation is permanent and frames
are finite.

## 4. What is proved

TLAPS checks these for arbitrary finite sets of connections and sessions and arbitrary
limits, using only the named `ASSUME`s of the component modules.

**`SessionServerProofs`.** The properties are not inductive by themselves. `IndInv` adds
what the goroutines know of each other, one named part per reason:

* `ExecInv`: a running execution has a session id, whose session is the connection's own,
  busy, and registered unless the connection has been closed;
* `InsertInv`: an id drawn by `createSession` is not yet registered and not busy;
* `OwnedInv`: every registered session has an owner;
* `SlotInv`: between `addConn`'s look at the table and its insert the slot stays free, since
  only one goroutine adds connections and all others remove them;
* `StartInv`: only a connection with a `readLoop` is in the table, in a snapshot of
  `closeConnections`, or closed;
* `CloseInv`: while the server is up `close` is run by `readLoop` itself, once it has left its
  loop, so its sessions are dropped only when it can create no more.

From it follow `TypeCorrect`, `SessionLimitHolds`, `ConnLimitHolds`, `ExecSafe`, `BusyUnreachable`,
`NoOrphanSessions`, the action property `RemovalsJustified`, and `ServerImplementsLease`:
initial states map to initial states and each action to a lease step or a stutter.

**`ExecutionProofs`.** `JobInv` is about the variables of `JobGroup`: every step of an execution
is a step of its shell family or leaves it alone (`ExecStepIsJobStep`). Exact counters are not
inductive without the places of the shells: `CountInv` also bounds the jobs together with the
reservations that have passed the cap, `PlaceInv` says that only a live task is inside
`startBackground` (so that `wg` cannot be zero while a task is about to start another),
`AboveInv` that what the main shell started is below no other job's context, `StopInv` that only
`StopJobs` cancels the group. It gives `CountersAreExact`, `NoTaskOutlives` and
`CancelsAreJustified` for any finite set of tasks and any cap.

For the result, `ExecInv` has three parts. `BufInv` says of a buffer that memory
holds the first bytes and the file those that follow (`Placed`), and that what is in neither is
flagged (`Accounted`). It is not inductive while the buffer is open: `OpenInv` adds the four
states of the spill file (not tried, open and complete so far, cut, given up and removed),
without which a later write could leave a gap in a file that counts as complete. `ResultInv`
ties the result to the buffer: once it is taken the main shell is joined, so by
`NoTaskOutlives` no shell of the family can write again. One lemma per operation of the buffer
(`ToFileStep`, `SpillStep`, `WriteStep`, `CloseStep`) covers every outcome, failed ones included. It
gives `TypeCorrect` (with both limits) and `ResultsAreComplete` for every memory limit, spill limit
and number of tasks, with or without a spill directory.

**`VirtualPipeProofs`.** `IndInv` is the type invariant with `CallInv` (a call in progress
has bytes left) and `ArmInv` (a deadline to come has its wake-up, or `SetReadDeadline` has
still to schedule it and nobody is inside `Read`) besides the
stated properties. It gives `TypeCorrect`, `BufferStaysBounded`, `WritersNotForgotten` and
`ReadersNotForgotten` for any number of goroutines at each end. With one goroutine at the write end (`SoleWriter`)
`SoleInv` adds that nobody waits in `Write` once the end is closed, and that a reported end
of file stays true, which gives
`SoleWriterEOFIsFinal` and `SoleWriterIsChannel`. With two writers both fail (hazard
`virtual_pipe.go:361`).

About the data, `NothingLost` and `InOrder` need each other: `DataInv` says of what was
returned followed by what is buffered (`Through`) that the bytes of a writer are in order there,
and that, while the read end is open, its elements are the bytes accepted less those given up by a
failed call. Bytes in order cannot occur twice, which turns the count in `NothingLost` into a
fact about a bijection. `NothingIsLost` and `BytesComeInOrder` hold for any number of readers and
writers, also in the case of two writers in which the end of file is not final.

**`MemoryFIFOProofs`.** `IndInv` adds to the stated properties `CallInv` (a `Write` in progress has
bytes left), `LifeInv` (a handle is in use only between its open and its `Close`) and the bound on
the buffer. It gives `TypeCorrect`, `ReadersNotForgotten`, `WritersNotForgotten` and the refinement
`FIFOIsChannel` for any finite set of handles, any modes and any capacity. `CountersMatch`, which no
run checks, says that `readers` and `writers` count exactly the handles that are attached, so that
the guards in `Close` against a count below zero never apply.

**`PipeStorageProofs`.** `IndInv` says that the positions are in range and that no unread cell
is junk. One lemma per helper says what it preserves; `CapacityFacts` (at least what is
needed, at most `bufSize`) rests on the well-ordering of the naturals, because the bucket and
the doubling are chosen as the least that will do. `StorageInBounds` and `StorageIsQueue`
hold for every buffer size, bucket list and minimal allocation.

**`SandboxLayoutProofs`.** `CacheCoherent` alone does not say that the cache knows all of its layout.
`SeedInv` adds this for a cache that no failure has left behind, and that a cache with tracked
items knows its commands (otherwise `Record` would compare an event with the wrong items); an idle
session has no event on its way. `BuiltFacts` is all that the proofs need of the loop: it undoes
nothing, what it adds is there, and if it gets to the end nothing is left out. `CacheIsCoherent` and
the action property `LayoutIsPresent` hold for any items, any nesting of them and any layouts.

**`OverlayViewProofs` and `OverlayFSProofs`.** `ActsAsOneTree` compares the two layers with one tree
and says nothing of the layers themselves; it cannot be carried from one state to the next. The
inductive invariant `WellFormed` describes the layers, and everything else is derived from it for a
single state:

* `StateOK`: the upper layer is a finite map from paths to nodes, tombstones are paths;
* `Rooted`: there is an upper root and no tombstone is on it, otherwise nothing would be visible;
* `Closed`: directories of the upper tree lead to every upper entry, so an upper entry is never
  cut off from the view;
* `Shadows`: an upper directory stands on a lower leaf only where a tombstone is on it or above
  it. Without this part a `MkdirAll` over a removed file could bring the file back when the
  directory goes;
* `Plain`, `Numbered`: directories carry nothing but their attribute, and a leaf is numbered by
  the path that `Canonical` chooses, so that equal views are equal values and hard links of the
  upper tree are links of the view.

The argument goes in five steps. (1) Resolution in `Visible` is resolution in `Merged`
(`resolveMerged` looks name by name and never meets an entry that no directory leads to).
(2) `CopyUpKeepsTheView`: copying up an entry and its ancestors changes the layers and not the view,
and keeps `WellFormed`. (3) After the copy-up the path resolves in the upper tree to itself, so what
the upper tree does there is what one tree would do; one lemma per operation says so
(`MkdirAllInView`, `OpenInView`, `SymlinkInView`, `MkfifoInView`, `LinkInView`, `TouchInView`,
`RemoveInView`), and `ReadDirView` says it of listings. (4) `Rename` is a sequence of moves during
which the view is neither the old nor the new tree. Its loop invariant (`Stack`, `Tracks`, `Going`)
says that the pending moves are pairwise apart, that together with what has been moved they
cover the subtree exactly once, and that every entry outside source and destination is as it was;
counting what is `Left` shows that the number of calls suffices. The final `Remove` of the source
then leaves what `RenameIn` of `FileTree` computes (`RenameInView`). (5) A step that fails part-way is
`WellFormed` as well, which makes the invariant inductive under every step, also under those
that `ActsAsOneTree` exempts.

`OverlayWellFormed`, `OverlayLists` and `OverlayActsAsOneTree` hold for every finite set of paths closed
under prefixes, every lower tree without hard links, every set of link targets and every
`MaxSymlinkDepth`, loops of links included. `OverlayImplementsTree` is the refinement: the first view
is the initial tree of `FileTree`, and each step from a state in which no lower path is in the way
(`LowerInTheWay`, section 5) is a step of `FileTree` on the view or leaves the view alone, among
them all failed operations.

These proofs need induction over the names of a path, the links followed and the moves made. The
library's induction rules take an operator as a parameter and cannot be used here; instead each
induction takes the least element of the set of its counterexamples (`LeastNatural`, from the
well-foundedness of the naturals), and one lemma for each recursive function shows that it exists
and unfolds it by one round (`HopsStep`, `MkdirStepsStep`, `MkdirWalkStep`, `MovesStep`).

Every safety property that a passing run checks, invariant or action property, is stated by a
theorem. Only model-checked are the liveness properties (`DisconnectStopsExec`, `GoneIsReleased`,
`ShutdownCompletes`, `IdleIsReaped`, `CloseUnblocks` of both pipes, `DeadlineUnblocks`, `CancelUnblocks`,
`LastWriterUnblocks`, `ExecReturns`), because fairness and `ENABLED` are outside this prover's reach.

## 5. Where code and documents disagree

1. `fifo_stale_writer`. `sawWriter` is initialised from `writerEpoch > 0`, which stays true
   once the FIFO ever had a writer, and not from a writer that is attached: a reader opened
   between two writers reads end of file at once.
2. `overlay_listing`. `ReadDir` asks the lower layer about a path without looking for a
   tombstone above it, and returns its error. With a lower file `/a/b`, after
   `rm /a/b; mkdir -p /a/b/y` the directory `/a/b/y` exists and cannot be listed. `Remove` does the
   same after it has taken the upper entry out. `overlay_tree` exempts this case
   (`LowerInTheWay`), and one more: a path renamed to itself, where the overlay succeeds and
   changes nothing while `MemoryFS` answers that the name exists. No document decides between
   the two.
3. `memory_entry`. After a link in the middle of a path `resolveAbsLocked` follows the last
   name as well, so `Lstat`, `Readlink`, `Remove` and `Rename` of `/dirlink/x` are about what
   `x` points to.
4. `server_registry`, which passes. `NeverBusy` says that `SESSION_BUSY` is never sent, and
   `BusyUnreachable` proves it; `website/content/api/server.mdx` lists it as an error of
   `session.destroy` and `session.exec` (lines 396 and 470) for a session that "already has a
   running `session.exec`" (line 501). Such a request waits until the execution is over.
5. `execution`, which passes because `ExecReturns` names the case. `SPEC.md` (lines 891 and 892)
   says that a timeout and a cancellation stop the execution. After `exec > >(tee log); wait`
   the main shell waits for `tee`, which is blocked in a pipe that looks at no context and is
   closed by `StopJobs`, which comes after the wait: the deadline passes and nothing ends.
   A job that does the same before the main shell waits for it, or a substitution joined at the
   end of a statement, has the same effect. Without the disjunct `Stuck` TLC reports this
   behaviour; with it, it finds no other.

Three more are reached by changing a constant of a passing run, and are listed as hazards:

* `Pipelining = TRUE` in `server_liveness` violates `DisconnectStopsExec`: with a second
  request sent before the first is answered, `decodeLoop` waits to hand that frame over and
  does not read on, so the disconnect stays unseen until the execution ends by itself.
* two writers in `pipe_channel` violate `EOFIsFinal`: `Write` does not look at `wrClosed` again
  after its wait loop (`{ cmd & } | reader`).
* `SharedDeadline = TRUE` in `pipe_channel` violates `DeadlineUnblocks`: a deadline that
  passes between `SetReadDeadline`'s unlock and its comparison with the clock gets no
  wake-up. The `read` builtin sets the deadline before it reads and is not affected.

## 6. Plan

1. *(done)* the server, the interpreter pipe with its storage, and the named pipe, with proofs.
2. *(done)* the overlay and memory filesystems under one caller, jobs and process
   substitutions, capture buffer, execution, layout cache. A second caller of the overlay,
   with copy-up and removal split into their steps, would extend `OverlayFS`.
3. The deadline guard of concurrent `read`s, composed with `VirtualPipe`.
4. Cross-mount rename of the mountable filesystem, on top of `FileTree`; traps.
5. *(done)* proofs of every safety property, those of the overlay included. A second caller
   of the overlay would need `WellFormed` again, weakened to what holds between two steps of an
   operation.

## 7. Not modelled

The runner, parser and expansion are sequential functions over an unbounded language, where
differential tests against bash say more than a small instance could. The host filesystems
and the host adapter are calls into the operating system. The command registry is filled
before the first execution; the commands are sequential text tools. The trace recorder only
appends. The network and path policies are sequential predicates. The Unix listener's race
with a second server is decided by the host filesystem. Within the modelled components: the
text of requests and responses, file contents, the session mutex (one execution at a time is
what `Execution` and `SandboxLayout` start from), concurrent callers of the overlay. The
remaining components of section 1 are in the plan.
