# QPHi verification project

TLA+ models of the QPHi C library (`src/src/`), the TLC runs that check them and
the theorems TLAPS proves about them. `PROJECT.json` ties every definition to
the source lines it models, every run to its properties and every property to a
plausible bug (a "mutant") that it catches.

## 1. The system and its parts

QPHi is a Linux base library: locks, pools, threads and processes, buffered
files, sockets, events. Paths below are relative to `src/src/`.

| part | source | state | operations | hard parts |
|---|---|---|---|---|
| lock | `core/qp_ipc_core.c` 322-563 | a mutex or spin word; ownership record `hold_counter`, `hold_thread`, `hold_process` | lock, trylock, unlock, destroy, counter | the record is read without the word; processes share locks through fork |
| condition | `core/qp_ipc_core.c` 692-832 | `nready`, a lock, a pthread condition | signal, wait, destroy | `pthread_cond_wait` releases the lock's mutex behind the record's back |
| rwlock | `core/qp_ipc_core.c` 566-690 | a pthread lock, flags | create, (try)rdlock, (try)wrlock, unlock, destroy | destroy probes the lock while others use it |
| semaphore | `core/qp_ipc_core.c` 835-915 | a POSIX semaphore, flags | create, post, wait, trywait, destroy | waiters at the time of the destroy |
| shared memory | `core/qp_ipc_core.c` 917-1033 | address, descriptor, name | init, start, destroy | one name used by several processes, init failing half-way |
| pool, manager | `core/qp_pool_core.c` | free lists, available list, counters | init, alloc, free, destroy | intrusive lists, pools created and released on demand, malloc failure |
| list, queue, rbtree | `core/qp_memory_core.[ch]` | links, a ring with a head, a red-black tree with a sentinel | insert, remove, split, merge; insert, delete, find, min, max | links in two directions, rebalancing |
| thread | `qp_process.c` 246-402 | running flag, tid, detach flag | init, start, stop, destroy | the flag is set by the started thread |
| process | `qp_process.c` 404-683 | running flag, pid, type, stack | set, start, kill, stop, destroy | failed forks, interrupted waits, stack of a clone |
| io | `core/qp_io_core.c` | descriptor, flags | writen, readn, close, nonblock | short transfers, EINTR, EAGAIN |
| file | `qp_file.c` | read and write buffer, offsets | open, read, write, flush, close, record locks | buffer boundaries, failed flushes, reopening, locks that belong to the process |
| socket | `qp_socket.c` | descriptor, address, option flags | init, listen, accept, connect, close | half-failed init, reused structures and descriptor numbers, names in the file system |
| event | `qp_event.c`, `qp_event_module/` | sources, fd pool, caches | init, add, tiktok, dispatch, destroy | readiness flags, caches exhausted |
| tiny stack | `qp_tiny_stack.c`, `qp_tiny_stack/` | parse result | parse down to a level | truncated frames, a reused result structure |
| system | `qp_system.c`, `core/qp_defines.h` | none of its own | daemonise, limits, logging | pure I/O |

How they interact. The condition owns a lock and runs the lock's own functions
around its counter, and shares the lock's mutex with the C library. The manager
composes pools and the intrusive lists of `qp_memory_core.h`. Files and sockets
are built on `qp_fd_s`; `qp_socket_sendn` and `recvn` are `qp_fd_writen` and
`qp_fd_readn`. The event loop keeps its sources in pools. There is no thread of
the library's own: all concurrency is the caller's threads, its child processes
and the kernel, which cuts transfers short, fails calls, reuses descriptor
numbers and interrupts waits.

What makes each part correct:

- lock: at most one owner, nesting counted exactly, an owner never refused, a
  stranger without effect, a lock in use not destroyed, a free lock handed on;
- condition: callbacks under mutual exclusion, signalled waiters return;
- rwlock, semaphore, shared memory: a destroy notices holders, leaves no trace
  when refused and lets a waiter go; one name means one memory, descriptors are
  given back;
- manager: each element has one owner, counters and lists agree with the
  elements, no pool beyond what the elements in use need, failure only if
  nothing is free;
- rbtree: ordered, balanced, holding what was put in; queue: one ring, the same
  in both directions;
- thread, process: a structure is not freed under its thread, waits wait and
  end, children are neither lost nor confused with other processes;
- io, file: bytes arrive once and in order, short counts mean what they say,
  calls end; a write lock excludes other processes;
- tiny stack: the layers a frame holds are reported, and nothing outside it;
- socket: descriptors are neither leaked nor closed for somebody else.

`PROJECT.json` "hazards" lists, line by line, where each of these can go wrong.

## 2. The modules

| module | models | state and actions |
|---|---|---|
| `RecursiveLock` | what the lock promises: a depth per thread, grants and releases | abstract specification |
| `QpLock` | `qp_lock_lock`, `trylock`, `unlock`, `counter` | one action per read or write of a shared field: `ReadCounter`, `ReadThread`, `ReadProcess`, `Acquire`, `SetThread`, ... |
| `QpLockDestroy` | `qp_lock_destroy` over `QpLock` | the destroyer's trylock, unlock and destruction as separate steps |
| `QpCond` | `qp_cond_signal`, `qp_cond_wait` over the steps of `QpLock` | lock, count, callback, wake, sleep, wake up spuriously, take the mutex back |
| `QpRwlock` | the read-write lock over pthread's | a try call's effect as an operator, creation with its failures, the destroy step by step with its refusals and its failure |
| `QpSem` | the semaphore over the kernel's | post, wait, wake, trywait; destroy as a post and a destruction that may fail; histories `called`, `left`, `stolen`: who waited at the destroy, and who has taken posts since |
| `QpShm` | processes, descriptor tables, the objects and the one name of the kernel | init and destroy, one action per system call |
| `QpIpc` | the union of `QpCond`, `QpRwlock`, `QpSem` and `QpShm` | `kind` says which object the clients use |
| `QpPool` | one pool and the singly linked list | operators on a record (free list as a sequence, counters) |
| `ElementAllocator` | what managers promise: which elements each has handed out, and the answers of its calls | abstract specification |
| `QpManager` | managers over pools | init, alloc (from a listed pool, from a new one, failing), free (kept, relinked, released, refused), destroy |
| `QpRbtree` | the tree on linked nodes | rotations and recolourings as operators on links and colours; every turn of a loop a step, `call` holds the function's locals: `Insert...`, `InsertFix...`, `Delete...`, `DeleteFix...`, `Find...`, `MinMax...` |
| `QpQueue` | the doubly linked queue, link by link | the C functions as operators on a pair of link functions, applied to several queues |
| `QpContainers` | the union of `QpRbtree` and `QpQueue` | `CNext` |
| `QpThread` | thread structure, client and the threads it starts | start in two steps (handler stored, thread created), runner step by step, stop, destroy; the structure may be started again at any time; history `shared`: the runs that did not have it to themselves |
| `QpProcess` | process structure, client, children, kernel | set, start by type, kill, stop and destroy split at `waitpid`, kill failing at will; history `adrift`: children the structure was made to give up |
| `QpTasks` | the union of `QpThread` and `QpProcess` | `task` says which kind of structure the client has |
| `QpIo` | `qp_fd_writen` and `qp_fd_readn` at the ends of a stream | one action per loop iteration, errors included; history `failed`: ends whose last call an error ended |
| `QpFileWrite`, `QpFileRead` | the two buffered sides of `qp_file_t` | one action per loop iteration around a system call; `QpFileRead` has the histories `stale` (the buffer's rest when the file was opened) and `seen` (bytes put in callers' memory since) |
| `QpFileLock` | record locks of files and bare descriptors, processes and the kernel's lock table | open, close, rdlock, wrlock, unlock; the lock tests as operators |
| `QpFile` | a file used for writing, for reading (the two sides share the descriptor and the call in progress) or for locking | `Writing(Next)`, `Reading(R!Next)` or `Locking(L!Next)` |
| `QpSocket` | socket structures, descriptor table, names of unix sockets | init (with its failures), listen, accept, connect, non-blocking, close, destroy, the rest of the program's descriptors |
| `QpTinyStack` | the frame parser | the parsers as operators from frame and result to result, one action per turn of the loop over the layers |
| `Qp*Proof` | - | the theorems of section 5, one module per component or union |
| `MC*` | - | thread layouts and symmetry sets for TLC |

Granularity. Code that runs without synchronisation against other threads
(`QpLock`, `QpThread`) is split at every access to shared memory; code used by
one thread at a time is split at the system calls that may block, fail or be
interleaved with something outside. Data is abstract: bytes are numbers in the
order they were handed in, a thread's identity is a pair of names, a name in
the file system is one of two; a manager's pools are a set, since nothing reads
the order of the ring they are on. Variables marked "history" in a module are not
the code's; they remember what a property needs to name.

Unions. `QpIpc`, `QpContainers`, `QpTasks` and `QpFile` put specifications side
by side whose clients use one object of one kind: a variable fixed in the
initial state selects the kind, and the others' variables do not move. They
share a run and share nothing else, except where the C structures do (the flags
of a task, the descriptor of a file).

Undefined behaviour. The memcpy in `qp_file_flush` copies overlapping ranges;
`QpFileWrite` takes it to copy upwards, as the common implementations do for
this case.

## 3. The runs

| run | bounds | shows |
|---|---|---|
| `lock` | 3 threads of one process, mutex, depth 2 | mutual exclusion, refinement of `RecursiveLock`, holder never refused, stranger harmless, no destruction while held, hand-over |
| `lock_mixed` (violation) | 2 threads and a forked child, spin word, depth 1 | two threads hold the lock: the record's fields are read one by one and may be of two owners |
| `ipc` | 3 threads (2 calls each on the condition, one thread both waiter and signaller); semaphore count up to 2; 3 processes, 2 descriptors each, 3 objects under one name | condition callbacks never overlap; rwlock destroy notices holders and leaves no trace; semaphore destroy frees a waiter unless others take the posts; shared memory is shared, descriptors accounted for |
| `cond_wait` (violation) | 1 waiter, 1 signaller | the signalled waiter never returns |
| `manager` | 2 managers, 3 pools of 2 elements | elements exact, books (available lists, counters, failures) exact, no pool too many |
| `containers` | tree: 6 nodes, keys 0..5, a find that sees keys modulo 4, one loop turn per step; queue: 3 heads, the same nodes | order in every step, balance between calls, lookups and content; rings exact |
| `tasks` | thread: 3 starts, at any time, joinable and detached, a client that waits for the last handler to begin before it stops or destroys; process: 2 children | for runs that do not share the structure: no use after destroy, stop means done; the last start's handler is called; children lost, or robbed of their stack, only in the three known ways; signals only to them; killed children waited for; every wait ends |
| `thread_destroy` (violation) | 1 start, an impatient client | destroy frees the structure under its new thread |
| `file` | buffer 3, calls up to 5, 8 bytes written; 2 files of 7 bytes read; 2 processes with 2 handles locking a byte and what follows it | writes and closes exact, reads in order and never over-reported, calls end, write locks exclude |
| `io_stream` | kernel buffer 2, calls up to 4, 6 bytes | stream exact, short counts mean an error or a closed peer, calls return |
| `socket` | 2 structures, 3 descriptor numbers | descriptors owned, non-blocking flag true, server's name kept |
| `tiny_stack` | frames of each flavour with lengths just below, at and above the end of each header; levels 0 to 4 | layers exact but for a cut IPv6 header, places inside the frame |

Why the bounds are enough. Three threads are the least with an owner, a next
owner and a bystander; depth 2 has both a nested and a final unlock. Two
elements per pool distinguish empty, partly used and full, and three pools give
an available list with a head, a middle and an end. Six nodes reach every case
of the deletion repair, on both sides. The file buffer of 3 with calls of up to
5 has calls that fit, fill exactly, overflow, and overflow twice after a short
flush; a kernel buffer of 2 against calls of 4 is full and empty within one
call. Three starts of a thread are two runs that share the structure in every
order, one of them failed to start or not, and a third after them that has it to
itself; two children allow a restart after each way of ending. Two socket
structures are a server and its client, two servers of one name, or a listener
and what it accepts; the third descriptor number is for a leaked one or for the
rest of the program. Three users of a read-write lock are a holder, a destroyer
and one that comes and goes between the probes; three processes on a
shared-memory name are one attached before it is unlinked, the one that unlinks
it and one that attaches afterwards, and descriptor 0 is among the numbers.
Three queue heads allow a split of what was merged before. A frame's content
matters only through the five fields the parser branches on, and its length only
relative to the ends of headers.

Fairness. `DFairSpec`, `CFairSpec`: a thread inside a function keeps being
scheduled; nothing is assumed of who wins a lock. `QpThread`: created threads
run, joins of threads that have exited or cannot be joined return; a handler need
not return (`WaitsEnd`, a
half of `EveryWaitEnds`, takes it as a hypothesis). `QpIpc`: a
waiter of a semaphore whose count is not zero is woken, some waiter, not a given
one. `QpProcess`: a child hit by SIGKILL dies, `waitpid` takes a
zombie. `QpFile`: a call goes on if its system call succeeds; the kernel need
not, but may, fail it. `QpIo`: both ends keep looping while inside a call. No
action that stands for a failure, a call of the client or a spurious event is
fair. Runs with `CHECK_DEADLOCK FALSE` are those whose client may stop calling.

## 4. Disagreements between code and its documentation

Three are runs with the expected result "violation" (`lock_mixed`, `cond_wait`,
`thread_destroy`); their findings quote the texts. Others are conditions of
properties that hold, so that the property says exactly how far the promise
goes:

- `qp_lock_destroy` compares the result of `qp_lock_trylock` with `EBUSY`, which
  it never returns (`qp_ipc_core.c:397`). For the mutex
  `pthread_mutex_destroy` saves the day (`NeverDestroyedWhileHeld`); nothing
  does for the spin word.
- `qp_rbtree_find` takes a 32-bit key while nodes have 64 (`LookupsExact`).
- A thread structure that is started again while a run of it is not over is
  shared by both runs: the end of either clears `is_running`, and `tid` and the
  handler are the last start's. The earlier run may call nothing, or the later
  handler; a destroy may then free the structure under a run, and a stop may
  return another run's result (`NoRunAfterDestroy`, `StoppedMeansDone`:
  `shared`). What remains is that the last start's handler is called
  (`EveryStartRuns`).
- `qp_process_stop` takes an interrupted `waitpid` for the child's end,
  `qp_process_destroy` goes on when the kill of the child has failed, freeing its
  stack and forgetting its pid, and a start of a running structure overwrites
  both (`NoChildLost`, `StackOutlivesChild`: `adrift`). Such a start may leave
  pid -1 behind `is_running`, for which `kill` means every process, and a destroy
  whose kill failed leaves `is_running` set on a structure in the caller's memory
  (`SignalsItsChildOnly`: `restarted`, `is_inited`).
- A failed write(2) in `qp_file_write` leaves `wrbuf_offset` wrong and one in
  `qp_file_close` drops the rest (`NothingLost`, `CloseStores`: `failed`);
  that the file holds only bytes handed in holds nevertheless (`NothingLost`).
- `qp_file_write` and `qp_file_read` may return the length of their last part
  only. A read that meets the end or fails after a refill has put bytes in the
  caller's memory, reports none, and the next continues behind those copied
  before the refill; a reopened file begins with the previous one's rest.
  `ReadsInOrder` is about the caller's memory, where every call, the failed ones
  too, continues the last, and says of the value returned that it is never too
  large.
- `qp_socket_init` and `qp_socket_accept` on a structure in use leak its
  descriptor (`DescriptorsOwned`: `lost`), and a second unix server of one name
  makes the first unreachable before it listens itself (`NameKept`).
- `qp_rwlock_destroy` protects a thread that holds the lock throughout; one that
  enters after the second probe is not noticed (`DestroyRespectsHolders`:
  `since`). `qp_sem_destroy` posts once: of several waiters one leaves, and not
  even that one if another thread's `qp_sem_trywait` or `qp_sem_wait` takes the
  post first (`DestroyFreesAWaiter`: `stolen`); a waiter touches freed memory if
  the library had allocated the semaphore.
- A `qp_shm_init` that fails after `shm_open` unlinks the name although others
  may use it, and leaks its descriptor (`SameNameSameMemory`: `stale`;
  `DescriptorsAccounted`: `failed`). A new named object is never given a size.
- Closing one handle of a file gives up the locks the process took through
  another (`WriteLockExcludes`: `dropped`), a rule of fcntl that
  `qp_file_fd_rdlock` and its siblings inherit.
- The IPv6 parser asks for the 20 bytes of an IPv4 header only, so of a frame cut
  at 20 to 39 bytes of its IPv6 header it reports addresses that lie in part
  behind it (`LayersExact`: `CutIpv6`; `PlacesInsideFrame` leaves IPv6 addresses
  out); a truncated TCP or UDP header moves
  `data_offset` past the end although the layer is reported unknown; the 802
  flavours enter `l2_type` before the length is tested. `PlacesInsideFrame` and
  `LayersExact` are stated of what the parser does guarantee.
- `qp_event_init` returns NULL in every call, since nothing assigns
  `event_handle` (`qp_event.c:310`); `qp_process.c:264` misspells `thread`. The
  models read both as their context intends or leave them out.

## 5. What is proved

Eight modules hold the theorems; `tlapm M.tla` checks one. Each theorem is about
the specification its run checks and holds for every value of the constants: any
number of threads, processes, pools, structures, descriptors, starts, children,
nodes, keys and queue heads, any buffer and call size, any frame. Where a union
(`QpIpc`, `QpTasks`, `QpFile`, `QpContainers`) is checked, the theorems are about
its specification without fairness (`IpcSpec`, `TSpec`, `FSpec`, `CSpec`).

| module | theorems | hypothesis |
|---|---|---|
| `QpIpcProof` | `LockTypeCorrect`, `LockMutualExclusion`, `LockCounterIsDepth`, `LockStrangerWritesNothing`, `LockHolderNeverRefused`, `LockRefinement` (of `RecursiveLock`, `depth <- held`) | `OwnerIdentifiable` |
| | `LockNeverDestroyedWhileHeld` | and `~Spin` |
| | `CondCallbacksAtomic` | `OwnerIdentifiable` |
| | `RwProbesGivenBack`, `RwDestroyRespectsHolders`, `ShmSameNameSameMemory`, `ShmDescriptorsAccounted` | |
| `QpTasksProof` | `ThreadNoRunAfterDestroy`, `ThreadStoppedMeansDone` | `Patient` |
| | `ProcessNoChildLost`, `ProcessSignalsItsChildOnly`, `ProcessStackOutlivesChild` | |
| `QpFileProof` | `FileNothingLost`, `FileCloseStores`, `FileReadsInOrder`, `FileWriteLockExcludes` | |
| `QpIoProof` | `IoStreamExact`, `IoShortOnlyAtEnd` | |
| `QpSocketProof` | `SocketDescriptorsOwned`, `SocketNonblockTrue`, `SocketNameKept` | |
| `QpManagerProof` | `ManagerElementsExact`, `ManagerBooksExact`, `ManagerNoOvergrowth`, `ManagerRefinement` (of `ElementAllocator`, `held <- Held`) | |
| `QpContainersProof` | `TreeIsSearchTree`, `TreeIsRedBlack`, `TreeLookupsExact`, `QueueRingExact` | |
| `QpTinyStackProof` | `StackLayersExact`, `StackPlacesInsideFrame` | |

Assumptions. Those the modules make of their constants (`...Assumption`): types,
finiteness, a "null" that is none of the values. Three hypotheses are
more than that, and each is one a run shows to be needed or the code's own
distinction: `OwnerIdentifiable`, that each thread has a pthread_t or a pid no
other user of the lock has, which holds for threads of one process and for
single-threaded processes forked from each other (`lock_mixed` shows the rest);
`Patient`, that a client waits for the handler of its last start to begin before
it stops or destroys the thread, while it may start again whenever it likes
(`thread_destroy` shows the impatient one); `~Spin`, because
nothing refuses to destroy a spin word that is taken (section 4).

Hardly any of the properties is inductive as it stands. The strengthenings, and
why they are needed:

- Lock (`IInv`). A caller that has read one field of the record and not yet the
  next may be about to enter without taking the word. `IInv` adds who owns the
  word (`WordInv`), that the record of a free lock is empty (`FreeRecordInv`),
  that it otherwise is what the owner last wrote, field by field (`RecordInv`),
  and what a thread's place in the code says about it (`PcInv`), above all: a
  thread that has recognised its own pthread_t, if no other has it, is the
  owner. `RecognisedIsOwner` and `TidMatchIsOwner` conclude that the unprotected
  test never errs: either the pthread_t decides and stays decided, because only
  the thread itself can take the lock away from itself, or the pid decides in
  the last read. The destroyer's trylock and unlock are the lock's own steps, so
  the invariant holds with it too (`LockInvariantUnderDestroy`).
- Condition (`CondInv`). The mutex changes hands in `pthread_cond_wait` while the
  record still names the waiter, so the lock's own invariant fails. What remains
  (`CondRecord`): the record names, if a thread, one that owns the word or
  sleeps, hence none that could take it for a nested acquisition.
- Read-write lock (`RwInv`): the readers and the writer pthread counts, per
  thread, as a function of what it holds and of the step of the destroy it is
  in. Shared memory (`ShmInv`): for each process what its place in init or
  destroy says of its descriptor and mapping, that a descriptor number stands for
  one object, and that the object of a process that is not `stale` is the one
  the name leads to.
- Thread (`ThreadInv`): runs and starts are numbered alike (`Numbers`), a run
  that is not `shared` and not over is the only one and the one `tid` and
  `handler` name (`Alone`), and `is_running` says the truth of such a run once
  its handler has begun (`FlagsTrue`). That a destroy or a stop waits for it
  follows for the two ways a wait ends (`NotRunningIsOver`, `JoinedIsOver`).
  Process (`ProcessInv`): the properties with `RunningHasChild`, that
  `is_running` means a child not yet waited for.
- File. Writing (`WriteInv`): disk, buffer and the part of the call already
  copied are consecutive byte numbers at each step of the loops, the overlapping
  copy of the flush included. Reading (`ReadInv`): what is delivered, buffered
  and ahead of the kernel's offset are consecutive bytes of `Stream`, the
  buffer's old rest followed by the file. Locks
  (`LockInv`): the kernel's table is compatible, and a handle's view differs
  from it only in a process that has `dropped` its locks.
- Stream (`IInv` of `QpIoProof`): received, in the pipe, and counted by the two
  ends of the call in progress add up.
- Socket (`IInv`): every open descriptor number is one structure's or `lost`, and
  a structure with a descriptor is initialised.
- Manager (`IInv`): free list and clients share each pool's elements
  (`Chained`), the available list is the pools with a free element, and nfree
  plus what clients hold is `pool_count * ECount`. From it an empty available
  list means that every element is held (`NoneFree`), which bounds the pools by
  the peak; that an unused pool is one without holders needs a counting
  argument (`ListCounts` and the finite-set theorems). The refinement of
  `ElementAllocator` follows: the head of a free list is an element nobody holds
  (`TakeFromGrants`), and what a client holds is held from the manager its pool
  names (`HeldFromOwner`). It is proved, and no run checks it: the runs check the
  invariants it rests on.
- Tree (`TreeInv`). That the links are a search tree speaks of whole subtrees,
  and a rotation changes the subtrees of every node above it. `Shape` says the
  same link by link, with a pair of bounds `b` for each node that no variable
  holds: a node's key lies between its bounds, a child has the bounds of its
  parent cut at the parent's key, so a rotation changes the bounds of two nodes
  only. That every node owns a narrower interval than its parent also makes the
  tree well founded: what holds of a node whenever it holds of those with
  narrower bounds holds of all (`TreeInduction`), which is how `SearchTree` and
  the paths of `RedBlack` follow from facts about links. In the same way
  black heights `h` turn balance into a fact per link (`Balanced`), and the fault
  of a deletion into one link that is one short. `Colours` says where the fault
  is, if there is one: nowhere between calls and on the way down (`Mended`), a
  red node with a red parent at `call.cur` in insert_fix (`MendingInsert`), a
  short link to `call.cur` in delete_fix (`MendingDelete`). `Ways` says where a
  call going down can be: the key looked for lies within the bounds of the node
  it is at. `Contents`: the keys in the tree are the caller's.
- Queue (`QueueInv`): each node is at one place of one queue at most
  (`WellQueued`), and the links lead round each queue (`Rings`, stated with the
  ring as a function from 0 to the length plus one). A merge joins two rings
  that share no cell, a split cuts one at a node it contains.
- Tiny stack (`LoopInv`): when the loop is at a layer, the layers above are in
  the result, with their places, and the result says nothing yet of the rest. It is
  stated with what the parser takes for a network header (`NetworkFound`);
  `FoundExact` relates that to what the frame holds.

Only model-checked. Liveness (`Handover`, `DestroyFreesAWaiter`,
`EveryStartRuns`, `KilledIsReaped`, `EveryWaitEnds`, `CallsEnd`, `CallsReturn`), which is out of
the prover's reach. Every safety property the runs check is also a theorem,
except those that the runs with the expected result "violation" refute. The loops
of the tree are steps of a call rather than recursive operators because what
a recursive definition computes for every input cannot be proved here, while what
one turn of a loop does can.

## 6. Not modelled

- `qp_cond_destroy`: its outcome depends on what `pthread_cond_destroy` does
  with waiters, which C libraries answer differently;
- a pool used without a manager (`qp_pool_destroy` without force,
  `qp_pool_to_array`);
- unbuffered file mode, seek and stat; aio, readv and writev; socket options:
  single system calls;
- a file read and written through one structure: the two sides share the
  kernel's offset there, and the product of the two buffers is large;
- event: no state behind `qp_event_init` is reachable at this commit, and the
  dispatch of a new connection stores it through a pointer that is still NULL;
- `bpf.h` (libpcap's header, of which the parser uses one constant); system,
  limits, logging: no state.

The second signal that wakes nobody (`qp_ipc_core.c:798`) has no property of its
own: the waiters are stopped first by what `cond_wait` shows.

## 7. Plan

Done: lock and condition, manager, tree, thread and process, file and stream,
socket, then the other IPC objects, the queue, record locks and the frame
parser; then the proofs of section 5. Left, in this order:

1. a byte queue as the abstract specification of `QpIo` and `QpFileWrite`, with
   its refinement;
2. `QpFile` opened for reading and writing at once.
