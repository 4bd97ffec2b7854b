# Verification of the cs-primer programs

TLA+ models of the concurrent, event-driven, signal-handling and data-structure
programs of this repository, TLC configurations that check them on small instances, and TLAPS
proofs of the most important results for every instance.

The repository is a collection of small C programs, one per exercise. They share
no code at run time, so the project has one group of modules per program, and
composition inside a group: the event loop over its sockets, the ring buffer
under the specification it implements.

## 1. Inventory

| part | state | operations | what is hard | what makes it correct |
|---|---|---|---|---|
| shout server, epoll loop (`shout_server.c` 94-281) | per connection a buffer with `size` unsent bytes; the batch of events; kernel: ready list, socket queues | `poll`, `do_send`, `ep_add`, `cleanup` | edge triggering, short sends, clients that act between any two system calls, events of a batch after a `cleanup`, failures in the accept loop | the echo is what was received; nothing is left waiting for an event that will not come; no pointer outlives its connection |
| shout server, kqueue loop (282-441) | the same, and two filters per connection | `queue`, `kq_change`, `cleanup` | filters switched in two calls that can fail one by one | as above, and which filter is enabled follows from `size` |
| shout server, start-up (1-92, 443-472) | the listening sockets | `init_listen_fds`, `set_nonblocking`, `main` | any call fails for any address | it listens on the addresses that work and keeps no other socket |
| blocking ring buffer (`ring_buffer_posix.c`, `ring_buffer_sysv.c`) | buffer, `head`, `tail`, two mutexes, two counting semaphores | `put`, `take`, looping producers and consumers | `put` and `take` hold different mutexes | a bounded FIFO queue; nobody blocks for ever |
| shared-memory queue (`shm_blocking_queue.c`) | the same, in a mapping shared by processes, with robust mutexes | `init`, `connect`, `put`, `take`, `disconnect`, `destroy` | a process dies anywhere in `put` or `take` | still a FIFO queue; survivors go on |
| shared-memory stream (`client.c`, `server.c`) | a TCP connection, the shared-memory object | rendezvous, stream, end message, destroy | the order of disconnect and destroy; leftovers of a crash; a name received in pieces | the queue is destroyed after its last use |
| fizzbuzz (`fizzbuzz.c`) | three flags, the number, a mutex, three condition variables | the loops of `main`, `fizz`, `buzz` | spurious and lost wake-ups | both remarks on every number, in order, for ever |
| threaded counter (`counter.c`) | the counter, a mutex | `routine`, `main` | lost updates, overflow | the final count is the expected one |
| hash map (`hashmap.c`) | an open-addressing array, `cap`, `size` | `new`, `set` (resizing), `get`, `delete` | probe sequences through deleted nodes, resizing inside `set` | a dictionary |
| multi-threaded merge sort (`mergesort.c`) | an array, threads, their calls of `sort` | `sort`, `mt_sort`, `merge` | disjoint parts of concurrent threads, joins | no data race, a sorted permutation |
| bottom-up merge sort (`merge_sort.c`) | two buffers | `sort`, `merge` | buffers swapped by parity | the caller's array is sorted, the other one freed |
| basic shell (`shell_basic.c`) | child pid, signal mask, two jump buffers, status of the last child | `handle_input`, `run_cmd`, the handler | SIGINT at any point leaves by `siglongjmp` | the handler jumps into live frames; no child is left or misreported; the prompt comes back |
| pipeline shell (`shell_pipes.c`) | process group, levels of `run`, pipe ends | `run`, `sigint_handler` | order of closes and waits, inherited ends, SIGINT in a window, `setpgid` against `execvp` | a pipeline ends; nothing outlives it; SIGINT reaches all of it |
| dynamic array, pangram filter, bit counting, assembly exercises | none or one array | pure functions | boundaries | equal to a reference definition |
| signal programs (`signalbox.c`, `siglog.c`) | a flag, a set of signals | handlers | a signal between test and `pause` | the last resize is drawn |
| `share.c`, `cputime.c`, `byte_write.c`, `stack_overflow.c`, `http_header_server.c`, `test.c` | - | straight-line experiments | nothing a model would show | - |
| `old/` | - | copies of the above and older assembly exercises | - | - |

`PROJECT.json` lists every part with its files and status, and under `hazards`
what is hard to test, at its line, with the properties aimed at it.

## 2. Plan

Order: first the programs in which several actors meet, then the algorithms.

1. **Done.** `BoundedFifo`, `BlockingQueue`, `BlockingQueueProofs`: the ring
   buffer in its three versions, with deaths, as an implementation of a FIFO
   queue, proved.
2. **Done.** `ShoutSockets`, `ShoutSend`, `ShoutEpoll`, `ShoutKqueue`: the Linux
   and the BSD event loop over the same sockets and the same `do_send`.
3. **Done.** `FizzBuzz`, `Counter`, `ThreadsProofs`: the threaded programs, proved.
4. **Done.** `Hashmap`, `MCHashmap`, `HashmapProofs`: the map as a dictionary,
   proved for any hash function.
5. **Done.** `ShmStream`: client and server around the queue, with clients that
   die at any point.
6. **Done.** `ShellBasic`, `ShellPipes`: signals, masks and jumps; process groups,
   pipes and the forwarding of SIGINT.
7. **Done.** `Mergesort`, `MCMergesort`: the threads of the merge sort.
   `BottomUpSort`, `Dynarray`, `ListenFds`, `LowLevel` and `MCPrograms`: the
   sequential programs against reference definitions.
8. **Done.** `ShoutEpollProofs`, `ShoutKqueueProofs`, `ShmStreamProofs`,
   `ShellProofs`: every safety property the runs of these components check, proved.
9. **Done.** `MergesortProofs`: no data race, and a sorted permutation, for any
   number of threads and any array.

Every safety property of a component with state is now proved. What is left to
TLC is liveness and the sequential programs (section 5, last paragraph).

## 3. The modules and the code

### BlockingQueue

One variable per field of `blocking_queue`, plus per thread its position `pc`,
its local `e`, and whether it is `alive`. Every blocking call and every access
to shared memory of `put` and `take` is one action, so threads interleave, and
processes die, between any two statements:

| code | action |
|---|---|
| `sem_wait` / `semop -1` | `PutWaitSpace`, `TakeWaitElement` |
| `pthread_mutex_lock`, with `pthread_mutex_consistent` on EOWNERDEAD | `PutLock`, `TakeLock`, `CanLock` |
| the slot | `PutStore`, `TakeLoad` |
| the index | `PutAdvance`, `TakeAdvance` |
| unlock, `sem_post` / `semop +1` | `PutUnlock`, `PutPostElement`, `TakeUnlock`, `TakePostSpace` |
| `exit_err_on`, or any death of a process | `Die` |

The three versions of the queue have the same `put` and `take`. The threads of
`ring_buffer_posix.c` and `ring_buffer_sysv.c` live and die together, which is
`Mortal = {}`; the processes attached to the shared-memory queue are `Mortal`.
The entries of `map` are spread over the three files.

`BoundedFifo` is what callers may rely on: a sequence of at most `Capacity`
values, `CallPut` then `Put`, `Take` then `Return`. The refinement mapping reads
the queue off the ring (`QueueMap`: the `Stored` slots from `head` on). A put
takes effect when `tail` moves, a take when `head` moves - not at the semaphore
that announces it.

### ShoutSockets, ShoutSend, ShoutEpoll

`ShoutSockets` is external to the repository: what clients and the kernel do
between two system calls (connect, send, half-close, reset, read). The k-th byte
of a client is the number k, so that an intact echo reads 1, 2, 3, ....
`ShoutSend` is the buffer of a connection and `do_send`, which both loops share,
with the two properties both loops promise (`EchoIntact`, `EchoedOrClosed`).

`ShoutEpoll` is `poll()`, one action per system call with the code up to the
next one: `EpollWait`, one `Dispatch...` action per branch on `ev`, `Accept`,
`AcceptEmpty` and `AcceptFails` for a turn of the accept loop, `Recv...` for a
turn of the receive loop, `Send`, `SendAgain` and `SendFails` for a turn of
`do_send`, and `Returned` for what the caller does with its result. Of epoll it
models what edge triggering is about: a ready list that an event joins when
something happens, and leaves when `epoll_wait` passes it; a writer is woken only
when it ran out of space before (`nospace`). `epoll_wait` walks the list up to its
end or to the event that fills the array; what it does not get to stays on the list.

Behaviour of the code that shows in the properties rather than being hidden:

- `do_send` adds the last `sent`, not the total, to `data` (line 105). From the
  third `send` of one call on, wrong bytes are sent. `EchoIntact` states exactly
  what holds: always the right length, and the right bytes until then.
- `do_send` returns 0 when nothing fits, and `poll()` treats 0 as an error.
  `HealthyKept` says that this is the only way a healthy client is dropped.
- a failure in the accept loop leaves the rest of the backlog unannounced;
  `BacklogServed` and `NothingStranded` exclude only that.
- SIGPIPE can end the server (`SendFails`).

Left out: the branch for events that were not asked for (lines 270-273),
failures of `epoll_wait`, and the allocation of `user_data` as separate from its
connection (both are freed together by `cleanup`).

### ShoutKqueue

`queue()`, in the same grain. Two things differ from epoll. Filters are level
triggered: what matters is not the history of a socket but which filters are
enabled, so `Active` is computed from the state, and nothing can be stranded by
a loop that ends early. And which filter is enabled is switched by two separate
`kq_change` calls (`ToWrite`, `ToRead`, one `Change` each), either of which may
fail. `FiltersFollowSize` ties the filters, the buffer and the events left in the
batch together; it implies that the last branch of the loop, which ends the
server, is never reached. The branch on `fflags` (line 334) is dead: the kernel
reports EV_EOF and EV_ERROR in `flags`. That is to the good of clients that shut
down after their last line, whose input is read to the end here
(`ClosedWhenDone`), while the epoll loop closes them on EPOLLRDHUP. A failing
`calloc` (line 353) leaves an open connection nobody watches (`leaked`).

### ShmStream

A client is one run of `client.c`; the server loops over connections. One
action per call that others can notice: the steps of `init` (`Create`,
`Truncate`, `Format`), `Attach`, `Connect`, the two sends, `Take`, `RecvEnd`,
`Disconnect`, the two steps of `destroy`; on the other side `Accept`, the two
`recv`, `ServerConnect` or `ServerExits`, `ServerPut`, `ServerDisconnect`,
`ServerSendEnd`. `Die` is the death of a client anywhere, by a signal or by
`exit_err_on`. A put or a take is one step here, which `BlockingQueue` and its
proof justify.

Uninitialised locals of the server are choices: the first `accept` may reject
`clientlen` (`AcceptFails`), and what lies behind the first name in `shm_fname`,
which is sent without a terminator, may spoil it (`ServerRecvName`). After the
first client neither can happen, because every client sends the same name:
`ServerSurvives`. What the code does not promise, and the model shows: a client
that dies keeps the name for good, so that every later client is refused, and
leaves the server waiting in `put`.

### FizzBuzz, Counter

Line by line: lock, the while loop around `pthread_cond_wait` (`Test`, then
`waiting`, `woken` and `Lock` again), the body, signal, unlock. A signal to
nobody is lost, and any waiting thread may wake up without one
(`WakeSpuriously`, external). `counter++` on a volatile int is a load and a
store, with the store reduced to the width of an int (`Wrap`).

### Hashmap

`map` is the C structure, and the C names are kept for the helpers. The hash
function is a parameter, as it is in `Hashmap_new`. `Hashmap_set` calls itself while
it resizes, and the calls it makes may resize in turn, so the calls under way are a
stack (`calls`), and a call goes through stages: it finds a slot and returns
(`Place`), or moves the map to an array of twice the size (`Resize`), sets the old
nodes again one by one (`Reinsert`), and sets its own key anew (`EndResize`). When
`calloc` has no such array left, its null pointer is dereferenced by the next call of
`probing` (`ResizeFails`, "crashed"). `ref`
is the dictionary a caller has in mind, and `deleting` records whether anything was
deleted so far; `Hashmap_get` and `Hashmap_delete` take one step. `Probe` keeps C's
precedence: `hv + (i + i * i) >> 1` is `(hv + i + i*i) / 2`. `next_power_of_2` is
stated by what the bit tricks compute.

### ShellBasic

The shell keeps SIGINT blocked except around `getline` and `waitid`, and its
handler never returns: it jumps to `handle_input` or, when there is a child, kills
it and jumps to the second `waitid` of `run_cmd`. A step is one system call or a
stretch in which SIGINT is blocked; `BasicHandler` fires wherever SIGINT is pending and
unblocked, and `Interrupt` (external) makes it pending for the shell and for its
child at any time. `env_input` and `env_run` say whether the frame a jump buffer
leads to is still there. The child inherits mask and handler and gives both up in
`ChildDefault` and `ChildUnblock`. `SigInfo` is what `waitid` stores; Linux zeroes
it when there is no child, which is why a SIGINT between `waitid` and
`block_sigint` makes the shell forget how its child ended. `HandlerSafe` and
`PromptTellsFate` name that window as the only exception. A line of blanks hands
a null pointer to `strcmp` (`Quit`, "crashed").

### ShellPipes

`run` is recursive, one call per command: `cmd` is the level, and `Return` is the
way back. One action per system call: `Fork` (with `pipe`), `Assign` and `SetPgid`
for the two lines that move the child, `CloseWrite`, `CloseRead`, `WaitPid`. `rd`
and `wr` say which processes hold the ends of the pipe after each command. A child
inherits all ends that the shell has when it forks, so read ends leak to every
later command; write ends do not (`NothingLeft`), and `PipelineEnds` shows that
the read ends do no harm, because the shell waits from right to left. A child that
has not called `execvp` still runs the shell's handler, with its own copy of `pgid`.

What the model shows of the code without a property that forbids it:

- `pgid` is reset only by the handler, so after a line without a SIGINT it names a
  group that is gone (`Stale`): the next command cannot be moved there, and the
  shell exits (`SetPgid`, line 75). A SIGINT at the prompt exits either way.
- the shell also exits when the child has called `execvp` before `setpgid`.
- two windows let a command escape SIGINT; `SigintReachesAll` names them
  (`stray`): the handler a child runs before `execvp`, and a reset of `pgid`
  between lines 74 and 75.

### Mergesort

A thread is a stack of calls of `sort`, with the place each call is at. `MtSort`
creates a thread for the left part, `Join` waits for it and begins the merge.
`MergeCopy` takes one item, with the counters `left` and `right` of the code, and
`MergeBack` writes the items back and returns; other threads run between any two of
these steps. That a thread is seen to write its part back in one step is justified by
`NoRace`, which covers the part for the whole merge. The affinity that `routine` asks
for is an empty set (`CPU_ISSET` is called where `CPU_SET` is meant), so the request
fails and nothing depends on it.

### BottomUpSort, Dynarray, ListenFds, LowLevel

Programs without interleaving are operators: `Sort` with its two named buffers and
the pointers to them; the `DA_` functions on a record with the allocated cells, in
which `ok` turns false at an access outside of them; `init_listen_fds` and `main` as
functions of which calls fail; the assembly functions on registers of `Width` bits,
and both pangram filters on bit sets. `is_pangram` is the Python
script that both filters are fast versions of. `MCPrograms` runs each on every small
input and holds the references; it also schedules the threads of `Counter`.

## 4. What is checked

| run | instance | what it shows |
|---|---|---|
| `queue` | 2 producers, 2 consumers, 2 slots, 2 values, all mortal, fair | `SlotAccounting`, `NoSlotRace`, the refinement `ImplementsFifo`, `EveryElementTaken` |
| `shout_epoll` | 2 connections, one of 4 bytes; buffer 3, send queue 1, one fault, fair | `EchoIntact`, `NothingStranded`, `EventsAlive`, `HealthyKept`, `EchoedOrClosed`, `BacklogServed` |
| `shout_kqueue` | 2 connections, one of 4 bytes; buffer 3, send queue 1, one fault, fair | `EchoIntact`, `FiltersFollowSize`, `ClosedWhenDone`, `EchoedOrClosed`, `BacklogServed` |
| `shm_stream` | 3 clients, all mortal, 3 integers over 2 slots, fair | `OwnName`, `DestroyedAfterUse`, `ServerSurvives`, `Served` |
| `fizzbuzz` | all 16 numbers, spurious wake-ups everywhere, fair | `LineInOrder`, `NoLostWakeup`, `NumbersForever`, no deadlock |
| `hashmap` | 3 programs with 3 to 5 keys each, 2 values, 2 to 16 buckets, fair | `SetsMakeADictionary`, `NeverLost`, `SetReturns` |
| `hashmap_deleted_key` | 2 keys, 2 values, 8 buckets | a violation of `MakesADictionary`: see below |
| `shell_basic` | any lines, any number of SIGINTs, fair | `HandlerSafe`, `PromptTellsFate`, `PromptsAgain` |
| `shell_pipes` | lines of up to 3 commands, 2 SIGINTs in each, fair | `NothingLeft`, `SigintReachesAll`, `PipelineEnds` |
| `mergesort` | 4 threads, arrays of up to 5 items out of 3 values, and of 7 and 8 items, fair | `NoRace`, `EndsSorted`, `SortReturns` |
| `programs` | arrays of up to 9 items, 6 array operations, 4 addresses, 6-bit registers; the counter with 3 turns each and a 4-bit int | `ResultsRight`, `NothingAstray`, `FinalCount` |
| `pangram_z` | lines with all letters, or without some | a violation of `FindsPangrams`: see below |

Every property of a passing run has a mutant in `PROJECT.json`: a plausible slip
in the code under which TLC finds that property violated.

**Bounds.** Two slots with two producers and consumers reach full and empty
rings, wrap-around, every contention for a mutex and every pattern of deaths.
Four bytes through a buffer of three and a send queue of one let one `do_send`
call `send` three times and a cut-off rest be cut off again; two connections are
what it takes for one event of a batch to meet another, and the second one sends
a single byte (`Talkers`). In the kqueue run the event array holds every filter
that can be active at once, in the epoll run every connection.
Three clients let one find what a first has
left while a third runs. `MaxBytes` bounds what a client
sends, `MaxFaults` how many calls fail, `MaxDoublings` how large the array of the hash
map can get (`MaxBuckets`) before `calloc` fails; nothing else is bounded.
`MCHashmap` gives the hash map to three programs (`MCCallers`), and the hash of a key
is the key modulo 16. The keys 0, 3, 4, 7 and 12 of the first collide in two, four and
eight buckets and have a home each in sixteen, and setting one of them can resize
within the loop of a resize that has nodes left to set again. In the second, 4 and 20
have one hash, so memory is used up when 3 is set as well. The third deletes every key
it sets, which leaves copies behind. Sixteen buckets are the end of memory, and the
fewest in which every hash of the run has a home of its own.
Three commands (`N`) are the
fewest in which a read end leaks, and two SIGINTs (`MaxSigints`) in one line the
fewest by which a command ends up in a group nobody knows; three give nothing new.
With four threads, arrays of fewer than four items have empty parts, and those of
eight have parts of two. A capacity that starts at two grows three times in six
pushes, nine items take four passes, and six bits overflow in every function that
can; the exact constants of the code are the same arithmetic, further out.

**Fairness.** Weak fairness of each thread in the queue and in fizzbuzz, and of
the server: the scheduler runs what can run. Semaphores and mutexes are not
assumed to serve any particular waiter, so the liveness properties say that
elements and numbers keep moving, not that each thread gets a share.
`<>[][no WakeSpuriously]` says that a condition variable does not wake threads
unsignalled for ever. `EveryElementTaken` promises
progress as long as fewer than `Capacity` threads have died and somebody lives on
each side: each death can cost a token. The commands of the shells are assumed to
end: in `ShellBasic` each of them in the end, in `ShellPipes` only the first (or only
the last) by itself, the others when their input ends or nobody reads their output;
nobody need type anything. In the hash map only a call that has begun is
fair: nobody need make one (weak fairness of `Hashmap_set`, with "a call is under way in
a program that has not crashed" written for its enabledness, which TLC evaluates
faster). The runs of the server let clients read what was
sent to them; nothing makes them connect, send or leave. Deadlock is checked
where the program should never stop; it is off for programs that end or crash, for
the queue whose threads may all be dead, and for the server (all clients may be
gone, and so may those of the stream).

### Findings

`hashmap_deleted_key`: `probing` (line 78) takes the first deleted node of a
probe sequence as the place for a key, before looking for the key further
along. After `set(a)`, `set(b)`, `delete(a)` with `a` and `b` at one home,
`set(b)` stores `b` twice; a later `delete(b)` removes one copy and `get(b)`
still finds the other. The tests in `main` say "using the same key should
override the previous value" and assert that a deleted key is gone, and do not
reach the sequence. `NeverLost` is what remains true after deletions.

`pangram_z`: `MASK` in `pangram.c` (line 6) is 0x03fffffe, the bits 1 to 25, so the
filter never asks for z and prints a line with every letter but z. `find_pangrams.py`,
line 5, asks for 26 letters, and so does the assembly version (0x07fffffe). No line of
`cases.txt` lacks z alone, so `test.sh` does not tell them apart. `ResultsRight` says
what holds of the C filter: it misses no pangram.

Not a finding, because nothing in the repository promises otherwise, but worth knowing:
`Hashmap_set` need not return. Of two keys with one hash h, the second goes to the
same bucket of every large array ((h + 2) / 2, or 3 and 4 where h is 1 and 2); a third
key whose hash is that bucket gets NEED_RESIZE (line 82) each time, and the map doubles until `calloc` returns
a null pointer, which nobody checks. The run reaches this (`ResizeFails`), and
`SetReturns` states the conditions under which a call does return: the hashes of the
keys in the map differ (`HashesDiffer`), and there is memory to give each hash a bucket
(`HasMemory`).

## 5. What is proved

Every invariant and action property of every passing run, for all sets of
threads, processes, connections, keys and values, all capacities, hash functions,
arrays, numbers and counts; all but `ResultsRight` and `NothingAstray` of the sequential
programs (see the end of this section). Each proof module extends the module it is about, and its
invariants were checked by TLC before they were proved. Two of them are about two
programs each: `ThreadsProofs` extends `FizzBuzz` and `Counter`, and `ShellProofs`
extends `ShellPipes` and `ShellBasic`, which have no name in common.

| module | theorems | assumptions |
|---|---|---|
| `BlockingQueueProofs` | `TypeCorrect`, `AccountingCorrect`, `NoRaceCorrect`, `FifoCorrect` (the refinement) | finite disjoint sets of producers and consumers, `Capacity` at least 1, `None` neither a thread nor a value |
| `ThreadsProofs` | fizzbuzz: `TypeCorrect`, `WakeupCorrect`, `LineCorrect` | numbers are naturals, `None` is no thread |
| | counter: `CounterTypeCorrect`, `CountCorrect` | an int holds `2 * EACH_COUNT` (32 bits hold 2000000000), `NoThread` is no thread |
| `ShoutEpollProofs` | `TypeCorrect`, `EchoCorrect`, `AliveCorrect`, `StrandedCorrect`, `HealthyCorrect` | finite disjoint sets of connections and listeners; buffers, backlog and event array hold something; `LowWater` at least 1 and at most the send queue |
| `ShoutKqueueProofs` | `TypeCorrect`, `EchoCorrect`, `FiltersCorrect`, `ClosedCorrect` | the same |
| `ShmStreamProofs` | `TypeCorrect`, `OwnNameCorrect`, `DestroyedCorrect`, `SurvivesCorrect` | `Max` and the capacity at least 1, `None` no client |
| `ShellProofs` | pipeline shell: `NothingLeftCorrect`, `SigintCorrect` | lines of at most `N` commands, for any `N` |
| | basic shell: `HandlerCorrect`, `PromptCorrect` | none |
| `HashmapProofs` | `TypeCorrect`, `NeverLostCorrect`, `DictionaryCorrect` | hashes are naturals, at least one bucket, `MaxDoublings` a natural, `NULL` neither a key nor a value |
| `MergesortProofs` | `NoRaceCorrect`, `SortCorrect` | at least one thread, arrays of integers |

**The queue.** `SlotAccounting` says that the two semaphores and the threads in
between share out exactly `Capacity` tokens and that `tail` is `Stored` slots
ahead of `head`. It is inductive with the type invariant: each action moves one
thread between two of the sets that are counted (`CountOneMore`, `CountOneLess`),
and only `PutAdvance` and `TakeAdvance` move an index, by one, together with
`Stored` (`ModCapacity`). `NoSlotRace` needs more: `MutexInv` (a live thread
inside a mutex owns it; a dead one may have lost it to a successor), and then a
store and a load at one slot would mean `Stored` is 0 or `Capacity`, which the
tokens of the two threads exclude. For the refinement, `ContentInv` adds what
the locals and slots hold: a producer past its store agrees with the slot at
`tail`, a consumer past its load with the slot at `head`, and the stored slots
hold values. A death changes no part of this, which is why deaths cost nothing
in the proof: the tokens of the dead stay counted.

**Fizzbuzz.** `NoLostWakeup` is inductive with the type invariant. `LineInOrder`
needs that the mutex is held from the test to the unlock (`MutexInv`), that a
thread past its loop still has its condition (`WorkInv`), and whose turn it is:
at most one flag is up, and the length of the line says which (`TurnInv`).

**The counter.** `CountInv`: the counter is at any time the number of turns whose
store is done. It needs that a register still equals the counter when it is
stored (`FreshInv`), which needs the mutex.

**The echo (both loops).** `Echo` relates, for one connection, what `send` accepted,
the buffer, how much of it `do_send` has handed over and how much was received. It is
stated of values, not of the state, so that each of the four things that happen to a
stream is a lemma about sequences: `EchoReceived` (`recv`), `EchoTaken` (a `send`),
`EchoReturned` and `EchoAll` (the buffer after `do_send`). `EchoTaken` is where the
offset matters: `Sent` says that `sent` equals `total` up to the second call, and
`thrice` is set by the third. `Echoes` needs the bounds (`Counters`), that a connection
that is not open has no buffer (`Freshness`), that nobody is queued twice (`Queued`), and
where the server is (`Located`).

**The epoll loop.** `NothingStranded` speaks of the moment before `epoll_wait`; the
invariant `Attended` of any moment: an open connection is at rest (`Rests`: with nothing
to do, on the ready list, or waiting for space with its wake-up armed), or an event of it
is being handled (`Busy`), or one is left in the batch (`Left`). Events age while they wait
in the batch, so `Batch` says what an old mask is still worth (`Covers`): whatever happened
since and is not in the mask has put the connection back on the ready list. That is
what makes it right to ignore an event (`DispatchNothing`) and, after output, to go on
without receiving when the event did not say EPOLLIN (`Sent`, last line). A full batch
must not lose the rest of the list: `EpollWaitInv` shows that an item that leaves the
ready list has its event in the batch, or has none and is armed. `EventsAlive` is `Ready`
and the first part of `Batch`: an item is on the list, and in the batch, once, and
`cleanup` takes its own off the list (`Removed`). Client steps share `ClientKeeps`; server
steps share `Handling` (the same event goes on) and `Advanced` (the next one is taken):
both say that what one connection does leaves the events and claims of the others alone.

**The kqueue loop.** Level triggering needs no such history. `Filters` says which filters
are on while an event is handled, at each of the four places between two `kq_change`
calls, and `Batch` that the events yet to be dispatched agree with the buffers (`Due`).
Filters of one connection are never both on, so it has one event in a batch, and an event
can not be made stale by an earlier one.

**The stream.** `Naming`: the name is owned from `shm_open` to `shm_unlink`, by one client
that may be dead. `Connection`: at most one connection waits or is served, the owner's, from its
`connect` to its end message. `Locals`: what the server has received in `max` and `shm_fname`, which
from the first end message on is what every client sends. `Streaming`: what was taken
followed by what is queued is the start of the stream (`Carried`).

**The basic shell.** The invariant says, by position, what SIGINT would find: whether it
is blocked (`Masked`), which frames live (`Frames`), whether there is a child to kill
(`Reaping`), what the child has inherited (`ChildMask`), and that the status tells the
truth unless the handler was late (`InfoTrue`).

**The pipeline shell.** `PipeInv` is about levels of `run` (`Depth` commands are processes
that were not waited for) and about who holds which end. That write ends do not leak
needs that the shell closes its own before it forks again (`ShellEnds`). `SignalInv`:
whoever left the shell's group is in the group `pgid` names, unless it was signalled or
has strayed (`Grouped`), and whoever was struck has the signal or is left to the handler
(`Signalled`).

**The hash map.** The properties speak of the moments between two calls; the invariant
of any moment, in the midst of any nesting of resizes. `Sound` is about the array alone:
an occupied node stores the home of its key (`Homed`), some turn of the probe sequence of
its key leads there and every turn before it finds a node, present or deleted, of the
same home (`Reachable`), and `size` counts the occupied nodes (`Counted`). `node_set`
keeps it because probing stops at the first free slot of the home, `node_delete` because
the deleted node keeps its hash; no property of the hash function is needed. `Kept`: a
key that was set and not deleted is in the array or still to be set by some call of the stack, as
its own key or from the old array it has saved. `Clean`, until the first deletion: no deleted
nodes, no key twice (`NoTwins`), and whatever is stored or waits to be stored again
has the value last set, unless it is the key of the outermost call (`UpToDate`).
`NoTwins` is what the finding breaks after a deletion. `NeverLost` does not need it:
get may find an older copy, but it finds one.

**The merge sort.** `StackInv` is about the calls. Calls of one thread are nested
(`Nested`): a call works inside the part its caller has called `sort` for. Only main
creates threads, and those it is still to create are as many as its innermost call was given
(`CallsOK`); each other thread works inside the left part of the one call of main that
awaits it (`Roots`), and main meanwhile in the right part of that call, or below
(`InRightSpan`). That gives `NoRace`. `ArrayInv` is about what is sorted: the left part
of a call once its call has returned or its thread has ended, the right part once its
call has returned (`PartsDone`), everything once main has returned (`AllDone`). When a
call returns, the parts that others count as sorted are apart from what it wrote
(`Elsewhere`); that is where `pthread_join` is needed. A merge in progress has taken a
sorted sequence, none of which is larger than what it has yet to take (`MergeOK`): the item it
takes next is the least of the rest (`LeastLeft`, `LeastRight`), which needs both parts
sorted and the order of the tests in the loop. That no item is lost or doubled is a
one-to-one map from the items that were taken to those of the array (`Drawn`), composed
at the write back with the one from the array to the input (`BackKeeps`); at the end it
is a bijection, because the array is finite, and equal counts follow (`SameCount`).

**Only model-checked.** All liveness (it depends on fairness, which the prover does not
handle): `EveryElementTaken`, `EchoedOrClosed`, `BacklogServed`, `Served`,
`NumbersForever`, `PromptsAgain`, `PipelineEnds`, `SetReturns`, `SortReturns`. And
`ResultsRight` and `NothingAstray` of the sequential programs, which are recursive over
their data: what they compute for every input needs an induction the prover does not
offer. The sockets, `epoll`, `kqueue`, `waitid` and the like are models of the system under
the programs: the theorems hold of the programs over these models.

## 6. What is not modelled

Floating point (`cone.asm`), output (`hello.asm`), one built-in (`bitcount.c`),
timing and I/O experiments, demonstrations without a protocol (`share.c`), an
empty program (`http_header_server.c`), a sketch that does not compile (`test.c`),
and the copies under `old/`. The two signal programs are a flag and a bit set; the
race in `signalbox.c` between drawing and `pause` is plain from its twenty lines
and listed as a hazard.

Inside modelled programs: failing system calls whose only effect is that the
program exits at once (unless the exit matters to another process); in the pipeline
shell also a first command that reads the terminal, which the kernel stops because
its group is not in the foreground, for the shell to wait for for ever; and in the
merge sort a failing `pthread_create`.
