# A TLA+ model of sdplane

sdplane is a software data plane on DPDK with a NetTLP device (PCIe transaction
layer packets over UDP). This directory holds TLA+ modules of its core, the TLC
configurations that check them, and TLAPS proofs. `PROJECT.json` lists
components, runs, mutants, findings, hazards and theorems, and maps every
definition to the lines it models.

    tlc -workers 2 -config MCRibManager_qconf.cfg MCRibManager
    tlapm RibServiceProofs.tla

## 1. The system

One **main pthread** runs the control plane as cooperative lthreads: the
console and telnet shells, the startup file, the rib manager, the statistics.
An lthread gives up the processor only in `lthread_sleep()` and in socket calls,
so a shell command, or one `rib_manager_process_message()` call, runs to its end
before another lthread runs. **lcore workers** (`l2_repeater`, `tap_handler`,
`nettlp_thread`) are pthreads on cores of their own that poll without blocking.

| component | state | operations | shared with |
|---|---|---|---|
| queue configuration (`queue_config.c`) | `thread_qconf[]`, the table the shell edits | `set thread N port P queue Q` | rib manager, by QCONF message |
| internal messages (`internal_message.c`) | two `rte_ring`s of 31 usable entries | create, send, receive | shells to rib manager, shells to nettlp |
| rib manager (`rib_manager.c`) | `rcu_global_ptr_rib`, devices, tx buffers, tap rings | process one message per 100 ms: copy the rib, change it, check it, prepare devices, publish by RCU | every worker |
| lcore control (`dpdk_lcore_cmd.c`, `lthread_main.c`, `main.c`) | `force_quit`, `force_stop[]`, `lcore_workers[]` | start, stop, restart, SIGTERM | every worker and lthread |
| port commands (`dpdk_port_cmd.c`) | none of their own | descriptors (by message), start, stop, promiscuous, flow control | rib manager, DPDK |
| l2 repeater (`l2_repeater.c`) | thread-local rib pointer | receive, copy to ring_up, repeat to the other ports, send ring_dn | tap handler by rings |
| tap handler (`tap_handler.c`, `tap.c`) | `vswitch0`, `fdb[]`, `port_fd[]` | rebuild on a new rib, empty ring_up to the taps, flood the taps to ring_dn | workers by rings, kernel |
| nettlp worker (`nettlp.c`) | rx ids, DMA parameters, pseudo memory | DMA read and write by message, memory requests from the wire | shells by globals |
| TLP encoding (`nettlp_support.c`, `tlp.h`) | none | byte enables, lengths, addresses | nettlp worker |
| thread table (`thread_info.c`) | `threads[16]` | register, unregister, look up | lthreads and lcore control |
| vty server and shells (`vty_*.c`, `console_shell.c`, `startup_config.c`) | client slots, one shell each | accept, read, execute, end | the pthread, the descriptors of the process |
| line editor, history, pager (`shell.c`, `shell_keyfunc.c`, `command_shell.c`) | line, cursor, cut buffer, key map, ring of 128 lines, pty, pipe, child process | one key function per byte; execute, complete, list; bridge client and pager | the shells |
| telnet (`shell_telnet.c`) | key maps, subnegotiation buffer, window size | options and window sizes in the stream of keys | the line editor |
| command tree (`command.c`, `vector.c`) | a tree of words, a function at some nodes | install, match, execute, complete, list | the shells |
| statistics, logging, file selector | counters, output | show | not modelled |

What is hard here:

* **Readers without locks.** Workers dereference the rib while the rib manager
  replaces it; a replaced rib must outlive its readers, and two workers that
  hold different ribs must not serve one queue, whose tap rings have one
  producer and one consumer.
* **Devices under the readers.** `rib_check()` stops and reconfigures ports
  while workers poll them.
* **One pthread for the whole control plane.** A grace period or a wait for an
  lcore that never ends stops every shell.
* **Messages that are lost.** The ring has 31 entries, the result of the enqueue
  is not used, and a startup file runs many lines without yielding.
* **Limits that are met.** Pools that run dry, rings that are full, arrays of 16.
* **Restarts.** Workers and rib managers are started again in the same process,
  on the globals of the run before.
* **Arithmetic at the edges.** Byte enables, 10 bit lengths, split completions,
  a ring that wraps, a buffer that doubles.
* **One stream for everything.** Keys, escape sequences and telnet options come
  through one connection and are told apart by the key map in force; type-ahead
  meets a pager that has just started.
* **Numbers that are used again.** Descriptors and table entries are handed out
  anew while an lthread still holds the old number.

What makes each part correct: a rib is freed once and after its last reader
(rib manager); a queue is served by one worker, with all it needs (queues); the
main pthread comes back (lcore control); an mbuf has one owner (workers); the
vswitch keeps its taps and the fdb the latest port (tap handler); requests are
served with the bytes they name (nettlp); the operator sees the line that will be
executed (line editor); a line runs the command it spells, or none (command
tree); an entry, a slot and a descriptor have one owner (sessions).

## 2. The modules

| module | models | lines of interest |
|---|---|---|
| `QueueConf` | the shell's table, its merge into the rib, the conditions of `rib_check()` as definitions | `queue_config.c`, `rib_manager.c` 108-216, 428-453 |
| `RibCheck` | `rib_check()` as written (collect, sort, count), compared with `QueueConf` | `rib_manager.c` 108-216 |
| `RibManager` | shells, message ring, rib manager, RCU, devices, lcore control, the loops of the workers | `rib_manager.c`, `internal_message.c`, `dpdk_lcore_cmd.c`, loops of the workers |
| `QueueLease` | the abstract promise: a queue is leased to one worker at a time | none: it is the specification |
| `Vswitch` | what the workers and the tap handler do with packets | `l2_repeater.c`, `tap_handler.c`, `nettlp.c` 46-69, 449-529, 632-818 |
| `Tlp` | header fields, byte enables, padding, completions, as operators | `nettlp_support.c`, `tlp.h`, `nettlp.c` 133-220 |
| `Psmem` | the pseudo memory: requests, completions, the two commands | `nettlp.c` 531-717, 1071-1195 |
| `History` | the ring of executed lines, as operators | `command_shell.c` 64-153 |
| `Shell` | the line editor with its terminal, every key function, telnet | `shell.c`, `shell_keyfunc.c`, `shell_telnet.c`, `command_shell.c` 655-919 |
| `CommandTree` | installation, matching, execution, completion, listing | `command.c`, `vector.c` |
| `Sessions` | the lthreads of the control core, thread table, client slots, pager, descriptors | `vty_server.c`, `vty_shell.c`, `thread_info.c`, `command_shell.c` 293-653, start up |
| `MC*` | instances for TLC | |
| `*Proofs` | theorems | |

`RibManager` extends `QueueConf` and implements `QueueLease` (refinement
mapping: the lease of a worker is the list of queues it may still touch before
its next quiescent state). `Vswitch` takes over from `RibManager` what it proves
and checks: one worker per queue, and rings that exist. It lets the rib manager
publish at any moment, although the tap handler is itself a reader that the
grace period waits for: a larger set of behaviours. `Psmem` extends `Tlp`, and
`Shell` extends `History`. `Shell` is one session as its operator meets it;
`Sessions` is what sessions do to each other; what a line means is
`CommandTree`'s. They are separate because they share little: `Shell` chooses
what a completion inserts from a set and lets the pager end at any time, which
allows more than the other two do.

### State and actions of RibManager

* The main pthread has one program counter `mpc`: `"idle"` is the lthread
  scheduler; the other values are the places inside `rib_check()`,
  `rib_replace()` and `start_stop_worker` where a worker's step can fall between
  two effects. `DevStop` and `DevStart` are the two halves of the port loop,
  `PublishZero` and `PublishNew` the two `rib_replace()` calls of a QCONF
  message, `Reclaim` the return of `synchronize_rcu()` and `rib_delete()`.
* A rib is a heap object. `live` is what is allocated; a freed id can be
  allocated again, so a dangling pointer is visible.
* QSBR: `gp` is the set of registered readers that the grace period still waits
  for. A reader leaves it in a quiescent state or by unregistering. A worker
  that registers after the start of the grace period is not waited for.
* A worker goes `wait`, `launched`, `top`, `read`; in `read` it holds the rib and
  serves one entry of its list per step. `l2_repeater` returns at once when
  `n_rx_port` is 0, which no code ever sets: `NRxPort` names the lcores where it
  is not, so that both cases are checked.
* A message the ring cannot take is gone (`lost`; the code does not free it
  either, `internal_message.c` 58-71); a QCONF message that is refused leaves its
  rib allocated (`leaked`), as the code does.

Not in it: the `malloc()` of a new rib, which the code dereferences untested;
QCONF2, which nobody sends; `set worker` that gives an lcore another function.
Coarser than the code: `DevStart` is the configuration of a port, its queues, its
tx buffers and its start in one step (`rib_manager.c` 231-274), and DPDK calls that
fail in it are not told apart, as the code does not look at their results;
`SetPortDesc` sends the numbers the operator gave, without
`rte_eth_dev_adjust_nb_rx_tx_desc()`, which may change both, and without its
error, which skips the port (`dpdk_port_cmd.c` 719-733): no property but `TypeOK`
depends on the numbers; `SetThreadQueue` is given ids that exist (section 5).

### State and actions of Vswitch

Rings hold packets with the mbuf, the source address and the input port the
handler will read from it, or NULL when the copy failed. An enqueue is one step,
also where two workers share a ring (section 5). `DequeueUp` is one
`rte_ring_dequeue_burst()` into `pkts_burst`, and `HandlePacketUp` one turn of the
loop over it: packets that are off the ring are still owned. `rib_ver` of
`tap_handler()` is declared inside its loop and not initialised: each turn reads
the value of the turn before or anything in `StackValues`. `Flood` allocates and
enqueues one copy per queue; an empty pool there ends the program (`crashed`), as
the NULL is used. `attached` is the kernel's memory of the port taps.

`NettlpQueues` are the queues of a nettlp worker. `nettlp.rx` are the globals
`rx_portid` and `rx_queueid`, `nettlp.m` the packet it handles. It copies what it
receives and what it sends to `ring_up` of the rx ids, never reads `ring_dn`,
does not free a packet that is not IPv4 and UDP, and uses a NULL mbuf when the
pool is empty.

### State and actions of Tlp and Psmem

A byte enable is the set of the bytes it enables, an address is a number that
wraps at `AddrSpace`. The operators keep the names of the C functions. In `Psmem`
a packet is received with the header and the layout of `nettlp_send_dma_write()`
or `_read()`; one step is one turn of the completion loop of
`nettlp_psmem_mrd()`, the whole of `nettlp_psmem_mwr()`, or one shell command.
Commands come between packets: the code has no lock between shell and worker,
so nothing can be claimed of a command in the middle of a copy.

### State and actions of Shell and History

An action is one `shell_input()`: the function of one byte in the key map in
force. `shell` is `struct shell`; the operators have the names and the order of
the C functions and carry the terminal along: `terminal.text` and `.col` are what
the bytes written so far show right of the prompt. `Put` and `BackTo` stand for
`write()` and for the loops over control-H, so a redraw that is one cell short
shows. Log lines of telnet options, and the pager, make the terminal unknown
(`lost`) until a refresh. `failed` is an `assert()` that does not hold. `overrun`
says that the dump of a subnegotiation was written past its 64 bytes: what the
program does then is undefined, and the model stops. `client` is the telnet client
as the protocol has it: between keys, behind an IAC, in an option, in a
subnegotiation. It may send any byte anywhere; where the shell reads the byte as
something else than the client means (an IAC within an escape sequence, a command
other than SE within a subnegotiation, SE outside of one) it is `Astray` for good. `ahead`
is the rest of a `read()` behind a command that started the pager: it still goes
to the key functions. The history is allocated by the first command; `NewHistory`
stands for the missing one too, because every walk in it is refused.

Not in it: `SHELL_FLAG_ESCAPE`, which nothing sets; the default functions of
control-I, -J, -M and -L, which every shell replaces; `shell_debug()`; a failed
`malloc()`.

### State and actions of CommandTree

A node is its path. `NextParents` is one word of `command_install2()` with its
alternatives; the empty alternative keeps the parents. The order of siblings is
unspecified, because `command_node_cmp()` is given pointers to slots and compares
bytes of the nodes: a match is a set, and the properties hold for each order.
Which values a variable accepts (`range_match()`, `file_match()`, ...) is a
constant.

### State and actions of Sessions

An action is one turn of an lthread, from one `lthread_sleep()` to the next.
`fds` is the descriptor table of the process with an owner for each number. A
session's `pipefd` is the number its pager turns keep closing. `blocked` is a
session in `waitpid()`: no lthread runs meanwhile. `count` is a ghost: how many
sessions were served, commands paged and workers and lthreads started, whether an entry
outside the table was written (`wild`), and whether three descriptors were opened
and kept while a session paged (`crowded`).

`StartWorker` and `StartLthread` are the commands that register an entry and never
remove it: `start worker` and `restart worker`, and `set worker lthread rib-manager`
and `stat-collector`, from a session, the console or the startup file. `start worker
lcore all` also takes `force_quit` back. A rib manager or a statistics collector is
an lthread of its own each time it is started.

A shell whose turn has begun when `force_quit` is raised still handles what it
reads: this is modelled for the commands that start something and for the end of a
session, and left out for a command behind the pager.

Not in it: `exit` on the console, which stops every worker and cancels the
lthreads; the console's own pager, which differs from a session's
only in its terminal; the chunks of the startup file.

## 3. The runs

| run | checks | bounds, and why they are enough |
|---|---|---|
| `rib_qconf` | `TypeOK`, `ExclusiveQueue`, `ServedTxReady`, `ServedRingExists`, `LastQconfWins`, refinement of `QueueLease` | 2 pollers, 2 ports with a queue, 3 commands, ring of 1: a queue moves twice between workers that hold three different ribs, and messages are lost |
| `rib_life` | `NoUseAfterFree`, `ReclaimOnce`, `StaleIsOlder`, `NoOrphan` | 2 workers, all commands, 2 messages, 2 rib managers, 3 ribs: the published, the new and one leaked rib exist together |
| `rib_live` | `MainReturns`, `QueueDrains` | fairness below; start and stop of both workers around 2 messages; `l2_repeater` returns at once, as in the program |
| `rib_check` | `CheckIsOrdered`, `TableConsistent`, `BusyLcoresGrow` | 2 lcores of 2 queues, 2 ports, 5 edits: repetitions, gaps, full lists, second port first |
| `packets` | `MbufOnce`, `VswitchShape`, `FdbTracks` | 2 mbufs, rings of 1, vswitch one short, fdb of 1, 2 starts, one queue with a nettlp worker: every limit is met |
| `delivery` | `UpDelivered` | burst of 1, ring of 2: a queue needs several turns |
| `psmem` | `RoundTrip`, `EnablesExact`, `PacketWhole`, `WriteRefusal`, `ReadExact`, `AccessInside`, `WriteExact` | every address from 2 before to 2 after a region of 16 bytes and every count to 17, completions of 8 bytes: up to three completions, both header sizes, a read after a write |
| `line` | `LineSound`, `ScreenMatches`, `HistoryIsLast`, `YankRestores`, `WordMotion`, `TelnetInStep` | five operators with the keys that depend on each other; lines of up to 4 characters, with blanks and slashes, from a buffer of 2: it grows twice; a ring of 4 that wraps; a subnegotiation longer than its buffer and one too long for its dump; bytes of two bits, one of them negative as a `char`, written with the digits of base 2 where the code has base 16 |
| `command` | `FullSpelling`, `NoGuess`, `CompletionKeeps` | 8 commands of the repository cut to a few letters, any 3 installed in any order, every line of 3 words over 14: common prefixes, a keyword beside a variable, an empty alternative, a level left out at the beginning, the blank at the end of a line |
| `sessions` | `EntryOwned`, `TableSuffices`, `SessionKeepsFd`, `FdsAccounted`, `ControlProgress` | 2 slots, 3 connections, 1 paged command, 1 worker or lthread started, a table of 6: slots, entries and numbers are used again, and the table, which holds the four entries of start up and two sessions, is full. With 2 connections and 2 paged commands (two pagers at once) the properties hold too |
| `rib_devstop`, `dma_pad` | one statement of the repository each, which the code does not keep | see section 5 |

`CHECK_DEADLOCK FALSE` is set where the bounds on commands, versions or requests
end a behaviour, and where the program can end (SIGTERM, a NULL mbuf, a dump that
overruns its array).

**Fairness.** Each worker is weakly fair: it is alone on its core and its loop
does not block. The loop of `start_stop_worker` is weakly fair: it is plain code.
The rib manager is strongly fair: shell commands between its turns disable it
for a moment (one pthread), but the lthread scheduler comes back to it after each
of them. The operator and the signal are not fair. `tap_handler` is weakly fair.
DPDK and the kernel are not asked for anything. In `Sessions` every lthread is
weakly fair (`lthread_run()` is a round robin), the startup file ends, and the
operator leaves a pager while the connection stands; connections, commands and
signals are not fair. `ControlProgress` is stated for behaviours in which no
client hangs up in front of a page, where the code does block, and its second part
for shutdowns that no `start worker lcore all` takes back (section 5).

**Mutants.** Every property has a mutant in the module it checks: a definition
`X...` next to the one it replaces, commented "Mutant", that is a plausible bug of that
code (no grace period, an off-by-one in `ntxq`, a break left out). With it TLC
finds the property violated.

## 4. The proofs

| theorem | states | rests on |
|---|---|---|
| `TypeCorrect` | `Spec => []TypeOK` | one lemma per group of actions |
| `RcuInvariant` | `Spec => []RcuInv`, inductive | `TypeOK`, `Ownership`, `Readers` |
| `RcuSafe`, `ReclaimSafe`, `OnlyRefusalLeaks` | `NoUseAfterFree`, `ReclaimOnce`, `NoOrphan` | `RcuInvariant` |
| `QueuesExclusive` | `ExclusiveQueue`, if `~MallocMayFail` | `LeaseInv` |
| `RibRefinesLease` | `Spec` implements `QueueLease`, if `~MallocMayFail` | `LeaseInv`, step by step |
| `RingsExist`, `VersionsGrow` | `ServedRingExists`, `StaleIsOlder` | `ServiceInvariant` |
| `TxQueuesReady` | `ServedTxReady` while `started <= 1` | `ServiceInvariant` |
| `LatestQconfWins` | `LastQconfWins` | `ServiceInvariant` |
| `TableStaysConsistent`, `BusyLcoresStay` | `TableConsistent`, `BusyLcoresGrow` | `GoodTable`; none |
| `CheckOrders` | `CheckIsOrdered` | `CollectedAll`, `QsortFacts`, `LoopFacts` |
| `VswitchKeepsShape` | `VswitchShape` | `SwitchInv` |
| `MbufsOwnedOnce` | `MbufOnce` | `MbufInv`, `SwitchInv` |
| `FdbKeepsTrack` | `FdbTracks` | `Tracks`, `MbufInv` |
| `RoundTripHolds`, `EnablesHold` | `RoundTrip`, `EnablesExact` | header lemmas |
| `PacketsWhole` | `PacketWhole` | `Requested`, the layout of a write |
| `AccessesInside`, `RefusedWritesLeave`, `WritesExact` | `AccessInside`, `WriteRefusal`, `WriteExact`, if `OrderlyUse` | `MemoryInv` |
| `ReadsExact` | `ReadExact`, if `OrderlyUse` | `ReadInv`, `MemoryInv` |
| `EntriesOwned`, `TableIsLargeEnough` | `EntryOwned`, `TableSuffices` | `TableInv`, `FullInv` |
| `SessionsKeepFds`, `DescriptorsAccounted` | `SessionKeepsFd`, `FdsAccounted` | `FdInv` |
| `ShellInvariant` | `Spec => []Inv`, inductive | one lemma per editor function |
| `LinesSound`, `ScreensMatch`, `HistoryKeepsLast`, `TelnetStaysInStep` | `LineSound`, `ScreenMatches`, `HistoryIsLast`, `TelnetInStep` | `ShellInvariant` |
| `YanksRestore`, `WordsFound` | `YankRestores`, `WordMotion` | `ShellInvariant`, the functions of the two keys |

They hold for every number of lcores, ports, queues, workers, mbufs, slots,
messages and commands, and every field width (assumptions: `QueueConfAssumption`,
`RibManagerAssumption`, `VswitchAssumption`, `TlpAssumption`, `PsmemAssumption`,
`SessionsAssumption`, `HistoryAssumption`, `ShellAssumption`: among them a ring of
at least 3 lines and a subnegotiation buffer that holds a window size).
`RibManagerProofs` has the theorems on ribs and leases, `RibServiceProofs` what the readers of a rib rely on,
`RibCheckProofs` the shell's table and `rib_check()`; `VswitchProofs`,
`PsmemProofs`, `SessionsProofs` and `ShellProofs` are about the modules they are
named for, `DescriptorProofs` about `Sessions`.

*RCU.* `NoUseAfterFree` says nothing of where freed ribs come from. `Ownership`
adds which of `ptr`, `new`, `old` and `leaked` own each allocated rib at each
value of `mpc`; `Readers` says what a worker may hold: the published rib, or the
one being reclaimed, and then the grace period still waits for it.
`Reclaim` needs `gp = {}` and so finds no holder.

*Leases.* Two ribs can be held at once, so exclusion inside one rib (order test of
`rib_check()`) is not enough. `Handover` says that during a
QCONF change the zero rib lies between the two: when `new` is published everyone
holds the zero rib or nothing, because the first grace period has ended; and
outside of a change all held ribs have the same lists. `Position` ties each
worker's index to its list. Without the zero rib the invariant is false, and so is
the property: hence `~MallocMayFail`.

*What readers rely on.* A worker may hold `ptr` or `old`, so each property becomes a
statement about both, and about `new` from the moment that makes it true.
`RingsInv` says so of the tap rings. `DeviceInv` says so of tx queues and tx
buffers: the port loop gives them to the lcores of `new` one port after another,
and needs that the busy lcores of `ptr` are among those of `new`, which
`MergeQconf` guarantees as it copies no empty list. A second `rib_manager()`
empties the tx buffers under the workers: hence `started <= 1` (section 5).
`VersionInv` orders `old`, `ptr` and `new`. `LatestInv` follows the last
configuration: it was lost or refused, or is the last QCONF of the ring, or no QCONF
is in the ring and the rib that is published, or is about to be, has it. None of
this needs the zero rib.

*The shell's table.* `GoodTable` is `TableConsistent` as lists without repetition that
are disjoint; `memmove()` keeps the first and the removal from every other lcore,
before the pair is appended, the second.

*rib_check().* Three lemmas, one for each part of the function. Collecting keeps in
`CollectedBelow`, lcore by lcore, which pairs are there, whether one is there
twice, and the last busy lcore. `qsort()` is its contract: a rearrangement in which
no entry is less than one before it. `Places` shows that there is one: the place of an
entry is the number of entries that belong before it, and a strict total order
makes this one-to-one. The counting loop keeps `Passed`: among the entries so
far, a port has the queues below its count, each once. So an entry below the
count is a repetition, and one above it has a predecessor that is missing,
because sorting would have put it in front (`LoopAccepts`). Each loop is a
recursion on a number; `Recursion` shows that it has a solution, and `UpTo` is the
induction along it: both come from the least number of a set of numbers.

*Mbufs.* `MbufOnce` counts the places where an mbuf is. `MbufInv` states it as one
function from owners to sets of mbufs that is exact: each mbuf is in one set, and
no ring names it twice. Every action is then a transfer from one owner to at most
two others, and the lemma `Transfer` shows once that this stays exact; what is
left for each action is which sets move, among them the copies that failed, the
rest of a burst that the device did not take and the packets that are leaked. `SwitchInv` says
that the rx ids of the nettlp worker are those of a queue.

*Fdb.* `Tracks` adds to `FdbTracks` that an address has one entry, so that the entry
`register_fdb()` finds is the only one to change.

*TLP and pseudo memory.* `HeaderFields` computes every field of the header of a
request in terms of `addr % 4`, `count` and the number of double words; the two
theorems on headers follow by
arithmetic, and because no action changes a header (the lemma `RequestsKept`). `Fits` leaves out requests
without a byte, those that do not fit in the length field, and those in the last
double word of the address space, where `addr + 4` wraps. `PadsAre` and `Layout`
compute the data of a write in the same terms. `MemoryInv` adds that the block is
as large as `psmem_size` says when there is one (`BlockInv`), and that what is left
of a read lies in it (`LoopInv`). `OrderlyUse` is what the code needs and does not
enforce: `malloc()` succeeds, the block is at a multiple of 4 that is not 0,
block and requests end below the end of the address space, and no request is
below the size of the block, because `psmem_addr` is 0 until it is set and the
region test then passes without a block. The instances of the runs satisfy it
(`OrderlyInstance`). `ReadInv` is about the loop of a read between two turns:
`Place` says how far address, bytes and double words have come, and `Chain` that
each completion carries the right bytes and leaves as many as the next one says
in its byte count. That the field of the length can hold what one turn sends is
`FieldsHold`.

*Thread table.* `TableInv` adds to `EntryOwned` that only a running session has an
id and that a slot without a descriptor has no session, so that a slot the server
hands out again owns nothing. The step that matters is `Register`: the lowest free
entry, or one past the end, is nobody's. A failed registration leaves the id 0
and owns nothing. `FullInv` counts the entries in use by kind: sessions have at
most one each, and the others are the four of start up and one for each worker,
rib manager and statistics collector ever started (`Started`), so a failed
registration means that these filled the table.

*Descriptors.* `FdInv` says that, until a session that pages has seen three
descriptors opened, its pipe's number is free with enough free numbers below it
(`Roomy`): numbers are handed out lowest first, so the next ones opened do not
reach it and the repeated `close()` hits nobody. `Counted` is the account of what is never
closed.

*Shell.* `Inv` has three parts. `Good`: line, NUL, cursor, cut text and buffer size
agree, no `assert()` has failed, and the terminal is overwritten or shows the line
without the blanks at its end, with its cursor at the line's (`Screen`). Each editor function
has a lemma that it keeps `Good`; below them are what `Put` and `BackTo` do to the
cells, and that the doubled buffer is large enough for any insertion. `HistoryGood`: the
slot `i` commands before the newest (`Ago`) has the `i`-th last line executed, or
none from `HISTORY_SIZE - 1` on, and the walk stands at a line or behind the newest
(`Walk`); so the slot that the next command is written to is empty wherever the walk was left.
`TelnetGood`: unless the client is astray, the key map is the one for its place in
the protocol, the buffer has what it sent of a subnegotiation, and the window
size is the last one sent. `DumpGood` is about the dump of a subnegotiation: five
bytes always fit (`FiveFit`), so an overrun had more. The loops (doubling, copying, looking for words) are recursions on a
number, solved as in `rib_check()`.

Only model-checked: liveness (`MainReturns`, `QueueDrains`, `UpDelivered`,
`ControlProgress`), which is out of the prover's reach; and `FullSpelling`,
`NoGuess` and `CompletionKeeps` of `CommandTree`. These three hold for the commands
that are installed and not for any set of commands (two variables of equal
priority that accept a word make a full spelling ambiguous): no theorem for every
value of the constants states them.

## 5. Where the code and its words disagree

With a run:

* `rib_devstop`: ports are stopped and reconfigured (`rib_manager.c` 456) before
  the zero rib is published (471), while workers still poll them.
* `dma_pad`: DMA writes inside one double word are padded as if the byte enables
  after the data were padding in front of it.

Observations made while modelling, without a run. Rib, lcores and packets:

* Moving the only queue of an lcore is refused for ever: the shell's list becomes
  empty, lists that are empty are not copied to the rib (`rib_manager.c` 433), so
  the rib names the queue twice. (`RibCheck`: the refused candidates after a move.)
* `nettlp_thread` tests the flag of the lthread core (`nettlp.c` 789): stopping its
  lcore blocks the control plane. `MainReturns` fails in `rib_live` when `Func` of
  the stopped lcore is `"nettlp_thread"`.
* After a restart of `tap_handler` no port tap opens, because the first run never
  closed them (`tap_handler.c` 559): `port_fd` is -1 for every port.
* The nettlp worker never reads `ring_dn`: what the tap handler floods to its queue
  stays there. It does not free packets that are not IPv4 and UDP, and uses a
  NULL mbuf when the pool is empty.
* The rx ids of the nettlp worker survive a zero rib (`nettlp.c` 727): a DMA command
  right after its queue was moved is copied to a ring that now has another
  producer. Packets it sends itself have no input port, and the fdb learns its own
  address with an invalid port.

* If the zero rib cannot be allocated, the change is published without it
  (`rib_manager.c` 468): `ExclusiveQueue` fails in `rib_qconf` with
  `MallocMayFail = TRUE`.
* A second `rib_manager()` clears `tx_buffer_per_q` (`rib_manager.c` 557) while workers
  may still serve their queues: until the next QCONF they have no tx buffer.
  `TxQueuesReady` is stated for the first one.
  It also loses the message ring: `rte_ring_create()` of a name in use gives NULL.
* `set thread` takes ids from 0 to 128 (`queue_config.c` 90) and tests none: lcore 128,
  ports from `RTE_MAX_ETHPORTS` on and queues from 16 on are outside `thread_qconf`,
  `port_nrxq` and the rows of `ring_up` and `ring_dn` (`rib_manager.c` 33-34, 189, 287).
* A list that is full drops the pair it is given, after it was removed from its
  old list (`queue_config.c` 121-157).
* `nrxdesc` and `ntxdesc` in one startup file: each message carries both numbers,
  the other one as the rib had it when the command ran (`dpdk_port_cmd.c` 697-713).
* `stop worker lcore 0` says that it cannot, and raises the flag all the same
  (`dpdk_lcore_cmd.c` 69-73): rib manager and shells end.
* Payload sizes 0 (unaligned) and 4096 do not survive the header
  (`nettlp.c` 142 and 1028); `tlp_cpld_data()` skips an address that completions
  do not have; the region test of a read adds the rounded length to the
  unaligned address and refuses reads at the end of the region (541).
* `psmem-address 0` frees the block and keeps address and size (1092), and so
  does a failed `realloc()`: later requests pass the region test. So do, before
  the first `psmem-address`, requests below `psmem_size` (`nettlp.c` 93-96, 541).

Shells and sessions:

* Window sizes: the low byte is added as a signed `char` (`shell_telnet.c` 409), so
  132 columns become 65412. `TelnetInStep` is stated for low bytes below 128.
* An IAC right after ESC is swallowed: the command byte behind it has no function
  and is ignored, and its option or subnegotiation is read as keys. So is what
  follows an IAC IAC (a byte 255), or any command but IAC SE, inside a subnegotiation. `TelnetInStep` says nothing of the key map from then on
  (`Astray`).
* The dump of a subnegotiation has 64 bytes, and `p` is advanced by what `snprintf()`
  would have written (`shell_telnet.c` 380-394): from about eleven bytes on `p` is past
  `end`, `end - p` is a huge `size_t`, and the stack is overwritten. The model
  stops there (`overrun`); `TelnetInStep` says that no window size does it.
* Options and subnegotiations are logged on the operator's terminal, over the
  line being edited, until the next refresh.
* Forward word motion after two blanks goes to the end of the line.
* Type-ahead in the read that starts a pager is typed behind the old line, which
  is still there: a second command in it is executed with the first in front.
* Every turn of a pager closes `pipefd[1]` again (`command_shell.c` 547). The number
  is free at first; the third descriptor opened and kept while a session pages
  gets it and is closed under its owner. Without its condition `SessionKeepsFd`
  fails with three client slots and five connections, and `FdsAccounted` in the
  instance of the run.
* The pty master of each paged command is never closed, nor the socket of each
  session's banner; a `pipe()` that fails leaves both ends of the pty open.
* A client that hangs up while the pager waits for a key: the session goes into
  `waitpid()`, nobody ends the pager, and the whole control core stands still.
* `shell_read_close()` and the end of `vty_shell()` close the same number; it is
  harmless only because no lthread runs between the two.
* `thread_unregister()` of a failed registration writes in front of the table, and
  workers, rib managers and statistics collectors that are started again and
  again fill the table for good: with the four entries of start up and five
  sessions there is room for seven of them in the table of 16.
* `start worker lcore all` clears `force_quit` (`dpdk_lcore_cmd.c` 186): if it is read
  after SIGTERM, the lthreads that have not looked at the flag yet go on.
* Commands: `set nettlp psmem-size 256` is refused because 256 begins `256M`; TAB
  where a `<WORD>` could stand inserts that name; TAB behind an ambiguous word
  completes the ambiguous word at the cursor; the argument of a `<LINE>` is found
  with `strstr()`, which may find an earlier word; `logout` on the console ends
  only the shell; the last line of the startup file needs a newline.

## 6. Plan

Done, in this order: `QueueConf`, `RibManager`, `QueueLease`, `RibCheck`,
`Vswitch`, `Tlp`, `Psmem`, `History`, `Shell`, `CommandTree`, `Sessions`, the
nettlp worker in `Vswitch`, and the proofs above. Left:

1. The DMA parameters that the shell changes between the reads of one packet,
   and the nettlp message ring.
2. `set worker`, which changes the function of an lcore; `exit` on the console.
3. Port commands, as far as they have state.
4. Proofs about `CommandTree`, from a condition on the installed commands that
   makes words distinguishable.

Not modelled, and why: statistics and show commands (output only); logging
(formatting); the file selector (the display of a directory); the tests of
values in `command.c` 75-398 (parsing of numbers and addresses by the C library);
the stored configuration of `command.c` 930-971 and the functions of `vector.c` that
nothing calls; the timer of `command_shell.c`, which start up switches off; DPDK
and the kernel beyond what the modules assume of them; packet contents beyond
source address and TLP fields.
