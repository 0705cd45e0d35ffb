# Linux-Training: specifications, model checking and proofs

TLA+ specifications of the programs of this repository, the TLC runs that check them on
small instances, and TLAPS proofs of their main properties for every instance.

The repository is a collection of C programs. The largest is `8_Mini-project`, a speed test
that downloads and uploads with many threads; next come two programs that synchronise
processes or threads (`6_Synchronization`, `7_socket`), and small exercises. The models
follow the programs in that order of weight.

## 1. Inventory

| Component | State | Operations | Interacts by |
|---|---|---|---|
| **Transfer engine**: `8_Mini-project/src/speedtest-{download,upload}.c`, the end of `speedtest-cli.c` | slot table `thread[]` (`running`, `request_url`), `thread_all_stop`, `total_dl_size`, `total_ul_size` under `pthread_mutex`, two phases | `speedtest_download`, `speedtest_upload` (loops of the main thread), `download_thread`, `upload_thread`, two reporting threads | shared memory; sockets |
| **Nearest servers**: `get_nearest_server` | a table of `NEAREST_SERVERS_NUM` places; locals that `sscanf` fills | one insertion per line of the list | fills the table that probing and transfers use |
| **Choice of a server**: `run_proc`, `get_best_server` | files under `/tmp` that outlive a run; latencies; best index | fetch configuration, list, latency file; probe; compare | files; return values of the fetches |
| **Configuration fetch**: `get_http_file`, `get_https_file`, `get_ipv4_*` | the response being received, `rbuf`, the file | connect, send, receive and write, end | sockets; files |
| **Client position, table output, options**: `get_ip_address_position`, `calcDistance`, `print_nearest_servers_table`, `main.c` | none between calls | scanning, floating point, formatting, `getopt` | arguments |
| **Signal-synchronised processes**: `3_signal_sync_process` | one file, one number per process, pending `SIGUSR1` | sleep, read the last number, append the next, `kill`, `pause` | signals; the file |
| **Echo server and client**: `7_socket` | `client_count`, `client_sockets[]`, descriptors | accept, create a thread, read, reply, close | shared memory without a lock; TCP |
| **Semaphore-synchronised writers**: `1_synchronize_writing_file` | `g_common_var`, `g_sem1`, `g_sem2`, two files, one stdio buffer per thread | create threads; per line: open a file at random, take its semaphore, increment and print, give it back, close; join | shared memory; semaphores; files |
| **Mutex-synchronised readers**: `2_multithread_access_same_resource` | `data[]`, `count`, `mutex`, the handles `threads[]` | create threads; per line: lock, store if chosen and there is room, unlock; join, destroy the mutex | shared memory |
| **Toy allocator**: `5_management_system/src/my_malloc.c` | `memory_pool`, a list of blocks with a header each | `my_malloc` (first fit, split, a new pool), `my_free` (cuts the list), `my_realloc` | calls; the client writes into its blocks |
| **Matrix multiplication**: `Multi_threads/src/matrix.c`, `Multi_threads/main.c` | two matrices, two products, the bands of rows | multiply in a loop; one thread per band, joins; free | the result, by rows |
| **Daemon, examples, file and shell exercises** | next to none | single system calls | — |

What is hard in each, and what makes it correct:

* *Transfer engine.* Up to eight slots, each reused as soon as its thread clears `running`;
  no thread is ever joined; the stop flag is raised and lowered again whoever has seen it;
  reporting threads read the totals without the mutex. Correct: a slot carries one transfer
  at a time; no byte is lost; little is counted after time is up; a speed leaves out nothing
  that was counted before its time; the measurement ends even if every server hangs.
* *Nearest servers.* Insertion at the ends of the table; lines that match only in part.
  Correct: the table holds the nearest of all the servers read, in order.
* *Choice.* Files and buffers left over by an earlier probe or an earlier, killed run; times
  that are only set if a name resolves; -1 as "no answer" compares below every latency.
  Correct: a server has a latency only if it answered, and it is a time that was measured; the
  list is this run's, and the best server is the fastest.
* *Fetch.* TCP cuts a response anywhere. Correct: the file is the body.
* *Signals.* A signal that comes before `pause()` is lost. Correct: the processes take
  turns and count on from each other; a signal is answered.
* *Echo server.* One counter without a lock is used three times per connection. Correct: the
  index stays in the array, each thread serves the client it was made for, messages are
  answered.
* *Semaphores.* Two locks for one counter; lines that reach the file after the unlock.
  Correct: a file's numbers differ and a thread's grow; nothing is lost at the end.
* *Mutex.* Joins of handles that were never set; a mutex destroyed in use. Correct: `data` is
  not overrun, its entries are in order, and no thread is left asleep.
* *Allocator.* Blocks are not marked as taken; a free cuts the list; the pool is replaced.
  Correct: the list covers the pool, what a client wrote is kept, calls return.
* *Matrix.* Bands when the rows cannot be divided evenly, or there are fewer than threads;
  threads that were not created. Correct: both products are the same.

`PROJECT.json` lists each hazard with its line and the properties aimed at it.

## 2. Modules

| Module | Models |
|---|---|
| `SpeedtestTransfer` | the transfer engine |
| `TransferPool` | what it promises: a pool of slots, one transfer each, totals that only grow, download before upload |
| `NearestServers` | `get_nearest_server` |
| `ServerChoice` | `run_proc` up to the transfers, with `get_best_server` and the fetches as it sees them |
| `HttpFetch` | the two fetch functions, byte position by byte position |
| `SignalSync` | the two processes |
| `CountingLog` | what they promise: one log with alternating writers that counts on |
| `SocketServer` | server and clients |
| `WriterSync` | the semaphore-synchronised writers |
| `MutexReaders` | the mutex-synchronised readers |
| `Allocator` | the allocator and a client of it |
| `MatrixBands` | the matrix program |
| `MC…` | values and symmetry for TLC; `MCNearestServers` also compares the ranks of a sorted list (`HasRank`) with sorting, `MCSignalSync` has the assumption on `sleep(1)` |
| `…Proofs` | the proofs; `ServerListProofs` has those of `HttpFetch` and `NearestServers`, `AllocatorReadersProofs` those of `Allocator` and `MutexReaders` |

`HttpFetch` and `Allocator` name their initial states, next-state relation, specification and
type invariant `Fetch…` and `Alloc…`, so that a module of proofs can extend them with another.

In the modules, operators whose name starts with `Fault` are variants with one plausible bug;
nothing in the specifications uses them. They show that each property fails when the code is wrong.

### SpeedtestTransfer

The main thread is at `launch`, `clock`, `copy`, `fill`, `sleep` or `exit`. `LaunchPhase` is
the `pthread_create` of the reporting thread; `TimeUp`/`TimeLeft` the comparison of `clock()`
with `SPEEDTEST_DURATION`; `CopyRequest` the `memcpy` of the request into a slot; `FillSlot`
its end, the test of `running` and the creation of a thread; `EndOfPass` the end of the
inner loop; `NextPhase` and `Exit` what follows `sleep(1)`. The two C loops are the same
code twice, so one set of actions has the variable `phase`.

A worker goes `connect` → `io` → `lock` → `add` → `check` and round, to `drain` (upload) and
`close`. A download may receive data after `select` has timed out, which the code neither
counts nor follows by a look at the flag. An upload counts its header without looking at the
flag. `total += n` is two steps, a load and a store; `mutex` is what keeps them together. A
send on a connection the server has closed may kill the process (`BrokenPipe`: nothing asks
for `MSG_NOSIGNAL`, and there is no handler for `SIGPIPE`); main is then `"killed"`.

`Figure` and `Poll` are the reporting threads: a round reads the clock, then the total without
the mutex, prints, sleeps and looks at the flag; the last round is once more after that. What
is printed is the speed `total / duration * 8`, which falls when bytes stall, and nothing is
claimed of how it moves. The model keeps what a speed is made of, the total it was computed from
(`reported`) and, as history, the total at the moment its time was read (`seen`).

Sizes are members of `Sizes`. Every thread is a member of `Workers` and runs once. When
`Workers` is used up `pthread_create` fails, which the code does not notice: the slot stays
marked forever. `Reporters` are the directions whose reporting thread can be created.

`ThreadNums <= THREAD_NUMBER` is assumed: `main.c` does not check the option `-t`.

### NearestServers

`Scan` is what `sscanf` may do to the locals: nothing, or new values. `Insert` is the whole
loop over the table, `Put` the shift. `seen` and `line` are history: which lines named a
server, and which line each place was filled from. `KNearest` says what `TableOfNearest` comes
to, "the first of the sorted list", by ranks (`HasRank`): a distance is at place `i` if at most
`i` of those read are nearer, and more than `i` are as near. It follows from `TableOfNearest` in
every state and is a theorem only (`FirstOfList`), not a property of a run. That ranks are
what sorting gives is proved (`RankIsPlace`), and evaluated by TLC with the library's sorting
operator on every sequence of up to five of four numbers (`RankIsPlaceInOrder`).

### ServerChoice

A run goes through fetching the configuration and the list, `nearest`, and then `probe`,
`read` for each server, and `select`. Each fetch may not resolve, get no reply, or open its
file and receive; `Crash` stops the run anywhere (a `SIGPIPE` in one of the sends included) and
`RunAgain` starts another one on the files that are left. `ReadLatency` is a server's reading of
the latency file: `fopen` may fail on a file that is there (`NotOpened`), and `unlink` may fail,
which nobody looks at; in both cases the file stays for the next server or run. `elapsed` is
`tv2 - tv1`: garbage at first, and only set when a name resolves, whether or not the server
then answers. `answer` (`none` for a server whose name did not resolve, `silent` for one that
sent nothing), `from`, `unresolved` and `stayed` (the servers after which the file stayed) are
history. Of the files' contents only `absent`, `empty`, `bad` and `good` are told apart.

### HttpFetch

A response is the places `1..size` of its bytes; `header` is where its header ends, `blanks`
where blank lines in its body end. `Receive(k)` is one turn of the loop with `k` bytes:
`Write` when they leave room in the buffer, `WriteUnterminated` when they fill it (`strstr`
and `strlen` then read on behind it: anything, or nothing, may be found there), `Drop`
when `select` had timed out. The mark `"\r\n\r\n"` is two places long rather than four, which
is enough for it to be cut. Bodies are text: a NUL byte, which would cut `strlen` short, is
not modelled.

### SignalSync

`between` is the place after `kill()` and before `pause()`. `Handle` is the arrival of a
signal: it ends `pause()` or `sleep()`, anywhere else it is gone. The line that is written
carries its writer, which the code does not write: it is there for the property. A failed
`fopen` for reading gives number 1, as in the code; a failed one for writing ends the
process.

### SocketServer

Main evaluates the index (`EvalIndex`; gcc, which the Makefile names, loads `client_count`
before it calls `accept`), accepts, looks at the result (`CheckAccepted`), creates the
thread (`CreateThread`) and increments in two steps. A handler reads its slot when it first
runs (`ReadSlot`), then reads, replies, and when the connection ends decrements in two steps
and closes. Descriptors are numbers, the lowest free one goes to the next connection, and a
second `close` hits whoever has the number by then; a read that is under way keeps its
connection. A write to a connection the client has left may end the process (`SIGPIPE`).
Clients send, wait for the answer, and may leave at any time; that the server has closed the
connection is one reason among others to do so (`Leave`). `Talkers` bounds whose clients
send anything at all: the others only connect and leave, as a client may.

An index below 0 is undefined behaviour: main is then `"undefined"`, and nothing follows.
The model ends with the server's process.

`closed` (the handlers that saw the end of their connection), `torn` (a change of
`client_count` was overwritten) and `overlap` (a connection was accepted while another was
being served) are history.

### WriterSync

A thread goes `open` → `wait` → `load` → `store` → `print` → `post` → `close` for every
line. `Open` chooses the file, and may fail, which ends the thread; `SemWait` and `SemPost`
are for the semaphore of that file; `g_common_var++` is the load and the store; `Fprintf` reads
the variable once more and leaves the line in `buffer`; `Close` appends it. `output` has the
lines of this run: the files are opened for appending, and what was there before stays
before them. `CreateThread` and `JoinThread` are `init_semaphore`, and when main is `over`
the process ends whoever is still on its way. `pthread_create` may fail, which is not looked
at: the join is then of a handle that was never set, and fails, crashes, or waits for ever
(main is `hung`). `used` and `torn` are history. An `fclose` that fails is not modelled.

### MutexReaders

`pthread_create` may fail, and which thread `threads[0]` is the handle of is then open
(`handle`). `Join` waits for that thread, the last one that was created, and for nothing else:
the other two handles were never set, so `pthread_join` fails, crashes, or waits for ever on
whatever the memory there points to (main is `hung`).

What the C library does with the mutex is modelled in its parts, because `Destroy` can come
between them. `pthread_mutex_lock` looks whether the mutex is one (`Lock`), waits for its futex
(`TakeFutex`) and only then counts itself among the mutex's users (`CountIn`);
`pthread_mutex_unlock` looks again and counts itself out (`Unlock`), and gives the futex back
(`GiveFutex`). `Destroy` refuses as long as somebody is counted in (`Counted`), else the mutex is
no longer one: locks and unlocks fail at once and are not looked at. So who takes the futex
before the destruction, or after it having waited since before, never gives it back, and whoever
waits for it sleeps for ever. `Destroy` ends main by `pthread_exit`, which lets the other
threads go on. A thread that begins after main is gone reads its number from a stack that may have
been used for something else. `data[count++]` is three steps, `Load`, `Store` and `Write`; a write behind the end
of `data` is undefined behaviour, and nothing follows it. `MAX_THREADS` is assumed to be
at most 3: `thread_ids` has three elements.

### Allocator

A block is its pool and the place of its header; sizes are in units, `HEADER` of them for a
`block_t`. The client has the pointers `Ptrs` and calls anything, in any order, for pointers
it holds (`Request`, `Free`), and writes all that it asked for (`Fill`). `FirstPool`,
`GrowPool` and `Return` are the ways through `my_malloc`; `Return` is also the copy and the
`my_free` at the end of `my_realloc`. `InitializePool` installs the pool and writes its first
header also when the pool is smaller than a header: the size in it has then wrapped below 0
(`FirstSize`, with `SIZE_MAX`), and the header lies behind the pool's end (`overrun`). `malloc`
gives nothing above half of `SIZE_MAX`, and may fail below it. Of the contents of a pointer's block the model keeps how
many units were `wrote` and how many of the first ones are still `good`. Once a header was
overwritten, or put behind the end of its pool, nothing follows. `fits` is history: the
client has asked for something that fits in a block it holds through another pointer.

### MatrixBands

`Normal` is `calculate_product_matrix`; `Multi`, `CreateThread` and `Join` are the parts of
`calculate_product_matrix_multi`; `Free` the end of `main`. `Start`, `Store`, `NextRow` and
`Exit` are `multiply_rows`. An entry of a product is the set of terms that are summed for it,
so that a wrong row or column shows. Sizes and the number of threads are what the input check
lets through, 0 included; `pthread_create` may fail, which is not looked at, and then the
handle that is joined was never set. A `malloc` that fails is not modelled.

## 3. Runs

| Run | Instance | Distinct states | Shows |
|---|---|---|---|
| `transfer_counting` | 2 slots, 3 threads, 2 recvs or buffers each, no reports | 915 137 | `SlotExclusive`, `SlotAlive`, `NoLostBytes` |
| `transfer_stop` | 1 slot, 2 threads, 2 recvs or buffers, both reports | 949 592 | `BoundedOvershoot`, `OwnRequest`, `FinalReportComplete`, `FigureNotBehind`, `Termination`, and that every step is one of `TransferPool` |
| `nearest_servers` | 3 places, up to 5 lines, 4 distances | 26 760 | `TableOfNearest` (and an assumption of the module compares ranks with sorting) |
| `server_choice` | 3 servers, 2 runs, the first killed anywhere | 6 316 836 | `LatencyIsEarned`, `BestIsFastest`, `ListIsFresh`, `LatencyIsMeasured` |
| `http_fetch` | responses up to 7 places, buffer of 4 | 280 559 | `BodyKept`, `HeaderLeftOut`, `FileIsBody` |
| `signal_turns` | up to 8 lines, two initial files, `sleep(1)` long enough or not | 12 480 | `OneTurn`, that the file is a `CountingLog`, and `TimelyAnswered` |
| `socket_server` | 3 connections, room for 3, 2 clients that talk | 530 614 | `IndexInArray`, `CountIsAccurate`, `OwnClient`, `MessageAnswered` |
| `writer_sync` | 2 threads, 3 lines each | 439 551 | `NumbersInFile`, `OneFileCounts`, `AllWritten`, `Termination` |
| `mutex_readers` | 3 threads, 3 lines, room for 2 | 820 895 | `OneLeftAsleep`, `BoundedOverrun`, `EntriesInOrder`, `AllRead` |
| `allocator` | 2 pointers, requests of 0, 1, 2, 5, headers of 2, a first pool of 11 | 461 115 | `AllocTypeOK`, `ListTiles`, `DataKept`, `CallReturns` |
| `matrix_bands` | 0, 1, 2 or 5 rows and columns, up to 4 threads | 237 760 | `BandsPartition`, `ResultIsProduct`, `Completes` |
| `socket_wrong_client` | 3 connections, room for 3 | violated | the finding below |

Where the type invariant is not among a run's properties it is proved instead (section 5).

Why the bounds are enough to be interesting:

* `transfer_counting`: two slots are needed for two threads at the mutex, the third thread to
  take over a slot whose first one has just finished, in either phase; once it has run the
  next `pthread_create` fails. Two recvs or buffers let a thread come to the mutex again after
  another one. The reporting threads only read, and are left out here. Threads are
  interchangeable, so symmetry is used (the run has no liveness property).
* `transfer_stop`: one slot used twice, so that a download survives into the upload phase on
  the slot the upload rewrites; two recvs or buffers, so that counting more than allowed
  after the stop is possible. Both reporting threads run, or are not created once the workers
  are used up. Without symmetry, as it checks liveness.
* `nearest_servers`: five lines for three places make servers fall off the end, four
  distances allow ties and every order.
* `server_choice`: the first server (probed against leftovers), one in the middle and the
  last; two runs are enough for everything a killed run can leave, and the file of one server
  may stay for each later one.
* `http_fetch`: the shortest header is two places, so a cut in it, two marks in one recv, a
  mark in the second recv, and a full buffer all occur; the buffer fills once, with up to three
  places before or behind it.
* `signal_turns`: eight lines are four turns of each process; after them the model stops, and so
  the runs do not check for deadlock, which a lost signal is anyway.
* `socket_server`: with room for three, two clients are served together, each with his own
  conversation, before the third brings the server to its limit; the third finds the limit not
  reached when the count has come down, by a decrement or a lost change. He connects, and may
  leave, but sends nothing: what he adds is a third handler and a third change of the count.
  With all three talking the run would be too long; `socket_wrong_client` has all three. The server
  waits for ever once three have come, so the run does not check for deadlock.
* `writer_sync`: two threads are enough to be in both files at once, three lines to meet again
  in a file after an increment was lost, with a line still in the buffer of the other thread.
* `mutex_readers`: three threads as in the code, as two of them must outlive the join; three
  lines, as the overrun needs two places filled and a thread left to write behind them. Three
  threads are also what a sleeper needs: one joined, one that keeps the futex, one that waits.
* `allocator`: a request of 0, of less than a header, of a header and of more than half the
  pool; 11 units are split twice and leave a rest of exactly a header (for which a call does
  not return), of less, and none; a block of less than half a header is what the pool smaller
  than its header comes from. Pools get larger only when nothing fits, so every sequence of
  calls is covered without a bound on their number. `SIZE_MAX` is far above every size that
  is reached but the wrapped one.
* `matrix_bands`: five rows divide unevenly by 2, 3 and 4 threads, one and two rows leave
  bands empty.

### Finding

`server.c:137`: main reads `client_count` three times for one connection. If a handler
lowers it in between, the new thread gets another connection's socket, or a closed one,
and the new client is served by nobody. As the first of the reads comes before `accept`
blocks, a client that leaves while main waits is enough.

### What the properties leave out

Several properties state what holds together with the case in which it does not. These cases
are what a reader of the code should know of:

* `BestIsFastest`: only if the nearest server answered. If it did not, its -1 is the lowest
  latency (`speedtest-server.c:196`) and it is chosen. The choice has no effect: the transfers
  always use `nearest_servers[1]` (`speedtest-cli.c:92`).
* `LatencyIsEarned`: but for a line left in the buffer, or a file that was left by a killed
  run or could not be removed. `LatencyIsMeasured`: but for a server that nobody's name has
  resolved before, when the file of an earlier run is taken for its answer: `tv1` and `tv2` are then
  uninitialized (`speedtest-server.c:180`). `ListIsFresh`: but for a host that does not resolve, when an earlier run's list is used.
* `TimelyAnswered`: only while `sleep(1)` outlasts the other process's way to `pause()`. A
  signal that comes between `kill()` and `pause()` is lost and both processes wait for ever.
* `NumbersInFile`: only if no increment is lost, which takes both files (`semaphore_sync.c:63`).
* `BoundedOverrun`: with the mutex gone (`mutex_sync.c:59`) the two threads that nobody joined
  may overrun `data` by one. That is for the program's three threads. With four, TLC finds
  three that nobody joined: one of them stores a count it loaded long before, which makes
  room for the others once more, so that the overrun would grow with the file.
* `OneLeftAsleep`, `AllRead`: with the mutex gone one thread may sleep on it for ever, if the
  destruction fell between another one's taking of the futex and its counting in. And main may
  hang in a join of a handle that was never set (`mutex_sync.c:56`), on every execution.
* `Termination` of `SpeedtestTransfer`: by `SIGPIPE` as well (`speedtest-upload.c:94`), with no
  result printed.
* `ListTiles`: but for the pool that has no room for its own header, twice a last block of less
  than half a header (`my_malloc.c:66`). `my_malloc(1)`, its `my_free` and `my_malloc(2)` make
  one. What a call does after that header was written is not said, by `DataKept` neither.
* `DataKept`: only if no request fits in a block the client already holds, as no block is
  ever marked as taken (`my_malloc.c:45`); the second call of the same size returns the same
  block.
* `CallReturns`: but for a last block of exactly a header's size (`my_malloc.c:66`). After
  one that is smaller each new pool is smaller still, until a header does not fit.
* `Completes`: not with 0 threads (`matrix.c:175`), not if the matrices cannot be multiplied
  (`main.c:73` frees a `NULL`), and not surely if a thread could not be created. `Termination`
  of `WriterSync`: if a thread could not be created main may hang in its join.

## 4. Fairness

* `SpeedtestTransfer`: `WF(Main)` and `SF(TimeUp)`. The main thread never waits for another
  one, and `clock()` is the CPU time of the process, which its own loop uses up: it cannot
  come by the comparison for ever with time left. Nothing is assumed of the workers, as a
  server may keep one in `recv` for ever; `Termination` holds all the same.
* `SignalSync`: each process takes its steps and a pending signal is handled some day.
  In the behaviours that `MCSignalSync` calls timely, `SleepIsLong` holds of every step, the
  assumption that the code makes by its `sleep(1)`.
* `SocketServer`: the server's threads run. Nothing is assumed of the clients.
* `WriterSync`, `MutexReaders`, `MatrixBands`: main and every thread run. Nothing is assumed
  of who gets a semaphore or the mutex: each thread gives it back, and there are finitely
  many lines.
* `Allocator`: a call that has begun runs on (`WF(Allocate)`). The client may stop.

## 5. Proofs

All for any values of the constants that satisfy the named assumptions, without the bounds
of the runs (`MaxLines`, `DL_RECVS`, `MaxConns`, … may be any number).

* `SpeedtestTransferProofs`. Assumes `TransferAssumption`. `Typing` carries, beside `TypeOK`,
  that the cursor and a live thread's slot are in the table.
  * `Exclusive`: `SlotExclusive` is inductive, as `running` is raised in the step that makes
    the thread and lowered in its last one. `Alive` rests on it: the thread that lowers a
    slot is the only one there.
  * `Counting`: `NoLostBytes` is not inductive. `HolderAdds` says what the mutex is for: who
    is between load and store holds it, and has the current total.
  * `Overshoot`: `LateInv` says where a thread that has counted once, or twice, since the
    stop must be: on its way to the check, or an upload just past its header.
  * `Requests`: `OwnUrl`, the slot of a thread of the current phase carries its request, and
    in the download phase there are only downloads.
  * `FinalReport`: `ReportInv`, the total at the stop is at most the total, which only grows;
    and `StopInv`, that the last figure is begun only after the flag was up, so that its total is
    at least the one at the stop. `Figures`: `SeenInv`, the total at the time that was read is
    at most the one that is read next.
  * `Refinement`: every step is one of `TransferPool` or changes nothing of it. A job is the
    kind of the live thread on the slot, which needs `SlotExclusive`; an addition is of a
    size in `Sizes`, which needs `HolderAdds` and that what waits to be counted is such a size.
* `ServerListProofs`, the table: `Nearest`, that it is sorted, shows lines as read and each
  at most once, and leaves out only what is no nearer than anything it shows. The cases are
  an empty place, a taken one and none; a line before the first match is on its own.
  `FirstOfList` is by counting, in each state: `line` gives every taken place a line of its own, and
  gives all lines unless the table is full, so as many places are taken as there are lines or
  places; up to place `i` it gives `i + 1` lines as near as the `i`-th, and every nearer
  line is before it. `RankIsPlace` counts in the same way, over any listing of a sequence in order.
* `ServerChoiceProofs`: `FreshList`; `Earned` from `FileInv`, which says where in a run the
  latency file can exist and that it is then this server's answer, an earlier run's, or one that
  could not be removed; `Measured` from `MeasuredInv`, that `elapsed` is a measured time as soon
  as a name has resolved, and that before that there is a file only if an earlier run has left it;
  `Fastest` from the invariant of the comparing loop.
* `ServerListProofs`, the file: `Kept`, for each recv; `LeftOut` and `Complete` from `HeaderInv`: a recv
  that ends behind the header began behind it or has its mark, because the last cut is
  where the next recv begins.
* `SignalSyncProofs`: `Exclusive` needs `SignalAwaited` (a pending signal's process is
  between `kill` and `pause`, or in it); `Refinement` needs `LogInv`, that between the read
  and the write of a number the log does not move.
* `SocketServerProofs`: `InArray` from `IndexInv`: a handler's copy of the count may be old,
  but never above `MAX_CLIENTS`, so a decrement writes less than that, and after main has
  passed its limit check the count stays below it until its own increment. `Accurate`: each
  side counts a thread once; a handler decrements once, after it has read the end. `Typing`:
  each descriptor in use is of a connection of its own, so one is left for the next.
  `OwnServed` has an invariant for each of its two exceptions. `AloneInv`: in a server
  without two connections at once every connection has the first descriptor, and every
  element below `client_count` shows it, so that whichever of them main goes by is right.
  `StayInv`: while nobody closes, main's three reads of `client_count` agree, and the `n`-th
  connection has element `n - 1` and a descriptor nobody else has.
* `WriterSyncProofs`. `SemInv`: who is between wait and post has the semaphore of its file,
  and no two have the same.
  * `Numbering`: `NumbersInFile` is not inductive. `NumberInv` adds, as long as no increment
    was overwritten, that what waits in the buffers goes behind what is in the files, and that
    a number about to be printed is above all there are. A torn increment takes both files by
    `LoadInv`: with one in use, what a thread has loaded is still the current value.
  * `Counting`: `CountInv`, the numbers are `1..g_common_var` but for the one about to be
    printed; a thread in `print` is the only one there.
  * `Written`: `LineInv`, each thread has as many lines in the files as it has finished, and
    main's joins have seen every thread return.
  * `Unblocked`: `HeldInv`, a semaphore at 0 is with a thread between wait and post, which waits
    for nothing; a handle that was never set holds up main alone.
* `MatrixBandsProofs`. Arithmetic first: band `t` is from `t * rows_per_thread` up to the
  next one's beginning, the last up to the last row (`BandsApart`, `BandsCover`). `BandInv`
  says that main's loop hands out just these, also when `start_row` is what it has come
  to; `WorkInv` how far each thread is in its band, and that what lies behind it there is
  computed, which no other thread undoes. `Partition` and `SameProduct` follow.
* `AllocatorReadersProofs`, the readers. `TypeInv` has the types, the places, and that while
  the mutex exists only its owner is between lock and unlock.
  * `Overrun`: `BoundedOverrun` is not inductive. `CountInv` adds that a thread about to load
    has seen room; `LateInv` what happens without the mutex: if a thread is about to add to a
    full `data`, the other one that was not joined is not between its check and its store,
    as it is what filled it.
  * `InOrder`: `HolderInv`, the owner has the current count; and `EntryInv`, what is behind the
    count is empty and an entry is of a line its thread has read, of an earlier one while the thread
    is on its way to the next.
  * `LeftAsleep`: when main destroys the mutex some other thread than its owner is done or was
    never created (`Missing`), so that of three threads one owner is left and one sleeper.
* `AllocatorReadersProofs`, the allocator. First what splitting (`WriteHeader`, `InsertAt`),
  cutting off (`CutOff`) and forgetting headers (`KeepHeaders`) do to a list of blocks; they
  need no induction over the list, as `Tiles` has the order of any two blocks and not only of
  neighbours.
  * `AllocTyping`, `Tiling`: `ListInv`, or `AfterOverrun` once a pool had no room for its header. Blocks the list no longer has keep their headers
    while the client holds them; `HeaderInv` says where they lie, behind all that is in the
    list or in another pool (`Placed`), so that a new header is never one of theirs.
  * `Kept`: `KeptInv`. As long as nothing was asked for that fits in a block held through another
    pointer, what different pointers hold is apart (`Apart`), and a call under way asks for
    more than any of the others holds: the block it gets, and what it writes, is nobody else's.

The type invariants of all modules are proved, and so is every safety property of the passing
runs: the invariants, the action property `FigureNotBehind` and both refinements.

`NeverStuck` of `WriterSync` is what of `Termination` can be proved: that main and the threads
never all wait for one another, for any number of lines and of writers. It is stated with the
guards of the actions (`CanGoOn`), as `ENABLED` is beyond the prover.

Only model-checked: the liveness properties (`Termination`, `TimelyAnswered`,
`MessageAnswered`, `CallReturns`, `Completes`, `AllRead`), which are beyond this prover; and
that every sequence can be listed in order at all, which is an induction over its length.

## 6. Not modelled

* The daemon, the examples of a few calls (pipes, shared memory, timers, named semaphores)
  and the file and shell exercises have next to no state between their calls: a model would
  repeat the code and no property would be at stake. The producer/consumer example has a
  protocol of three semaphores, but its buffer is never written.
* Floating point, scanning, formatting and `getopt`; the contents of TCP segments beyond what
  a property is about; input and output of the matrix program.
* More slots than `THREAD_NUMBER` (`main.c` does not check `-t`), a `malloc` that fails in
  the matrix program, an `fclose` that fails in the writers, and whatever follows a write out of
  bounds.
* The composition of `ServerChoice` with `NearestServers` and `HttpFetch`: each has its own
  view of the files between them (`good`, `bad`, `empty`), and a list cut short by a failed
  fetch is only seen as `bad`.

Still worth doing: what of `MessageAnswered` is safety (a message that was sent has a thread
that reads it), the composition above, and the producer/consumer example, whose two calls of
`fork` make two producers and one consumer.
