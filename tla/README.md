# SyncFiles: a TLA+ model

SyncFiles synchronises an output folder with an input folder: it copies (or
moves) files that are missing or older, optionally deletes what has no match,
and does so with several threads. This directory models the parts of it that
carry that job and checks them with TLC on small instances; every safety property
checked there is also proved with TLAPS for all instances.

## Inventory

| part | state | operations | hard because |
|---|---|---|---|
| `Functions::Copy` (`src/src/Functions.cpp:292`) | listings, `ODirSet`, `_doneStuff`, `_finished` | list both trees, create directories, start and join threads, queue deletions, remove directories | the order of joins and flags decides whether queued work is lost; failures half way |
| `Helper_SortFiles` (131), four threads | `IFilesSet`, `OFilesSet`, `_copyQueue`, totals | take a file, look for a match, compare, queue | `OFilesSet` is shared without a lock; size and pop are separate; announces after pushing |
| `DoStuff` (96), `-p` threads | `_copyQueue`, `_deleteQueue`, `errors`, counters | copy or move, delete, count | three reads in the loop condition; `copy_file` is not atomic; death in the middle |
| `GetFiles`, `Helper_*` (225, 45) | listings | walk a tree, cut the prefix | a walk that fails half way; a path given with a separator at its end, whose prefix is a character too long |
| `ts_deque`, `Spinlock` (`src/include/Types.h:115`, `Threading.h:5`) | `_flag`, `_queue` | push, `get_pop_front`, `size`, `empty`, `clear`, `swap`, ... | throws inside the critical section; `swap` takes two locks |
| `main` (`src/src/main.cpp`) | options, paths | parse, search, remove, start `Copy`, print totals every second | options found anywhere in an argument; a question between looking and removing; `-p0`; division by 0; flags read unsynchronised |
| `ReconstitueSymlinks`, `GetFilesRelative` (247, 204) | sets per folder | replace junctions by copies | removes before it copies; two ways to match, one way to copy; a file at the path; a listing that goes stale; exceptions that nothing catches |
| `FormatTime`, `FormatTimeNS` (449, 475) | none | split a time into units | comparisons at the unit boundaries |
| `String`, `Vector`, `Deque`, `ThreadSafeVar`, `SpinlockA` (`Types.h:10`, `503`-`1157`, `Threading.h:24`) | a pointer or value and a flag each | assign, move, append, compare, swap, ... | two locks at a time, and in the opposite order for `>` and `<=` of `String`; wait and notify; `operator[]` without a lock. Unused by the program |
| `CrashHandler.cpp` | handler, mutex, log | install, on a crash write a log in six sections | several threads crash; a log per second; a fault inside the handler. Windows only; `main.cpp` does not install it |
| `ModuleHandler.cpp`, `Introspection.cpp` | list of modules | list, sort, find the module of an address, analyse words in a pool of threads | the list changes while it is read; exceptions that no `catch` sees |
| `PdbHandler.cpp` | `hr`, mutex | look an address up through COM and DIA | one `hr` for all threads decides who initializes COM; nine calls that may fail; exceptions that skip `CoUninitialize` |
| `ThreadSafe.h`, `Helper_CreateDirs`, `Wait`, `GetSize` | | | never compiled or never run |

The thread that calls `Copy` communicates with sorters and workers through the
three deques, `OFilesSet`, the atomic counters, `_doneStuff` and joins; the
thread of `main` only reads `_finished`, `_activeCopy` and the counters. No
condition variable is ever notified: `wait_for` is a delay of at most 10 ms.

What makes each part correct:

* queues: every file has one owner, none is lost or handled twice, and the
  workers leave only when nothing is or can be queued;
* trees: at the end every input file has arrived, or may stay away, or is in
  `errors`; nothing is overwritten or deleted that the options protect; the
  bytes of an input file survive any crash;
* reports: the totals balance, no error is spurious, a second run is idle;
* `Copy` returns;
* `ts_deque`: operations are exclusive, atomic, and never leave the lock set;
* the other containers: what an operation has tested stays true until it acts,
  no wake-up is lost, and there is no deadlock that callers could not avoid by
  ordering their arguments;
* `main`: the options are those the user gave, nothing is removed that was not
  named and confirmed, what is printed last is final, and it ends;
* `ReconstitueSymlinks`: nothing but junctions changes, each becomes what `copy`
  makes of the first folder that matches it, and stopping anywhere costs one at most;
* the crash handler: logs are whole and not mixed, frames carry the right
  module, a lookup that returns has undone COM, the process ends.

`PROJECT.json` lists the hazards by line with the properties that cover them.

## Modules

| module | models |
|---|---|
| `FileTree` | the part of `std::filesystem` in use (external): trees as functions from relative paths to nodes with kind, time, size and the origin of the bytes |
| `SyncCopy` | `Functions::Copy` with its sorters and workers, killed and restarted |
| `SyncCopyProps` | the properties of `SyncCopy` |
| `SyncCopyPlain` | the assumption that no path is given with a separator at its end |
| `SyncCopyProof` | theorems about `SyncCopy` under that assumption: types, queues, counters |
| `SyncTreeProof` | what it does to the two trees (extends `SyncCopyProof`) |
| `SyncResultProof` | what a run leaves and reports (extends `SyncTreeProof`) |
| `MCSyncCopy`, `MCSyncPlain` | trees and options for TLC; the same with `SyncCopyPlain` |
| `DequeOps` | what each operation of `ts_deque` does and returns, sequentially |
| `AtomicDeque` | abstract specification: each call takes effect in one step between call and return |
| `SpinDeque` | `ts_deque` under `Spinlock`, statement by statement, and its properties |
| `SpinDequeProof` | theorems about `SpinDeque`; that it implements `AtomicDeque` |
| `Containers` | `String`, `Vector`, `Deque`, `ThreadSafeVar` and `ts_deque::swap`: their locks, pointers and lengths |
| `ContainersProof`, `MCContainers` | theorems about `Containers`; threads and operations for TLC |
| `Reconstitute`, `MCReconstitute` | `ReconstitueSymlinks` with `GetFilesRelative`; folders for TLC |
| `ReconstituteProof` | theorems about `Reconstitute` |
| `TimeFormat` | `FormatTime` and `FormatTimeNS` as functions |
| `Driver`, `MCDriver` | `main`, and the copying thread as it sees it (uses `TimeFormat`); command lines and disks for TLC |
| `DriverProof` | theorems about `Driver` and `TimeFormat` |
| `PdbLookup` | `pdb_details`: one lookup, under its mutex |
| `CrashHandler`, `MCCrashHandler` | installation, filter, log, module list and pool (extends `PdbLookup`); an instance for TLC |
| `CrashHandlerProof` | theorems about `CrashHandler` and `PdbLookup` |

`SyncCopy` uses its deques as `AtomicDeque` describes them, which is what
`SpinDeque` is shown to provide. `Driver` sees `Functions::Copy` as a thread that
lists, queues, announces, copies or fails, and sets `_finished`; the inside of it
is `SyncCopy`. The operators in the section "Plausible
mistakes" of a module are used by no action. Each is a faulty form of one
definition; put in its place it violates a property (see "mutants" in
`PROJECT.json`), which shows that the property can fail.

### SyncCopy and the code

`phase` is where the thread in `Copy` is: `scanIn`, `scanOut` (307-345), `dirs`
(354), `sort` (378-396), `queue` (399), `joinWork` (411), `rmDirs` (419),
`finished` (433). `spc[s]` and `wpc[w]` are the statement at which a sorter or
worker stands; `sfile`, `found` and `hand` are their local variables. The other
variables carry the names of the members of `Functions`. `errors` holds the
operation and path instead of the message. History variables: `in0` and `out0`
(the trees before the first run), `run`, `clean` (no earlier run failed or was
killed), `misled` (what has given the program a wrong picture so far: an
incomplete listing, a failed status call, a race).

Choices that matter:

* *The race on `OFilesSet`.* `contains` and `erase` take two steps. An access
  that overlaps an `erase` is disturbed: a search may miss its element, an
  erase may be lost. Overlapping searches are harmless. The race may also
  bring the process down, which is `Kill`.
* *`_doneStuff`* is a plain `bool` written by one thread and read by others.
  Each turn of the loop calls functions the compiler cannot see through, so
  it is read each time; it is modelled as an atomic read. A worker that sees
  it set takes the lock of each queue afterwards and so sees the pushes.
* *`copy_file`* truncates its destination, dated `Now`, and fills it in a
  second step; it may fail or the process may die in between.
  `CopyKeepsTime` says whether the copy carries the time of its source
  (Windows) or that of the copy (elsewhere).
  A file that one worker writes and another one removes (possible after the
  race) is removed, or the removal fails.
* *`rename`* is one step, both trees being on one volume. Across volumes it
  fails on POSIX systems, which is the fault `"copy"`; the library of MSVC copies
  and deletes there, which is not modelled.
* *Faults.* The constant `Faults` names the calls that may fail: `"scan"` (the
  walk ends early), `"stat"` (time or size unavailable), `"mkdir"`, `"copy"`,
  `"remove"`, `"kill"`. A failure the code cannot avoid, a file standing where
  a directory belongs, needs no fault. A `file_size` that fails, or is asked for a
  file that is gone, adds `size_t(-1)` to the bytes and leaves no error (`FileSizes`).
  An exception of the iterator's constructor, which is outside the `try` of
  `GetFiles`, ends the process, as `Kill` does.
* *Cutting the prefix.* The prefix is the path given and a separator. If the path
  given ends in one already, the entries begin with a prefix one character shorter, and
  `substr` takes the first character of every name away: `Chopped`, for the
  trees in `InputSlash` and `OutputSlash`. `SlashAssumption` excludes names of one
  character there (the empty rest is passed over by the code) and an input whose
  cut name is one of its directories.
* *The output prefix.* A queued deletion is `DeleteEntry(f)`, the prefix and
  the file, and the worker puts the prefix before it again. Paths are relative
  to the output root, so the result is `OutputPrefix \o f`; `OutputPrefix` is
  `<<>>` for the output path `.`.
* *`Compare`* reads both times and both sizes in one step: until a file is
  queued, no other thread touches it or its match.
* *Left out*: `cdeleted` (never read), the monitor, console output, creation
  of a missing output root, symbolic links.

### SpinDeque and the code

`pc[t]`: `idle`, `spin` (in the loop of the `Spinlock` constructor), `locked`,
`front` and `pop` (the statements of `get_pop_front`), `unlock` (the destructor
is due, after a return or a throw), `ret`. The iterations of the spin loop that
fail change nothing and are no steps. `st` maps `pc` to the abstract `idle`,
`called`, `done`: a call takes effect where the `std::deque` changes, or where
`get_pop_front` finds it empty.

### Containers and the code

The objects are of one class, chosen in `Init`. A value is `Null` or a length
(the number itself for a `ThreadSafeVar`). `LockOrder` gives the flags an
operation sets, its own and then its argument's; `held` counts those it has.
`Locked` is a `test_and_set` that finds the flag clear, `Blocked` one that does
not and the `wait` that follows; a thread in `wait` is woken by `Notify` only.
(`wait` returns at once if the flag is clear when it looks; that is `Locked` a
little later.) Classes that spin have no `Blocked`. `Test` reads the pointers and
`Act` is the rest of the body, so that only the locks keep the test true.
Operations that lock and change alike are one (the comment at `Ops`): the six
comparisons, the readers, `clear`/`reset`/destructor, `begin`/`end`/`reserve`.
`>` and `<=` of `String` are written as `rhs < *this`: `Executed` makes them the
comparison with the objects exchanged, which locks the right-hand side first.

### Reconstitute and the code

`phase`: `list` (the loop at 254), `replace` (263), then `create` (279) and `copy`
(280) for the junction `cur` and the folder `from`, `end`, or `aborted` (killed, or
an exception, which nothing catches). `tree` is the first folder with links as
leaves, `linked` what is seen through them; the walk follows junctions and symbolic
links, so both are listed, but only a junction is replaced (`IsJunction`). The order in
which the loop takes the directories is that of a hash set and is arbitrary.

A replacement is taken by path or by name alone, the copy is by path (`Image`). If the
folder has the name only, `CopyTree` has nothing to copy and the process ends, with an
empty directory where the junction was. If it has a file at the path, `copy` puts the
file into the new directory (`Inner`) and the loop goes on. `Faults` lets walks end
early (`"scan"`) and any call throw or the process be killed (`"call"`). The folders are
given without a separator at the end.

### Driver, TimeFormat and the code

`pc` follows `main`: `start`, `parse` (153; `ParseEnd`, 186, lets
`-f` imply `-o`), `classify` (one path per step, 203; `Dispatch` clears the list and
chooses a branch, 217), `search`/`walk` (220, 96), `confirm`
(228), `remove` (239), `reconstitute` (248), `copy` (257), `monitor`, `print` (273),
`join` (282), `exit`, `terminated` (an exception that nothing catches). An argument is
a record with the option texts that occur in it; `Taken` decides as the chain of
`find` does. `Inside[n]` is what a folder holds, at any depth. `Disturb` lets other
programs make any path nothing, a file or a folder while the question is on the
screen. Paths on the command line are named by their node: that
`absolute` and `exists` agree is assumed. `StatusThrows` is the exception of
`exists` or `is_directory`, which nothing catches, nor what `ReconstitueSymlinks` throws.
`copy` is the state of the copying thread; `Sort` queues before it announces, `odd`
says that a `file_size` failed and its -1 is in the totals (with -m the file may be
gone when it is asked), `undeleted` that a deletion is among the errors
(`DeleteFails`). The percentage is `NoNumber` where the C++ conversion is undefined or
a -1 is in it. In `TimeFormat`, `n \div unit` is `trunc` of a `long double`
quotient, which is exact for times up to years.

### PdbLookup, CrashHandler and the code

`at[t]` is the call of `pdb_details` a thread is about to make; each may fail, and
`Leave` is every return (all of them call `CoUninitialize`). `LookupThrows` is the exit by a
C++ exception (`exists` and `is_directory` of the symbol cache, among others), which
does not. `hr` is `SUCCEEDED` of the shared variable. `com` balances the two calls in one
lookup; it does fall to -1, when `hr` was good from an earlier lookup or `CoInitializeEx`
failed, and `CoUninitialize` is called all the same.

`EnumProcessModules` may fail, and its result is not looked at: the vector then keeps what it
held, the loop ends, and `kept` is empty from there on. A null handle, as a stale one, makes
`Factory::create` fault. The list of modules is sorted as `std::sort` promises and no more: any
permutation in the order of the comparison (`SortedByAddress` is the set of them).

`pc[t]` of a thread in the filter: `lock` (479), `enum`, `create` (the two halves of
`get_loaded_modules`), `log` (`get_log`), `section` and `analyse` (a section, or a block
of `print_stack`), `terminate`. A thread of the pool is `run` until it faults. `busy[w]`
is what a thread is analysing; the pool works on registers and stack, the crashed
thread alone on the exception's address and the call stack. `stack` and `Registers`
hold what analysing a word comes to (`none`, `lookup`, `fault`), because what decides
it, the memory behind the word, is arbitrary. A C++ exception ends its section with a
message (`Throws` outside and `LookupEscapes` inside a lookup), except in registers and
stack: there it leaves a function that `par_unseq` runs, and the process is terminated.

An access violation inside the handler (`faulted`) is no C++ exception under `/EHsc`:
`catch (...)` does not see it, and the thread that raises it enters the filter. If it is
the one that holds the mutex, it locks it again (`Relock`); if it is one of the pool, it
waits for the mutex while the filter waits for it, and the process hangs. Both are in
the model, which is why `crash` sets `CHECK_DEADLOCK FALSE` and `CrashEnds` excludes
them. An access violation may come from an unreadable word, from the image of a module
freed meanwhile, from `publicSymbol` (uninitialised, `PdbHandler.cpp:269`) or from DXGI
interfaces that were not obtained (`CrashHandler.cpp:399`).

Left out: the text of the sections and symbols, `InitializeLogging`, the wait for a
debugger (off, and nothing sets it), the scan for vtables and RTTI, `dump_symbols`,
`print_stack` without a TIB.

## Runs

| run | instance | states | shows |
|---|---|---|---|
| `sync_kill` | 2 workers, 2 sorters, 3 input and 6 output trees (one each with a separator at the end of its path), 6 option sets, kill anywhere, 2 runs | 2.3 M | `TypeOK`, `WorkersDrain`, `OneOwner`, `EveryFileAccounted`, `NewerKept`, `MatchedKept`, `UnmatchedDeleted`, `NoDataLost`, `TotalsAgree`, `NoSpuriousErrors`, `Idempotent` |
| `sync_faults` | 2 workers, 2 sorters, 5 output trees (two of the wrong kind), 3 option sets, every fault but kill, 1 run | 5.1 M | `Conservation`, `EveryFileAccounted`, `MatchedKept`, `NoDataLost`, `TornAccounted` |
| `sync_live` | 2 workers, 2 sorters, -d with an output path other than `.`, failing copies, one kill | 0.8 M | `Termination` under `FairSpec` |
| `deque` | 3 threads, 2 values | 0.3 M | `Mutex`, `PopStable`, `Linearizable`, `LockReleased` |
| `containers` | 5 classes, 2 objects; 2 threads calling anything, or 3 calling five of the operations | 0.5 M | `Exclusive`, `TestedStaysTrue`, `DeadlockNeedsCycle`, `CallsReturn` under `FairSpec` |
| `reconstitute` | 5 first folders, up to 2 others out of 5, incomplete walks, failures and kills | 0.8 M | `OthersKept`, `LinkTargetsKept`, `ReplacedInOrder`, `OneHoleAtMost` |
| `driver` | 18 command lines, 8 paths on three levels, 3 files to copy, 17 times | 0.4 M | `ParsedAsMeant`, `RemovesOnlyNamed`, `RemovedOrReported`, `SearchComplete`, `FinalReport`, `TimeExact`, `MainEnds` under `FairSpec` |
| `crash` | 2 threads that crash, 1 of the pool, 3 modules, 2 stacks, 2 seconds, 1 load or free | 0.9 M | `LogOfOneCrash`, `FramesAttributed`, `ComPaired`, `CrashEnds` under `FairSpec` |
| `sync_newer_race` | 2 sorters, newer output files | | violates `NewerOnlyByForce` |
| `sync_scan_delete` | a failing walk, -d | | violates `DeletesOnlyUnmatched` |
| `sync_torn_rerun` | a kill inside `copy_file` | | violates `SameSizeAfterCopy` |
| `sync_older` | an older output file, no option | | violates `OlderOnlyByOverwrite` |

The last four are disagreements between the code and its usage text, a comment
or its test; "findings" in `PROJECT.json` quotes both sides. The properties of
the first three runs state what holds outside these cases, and `EveryFileAccounted` what
the code does with older files; their excuses are named and defined in `SyncCopyProps`, and
each names a case in which the code does otherwise:

* `misled`: an incomplete listing, a failed status call, the race;
* `clean`: an earlier run was killed or failed;
* `Rematched`: with -m and -d together a second run sees no match for what the first one
  moved and deletes it;
* `SafePrefix`, and the empty prefix that the theorem about `UnmatchedDeleted` assumes: with an
  output path other than `.` the prefix of a deletion stands twice (403, 121). For a name
  such as `out` or an absolute path there is no such path and the file stays, although the
  usage text says of -d that it is deleted (`main.cpp:134`);
* `PlainPath`: a path with a separator at its end. If it is the output path, no file
  has a match and newer ones are overwritten without -f; if it is the input path, every
  copy fails; if both are, the names match each other and no file, the exception of
  `file_size` (156) is swallowed, and `Copy` ends without an error and without having
  copied. `NoDataLost` does without this excuse, and so do `WorkersDrain`, `OneOwner` and
  `TotalsAgree` in these instances, in which no two names are cut to the same one.

In `Reconstitute` two statements of the program are not met either: the comment at
`main.cpp:249` speaks of symlinks, and a symbolic link is passed over (267); and after
"Found replacement. Copy replacement..." (276) a match by name alone ends in an
exception (280). `ReplacedInOrder` is about junctions and about a function that returns,
`OneHoleAtMost` about every moment.

**Bounds.** Two files, one in a directory, are enough for two sorters and two
workers to meet on every queue, on `OFilesSet`, and on the last element; the
trees contain every outcome of the comparison (missing, older, newer, same time
with the same and with another size). Two sorters stand for the four of the
code: the race takes two. `MaxRuns = 2` is a run and what follows it. `SizeMod`
stands for 2^64; with 8 the value -1 of a failed `file_size` wraps and honest
sums do not. In `sync_kill` names have two characters and the paths include what a cut
leaves of them. In `deque`, `MaxLen` bounds the length at which a push is called;
three threads can still push past it. Symmetry of threads is used in the safety
runs only.

In `containers`, each thread makes one call: a deadlock, a lost update or a lost
wake-up needs no more than one call per thread, three threads make a chain of holder,
waiter and second waiter, and two objects make both cycles (an object with itself,
two crosswise). `MaxRank = 1` is enough to order two objects; `MaxLen = 0` with `Null`
and what pushes add gives null, empty and filled; `VarMod` stands for 2^w. In
`reconstitute`, the folders have a junction at the top, one below a directory and one
seen through another, symbolic links at the top with something behind them, and sources
that have them by path, by name only, as a file, or not at all. In `driver`, units of 108, 36, 12 and 4 keep the ratios whole and the times lie
on, before and after each boundary; three levels of folders let a removal fail below the
folder's own entries, and a file may become a folder with something in it. In `crash`, `MaxNow = 1` lets two crashes fall into one
second or two; one load or free (`MaxLoads`) makes the list grow or shrink between
two calls, and it may happen wherever the handler could notice; `BlockSize = 2` splits
a stack of three words.

**Fairness.** `FairSpec` assumes that each thread which can take a step
eventually does (`WF` per thread), as a preemptive scheduler provides. For a
spinlock this includes that a thread does not lose every race for the flag; the
lock does not guarantee that itself, but in `SyncCopy` deque operations are
single steps, and in `SpinDeque` `LockReleased` is about the holder only. There
is no fairness on `Kill` and `Rerun`. In `Containers` a thread inside a call is
scheduled, none needs to call, and a woken thread may lose the flag to another one
(each thread calls once, so not for ever). In `Driver` both threads are scheduled and
the user need not answer. In `CrashHandler` the threads inside the filter and its
lookups are scheduled; nobody needs to crash, and modules need not be loaded.

`CHECK_DEADLOCK` is on except in two runs: `containers`, where deadlock is what
`DeadlockNeedsCycle` and `CallsReturn` are about, and `crash`, where a fault inside the
handler stops it.

## Proofs

Each theorem is of the form `Spec => []Inv` for an invariant of a run (but for
`DequeIsAtomic`, a refinement, and `FileTotalsAgree`, of which a run checks a weaker
form). Hardly any of these invariants is inductive as it stands; what follows
names the strengthening and why it is needed.
Proofs have one lemma per inductive conjunct (`...Next`) and, below it, a case
per action that can disturb it.

The three modules about `SyncCopy` assume `ThreadAssumption` (finitely many threads,
at least one sorter; the code starts four), `InputAssumption` and `TreeAssumption` (finitely
many paths; the input and output trees are trees: what is above a file or directory is a
directory; sizes fit a `size_t`) and those of `FileTree`. Trees, options, faults, numbers of
threads and of runs are arbitrary. `PlainPaths` (module `SyncCopyPlain`) says that no path is
given with a separator at its end; instances with one are only model-checked.

`SyncCopyProof`:

* `TypeCorrect == Spec => []TypeOK`. `TypeOK` includes `HoldsPath`, that a thread about to
  push, compare or write a file holds one and not the result of a `get_pop_front` that
  found nothing; without it the types are not inductive.
* `Drained == Spec => []WorkersDrain`. `WorkersDrain` needs `Protocol`: no
  worker before the threads are spawned, all sorters done before deletions are
  queued, `_doneStuff` only after that, and what each of the three reads of a
  worker has established by the time of the next one. That `_doneStuff` is
  read first is what makes the invariant inductive.
* `OneOwnerAlways == Spec => []OneOwner`. `Ownership` says it by membership instead of
  counting: lists without repetitions, disjoint from each other and from what threads
  hold; `NotStarted` says that nothing is held when the lists are made.
* `NumbersBalance == Spec => []Conservation`, by counting over finite sets: each step moves
  one element from one summand to another. That a worker's error is a new one comes from
  `Owned`: a file whose copy failed is with nobody.
* `FileTotalsAgree == Spec => []FilesAgree`, the half of `TotalsAgree` about files, also for
  -m and after a race. `Joined`: no worker is left when `Copy` removes directories.

`SyncTreeProof`:

* `TornFilesReported == Spec => []TornAccounted`, with the input tree never torn (`TornInv`).
* `Flow` is what a file's way through the threads does to the trees: what is on its
  way and not yet renamed is in the input tree as it was, the sorters have emptied the list
  when they are joined. `Picture` adds what the lists mean: what is in `OFilesSet`,
  `toDelete` and `_deleteQueue` has no match, unless the program was misled, and
  what has a match has been struck out or will be.
* `MatchedFilesKept == Spec => []MatchedKept`, from `Picture`.
* `InputNeverLost == Spec => []NoDataLost`, from `Picture` and `DataKept`: what was
  renamed is in the output tree and no later copy, deletion or removal of a directory
  touches it.

`SyncResultProof`:

* `NewerFilesKept == Spec => []NewerKept`. `NewerSafe`: a newer file is as it was and
  is `Skipped`, on no way to be copied and still to be found by the sorter that looks for it.
* `ErrorsHaveCauses == Spec => []NoSpuriousErrors`. `Layout`: in compatible trees the directories
  above every file on its way exist or are about to be created, so it can be written.
* `UnmatchedFilesDeleted`: `UnmatchedDeleted` for `OutputPrefix = <<>>` (with another
  prefix it is false, see above). `Deleted`: what has no match
  is `Doomed`, in the list, the queue or a worker's hand, until it is gone.
* `AllFilesAccounted == Spec => []EveryFileAccounted`. `Accounted` consists of `Known`
  (nothing appears that neither tree had), `DirsArrive`, `Present` (what a sorter takes for
  a match is one) and `Progress` (every input file is settled, or somebody has it and its
  output is as it was).
* `SecondRunIdle == Spec => []Idempotent`. `Idle`: in a second run every input file is
  `Skipped`; at a restart this follows from `Accounted` at the end of the first run.
* `TotalsAlwaysAgree == Spec => []TotalsAgree`. `BytesBalance` is `Conservation` in bytes:
  `bytesToCopy` and what is pushed but not announced, against `bytesCopied` and what is
  queued, written or failed, modulo `SizeMod`, if no `file_size` can fail (otherwise the
  theorem is about files alone). `Written` and `Delivered` say that the size read
  after the copy is that of the input file. Since induction over data is out of reach, a sum
  over a set is given by the chain of its partial sums (`IsSum`), and the lemmas
  `SumAdds` and `SumDrops` build the chain for one file more or less.

`SpinDequeProof` (assumption: `NoValue` is no value):

* `MutualExclusion == Spec => []Mutex`. The inductive invariant is `TypeOK`,
  `Mutex` and `PopStable`: `front` and `pop_front` keep the types only on a
  deque that is not empty.
* `DequeIsAtomic == Spec => Linearizable`: `Init` maps to the abstract `Init`
  and each step to `Invoke`, `Perform`, `Respond` or a stutter, given `Mutex`
  and `PopStable`.
* `PopsWhatItRead == Spec => []PopStable`, from the same invariant.

`ContainersProof` (assumption: `ContainerAssumption`):

* `LocksExclude == Spec => []Exclusive`. The inductive invariant `LockInv` is `Shape`
  (types, and the form of the call a thread is in), `Count` (a thread's place and its
  number of locks agree: none outside a call, all of them at `test` and `act`; two
  locks are of two objects) and `Owners` (a flag is set exactly while held, by one
  thread).
* `TestsHold == Spec => []TestedStaysTrue`: while one thread is between test and act,
  another that acts holds other flags, by `LocksExclude`, and so writes other objects.
* `DeadlockOnlyByCycle == Spec => []DeadlockNeedsCycle`. If the arguments of a set of
  threads in deadlock could be ordered by a rank up to `MaxRank`, each would wait for an
  object of a rank above one that it holds itself (a thread with one lock to take holds
  nothing and nobody waits for it); take the greatest rank waited for: its holder waits for
  a greater one.

`ReconstituteProof` (assumption: `ReconstituteAssumption`; of the trees it says that in the
first folder itself nothing lies below a link, and that paths are enough to hold a file
copied into a directory of its name):

* `OthersStay == Spec => []OthersKept` and `LinkTargetsStay == Spec => []LinkTargetsKept`.
  `Standing`: links are only those of the start, and the one in work is in the folder
  itself or seen through another.
* `AtMostOneHole == Spec => []OneHoleAtMost`. `Under`: nothing lies below a junction or below
  the one in work before the copy, hence what is there afterwards is exactly the image of
  the source, file or directory.
* `JunctionsReplaced == Spec => []ReplacedInOrder`. `Walked`: what has been listed of each
  folder. `Settled`: of the junctions, those behind the loop are resolved, and those before
  it are as they were.

`DriverProof` (assumptions: `DriverAssumption`; `OptionAssumption`: what is meant as an
option is its text, without another option's in it but for the `-d` in `--debug`); the
folders may have any depth:

* `OptionsAsMeant == Spec => []ParsedAsMeant`, for command lines of any length. `Parsed`:
  what the loop has made of the arguments before `i`.
* `OnlyNamedRemoved == Spec => []RemovesOnlyNamed`. `NamedOnly`: every list holds named
  paths; `Answered`: nothing is removed before the answer.
* `RemovalReported == Spec => []RemovedOrReported`. `Remaining`: what was found is on a
  list until it is gone.
* `SearchFindsAll == Spec => []SearchComplete`. `SearchSoFar`: the matches among the entries met.
* `FinalTotals == Spec => []FinalReport`. `Totals`: files are conserved in the copying
  thread, and `main` reads last after the join; the bytes enter only where no size was odd.
* `TimesAddUp == Spec => []TimeExact`, for all units that divide each other
  and all times.

`CrashHandlerProof` (assumptions: `PdbAssumption`, `CrashAssumption`, `ModuleAssumption`:
images do not overlap):

* `ComUndone == Spec => []ComPaired`. `ComInv`: a thread in a lookup holds the mutex, so the
  balance is that of one lookup; it is 0 before `CoInitializeEx` and at most 1 after it, and a
  balance of 1 with the mutex free was left by an exception.
* `LogsAreWhole == Spec => []LogOfOneCrash`. `LogInv`: one thread at most is in the part
  that the mutex protects (`Owner`), a thread that has not opened a log has printed nothing
  (`Unopened`), the log of the thread that prints holds exactly the sections before
  its own and only its lines (`Current`), all logs are prefixes of the sections in order
  (`Ordered`), and a thread past the last section left a complete log or another one has
  opened that file since (`Completed`). Steps that print nothing are treated together
  (`Quiet`).
* `FramesInModules == Spec => []FramesAttributed`. `ListInv`: a module that stays loaded is in
  the list that was enumerated and then in the sorted one, and the sorted one is by
  address; of such a list the search returns the only module the address can lie in. After a
  failed enumeration `kept` is empty, and only the second half remains: a module that is
  printed is one the address lies in.

Only model-checked: liveness (`Termination`, `LockReleased`, `CallsReturn`, `MainEnds`,
`CrashEnds`), because the installed provers handle neither fairness nor `ENABLED`.
Induction over data and `RECURSIVE` operators are out of the provers' reach as well; no
module here uses them.

## Not modelled

`ThreadSafe.h` (included by nothing, and its `ts_set` does not compile when used);
`Helper_CreateDirs`, `Wait`, `GetSize`, `dump_symbols` (no caller); `~Functions` (destroys
members a second time, which is undefined and has no state to model);
`ThreadSafeVarVector` and the operations of `ts_deque` that return iterators or
references (one lock each; what is returned outlives it); the layout of console output
and crash logs; a rename across volumes as MSVC carries it out (copy and delete, not atomic);
paths that end in a separator for names of one character and for `ReconstitueSymlinks`;
build files.

## Plan

1. `SyncCopy`, `SpinDeque` and their first theorems: done.
2. `Containers`, `Reconstitute`, `Driver`, `TimeFormat`, `PdbLookup`, `CrashHandler`, their
   runs, and the theorems of `ContainersProof` and `CrashHandlerProof`: done.
3. Theorems for all invariants of `SyncCopy`: done.
4. Theorems for all invariants of `Reconstitute`, `Driver` and `CrashHandler`: done.
5. An abstract specification of a synchronisation (each file copied, skipped or
   failed in one step) and `SyncCopy` as its refinement.
