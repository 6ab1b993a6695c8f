------------------------------ MODULE SyncCopy ------------------------------
(***************************************************************************)
(* Functions::Copy (src/src/Functions.cpp): synchronise an output tree     *)
(* with an input tree.                                                     *)
(*                                                                         *)
(* The thread that calls Copy lists both trees, creates the missing        *)
(* directories, starts the workers (DoStuff, one per processor) and the    *)
(* sorters (Helper_SortFiles, four in the code), joins the sorters, queues *)
(* the deletions, sets _doneStuff, joins the workers and removes the       *)
(* directories without match.  Sorters take files from IFilesSet, compare  *)
(* them with the output tree and push the ones to copy on _copyQueue;      *)
(* workers pop _copyQueue and _deleteQueue.                                *)
(*                                                                         *)
(* The operations of ts_deque are atomic here (module SpinDeque shows      *)
(* why).  OFilesSet is a plain boost::unordered_set that the sorters use   *)
(* without a lock: its operations take two steps and may disturb each      *)
(* other.  Counters are std::atomic.                                       *)
(*                                                                         *)
(* The process may be killed and started again with the same arguments;    *)
(* the two trees are all that survives.                                    *)
(***************************************************************************)
EXTENDS FileTree

CONSTANTS
    Workers,        \* the DoStuff threads; empty for -p0
    Sorters,        \* the Helper_SortFiles threads
    OutputPrefix,   \* _outputPrefix as path components; <<>> for "."
    InputSlash,     \* the input trees whose path is given with a separator
    OutputSlash,    \* at its end, and the output trees
    Chop,           \* a name of two or more characters without the first
    InTrees,        \* the input trees a run may start with
    OutTrees,       \* the output trees a run may start with
    Options,        \* the option records a run may start with
    Faults,         \* which calls of the operating system may fail
    CopyKeepsTime,  \* copy_file carries the modification time over (Windows)
    MaxRuns         \* how often the program is started

Option == [deletewithoutmatch: BOOLEAN, overwriteexisting: BOOLEAN,
           force: BOOLEAN, move: BOOLEAN]

\* Copy starts four sorters, whatever the arguments.
ASSUME ThreadAssumption ==
    IsFiniteSet(Workers) /\ IsFiniteSet(Sorters) /\ Sorters # {}

ASSUME InputAssumption ==
    /\ IsFiniteSet(Path)
    /\ <<>> \notin Path
    /\ OutputPrefix \in Seq(Name)
    /\ InTrees \subseteq Tree /\ OutTrees \subseteq Tree
    /\ Options \subseteq Option
    /\ Faults \subseteq {"scan", "stat", "mkdir", "copy", "remove", "kill"}
    /\ CopyKeepsTime \in BOOLEAN
    /\ MaxRuns \in Nat

\* The trees are trees, their files hold what they held before, and the size
\* of a file is a size_t.
ASSUME TreeAssumption ==
    /\ \A t \in InTrees \cup OutTrees :
          WellFormed(t) /\ \A p \in Path : t[p].size < SizeMod
    /\ \A t \in InTrees, p \in Path :
          t[p].from = IF t[p].kind = "file" THEN "in" ELSE "none"
    /\ \A t \in OutTrees, p \in Path :
          t[p].from = IF t[p].kind = "file" THEN "out" ELSE "none"

\* What is left of a path, and of several, when the prefix is cut off.  The
\* prefix is the given path and a separator; a given path that ends in one is
\* a character shorter in the listing than in the prefix, and the cut takes
\* the first character of the entry with it.
Chopped(p) == <<Chop[Head(p)]>> \o Tail(p)

CutSet(slash, S) == IF slash THEN {Chopped(p) : p \in S} ELSE S

CutSeqs(slash, Q) ==
    IF slash THEN {[i \in DOMAIN q |-> Chopped(q[i])] : q \in Q} ELSE Q

\* What is left of a name is a name, and where the input is cut not that of
\* a directory.
ASSUME SlashAssumption ==
    /\ InputSlash \subseteq InTrees /\ OutputSlash \subseteq OutTrees
    /\ Chop \in [DOMAIN Chop -> Name]
    /\ \A p \in Path : Head(p) \in DOMAIN Chop => Chopped(p) \in Path
    /\ InputSlash \cup OutputSlash # {} =>
          \A t \in InTrees \cup OutTrees : \A p \in Entries(t) : Head(p) \in DOMAIN Chop
    /\ \A t \in InputSlash : \A p \in Entries(t) : Chopped(p) \notin Dirs(t)

VARIABLES
    inp, out,       \* the two trees on disk
    in0, out0,      \* history: the trees before the first run
    opts,           \* the arguments of Copy
    run,            \* history: the number of this run
    phase,          \* where the thread that calls Copy is
    IFilesSet,      \* ts_deque of the input files not yet sorted
    OFilesSet,      \* the output files not yet matched
    IDirSet,        \* the input directories not yet handled
    ODirSet,        \* the output directories not yet matched
    toDelete,       \* what the loop that queues deletions has left
    copyQueue, deleteQueue,
    doneStuff,
    errors,         \* <<"copy" or "delete", path>> of every recorded error
    filesToCopy, bytesToCopy, filesCopied, bytesCopied,
    spc, sfile,     \* each sorter: where it is, the file it holds
    found,          \* each sorter: what OFilesSet.contains returned
    clash,          \* the sorters whose access to OFilesSet is disturbed
    wpc, hand,      \* each worker: where it is, the path it holds
    misled,         \* history: what gave the program a wrong picture, ever:
                    \* an incomplete listing ("in", "out"), a failed status
                    \* call ("stat"), a race on OFilesSet ("race")
    clean           \* history: every earlier run finished without errors

trees    == <<inp, out>>
history  == <<in0, out0, opts, run>>
lists    == <<IFilesSet, OFilesSet, IDirSet, ODirSet, toDelete>>
queues   == <<copyQueue, deleteQueue>>
counters == <<filesToCopy, bytesToCopy, filesCopied, bytesCopied>>
sorting  == <<spc, sfile, found, clash>>
working  == <<wpc, hand>>
ghosts   == <<misled, clean>>

vars == <<trees, history, phase, lists, queues, doneStuff, errors, counters,
          sorting, working, ghosts>>

NoPath == <<>>

InitRun ==
    /\ phase = "scanIn"
    /\ IFilesSet = <<>> /\ OFilesSet = {} /\ IDirSet = {} /\ ODirSet = {}
    /\ toDelete = {}
    /\ copyQueue = <<>> /\ deleteQueue = <<>>
    /\ doneStuff = FALSE
    /\ errors = {}
    /\ filesToCopy = 0 /\ bytesToCopy = 0
    /\ filesCopied = 0 /\ bytesCopied = 0
    /\ spc = [s \in Sorters |-> "unborn"]
    /\ sfile = [s \in Sorters |-> NoPath]
    /\ found = [s \in Sorters |-> FALSE]
    /\ clash = {}
    /\ wpc = [w \in Workers |-> "unborn"]
    /\ hand = [w \in Workers |-> NoPath]

Init ==
    /\ inp \in InTrees /\ out \in OutTrees
    /\ in0 = inp /\ out0 = out
    /\ opts \in Options
    /\ run = 1
    /\ misled = {} /\ clean = TRUE
    /\ InitRun

-----------------------------------------------------------------------------
(***************************************************************************)
(* Plausible mistakes.  No action uses these; each, put in the place of    *)
(* the definition its comment names, breaks a property of SyncCopyProps.   *)
(***************************************************************************)

\* Spawn: the threads start while directories are still being created.
SpawnEarly ==
    /\ phase = "dirs" /\ phase' = "sort"
    /\ wpc' = [w \in Workers |-> "loop"] /\ spc' = [s \in Sorters |-> "loop"]
    /\ UNCHANGED <<out, lists, deleteQueue, doneStuff, misled>>

\* SetDone: _doneStuff stays false.
SetDoneForgotten ==
    /\ phase = "queue" /\ toDelete = {} /\ phase' = "joinWork"
    /\ UNCHANGED <<out, lists, deleteQueue, doneStuff, spc, wpc, misled>>

\* SorterPop: front() for get_pop_front().
SorterPeek(s) ==
    /\ spc[s] = "pop" /\ IFilesSet # <<>>
    /\ sfile' = [sfile EXCEPT ![s] = Head(IFilesSet)]
    /\ spc' = [spc EXCEPT ![s] = "find"]
    /\ UNCHANGED <<IFilesSet, OFilesSet, copyQueue, filesToCopy, bytesToCopy,
                   found, clash, misled>>

\* MustCopy: equal times are taken for equal files.
MustCopyIgnoringSize(ITime, OTime, f) ==
    \/ ITime > OTime
    \/ ITime < OTime /\ opts.force
    \/ ITime = OTime /\ opts.overwriteexisting

\* MustCopy: every difference in time is a reason to copy.
MustCopyOlderToo(ITime, OTime, f) == ITime # OTime \/ opts.overwriteexisting

\* Account: the size is that of the output file; only files that had a match
\* are announced.
AccountWith(s, size, files) ==
    /\ spc[s] = "account"
    /\ bytesToCopy' = (bytesToCopy + size) % SizeMod
    /\ filesToCopy' = filesToCopy + files
    /\ spc' = [spc EXCEPT ![s] = IF found[s] THEN "erase" ELSE "loop"]
    /\ UNCHANGED <<IFilesSet, OFilesSet, copyQueue, sfile, found, clash, misled>>

AccountOutput(s) == AccountWith(s, FileSize(out, sfile[s]), 1)

AccountMatched(s) ==
    AccountWith(s, FileSize(inp, sfile[s]), IF found[s] THEN 1 ELSE 0)

\* PopCopy: on an empty queue get_pop_front returns an empty name.
PopCopyUnchecked(w) ==
    /\ wpc[w] = "popCopy"
    /\ hand' = [hand EXCEPT ![w] = IF copyQueue = <<>> THEN NoPath ELSE Head(copyQueue)]
    /\ copyQueue' = IF copyQueue = <<>> THEN <<>> ELSE Tail(copyQueue)
    /\ wpc' = [wpc EXCEPT ![w] = "copy"]
    /\ UNCHANGED <<trees, deleteQueue, errors, filesCopied, bytesCopied>>

\* EraseEnd: a file that has a match stays in OFilesSet.
EraseForgotten(s) ==
    /\ spc[s] = "erasing"
    /\ spc' = [spc EXCEPT ![s] = "loop"] /\ clash' = clash \ {s}
    /\ UNCHANGED <<OFilesSet, IFilesSet, copyQueue, filesToCopy, bytesToCopy,
                   sfile, found, misled>>

\* WorkerLoop: while (!_doneStuff), whatever the queues hold.
WorkerLoopFlagOnly(w) ==
    /\ wpc[w] = "loop"
    /\ wpc' = [wpc EXCEPT ![w] = IF doneStuff THEN "done" ELSE "popCopy"]
    /\ UNCHANGED <<trees, queues, errors, filesCopied, bytesCopied, hand>>

\* WorkerCheckDelete: the loop condition leaves _deleteQueue out.
WorkerIgnoresDeletes(w) ==
    /\ wpc[w] = "chkDel"
    /\ wpc' = [wpc EXCEPT ![w] = "done"]
    /\ UNCHANGED <<trees, queues, errors, filesCopied, bytesCopied, hand>>

\* CopyError: the exception is swallowed.
CopyErrorSwallowed(w) ==
    wpc' = [wpc EXCEPT ![w] = "popDel"] /\ UNCHANGED errors

\* Rename: the source is deleted before the destination is written.
RenameInTwoSteps(w) ==
    /\ wpc[w] = "copy" /\ opts.move
    /\ wpc' = [wpc EXCEPT ![w] = "copying"]
    /\ inp' = [inp EXCEPT ![hand[w]] = Absent]
    /\ UNCHANGED <<out, errors, queues, filesCopied, bytesCopied, hand>>

\* Copied: the copy is dated at the beginning of time.
CopiedEpoch(n) == [n EXCEPT !.time = 0]

-----------------------------------------------------------------------------
(***************************************************************************)
(* The thread that calls Copy                                              *)
(***************************************************************************)

\* What no step of this thread touches.
mainFrame == <<inp, history, copyQueue, errors, counters, sfile, found, clash,
               hand, clean>>

\* GetFiles: all entries, or what was reported before an iteration error.
Listings(t) ==
    IF "scan" \in Faults THEN PartialListings(t) ELSE {Entries(t)}

\* thr1 and Helper_IFiles, Helper_IDirSet.  Threads thr1 and thr2 share
\* nothing and change no file, so their order is immaterial.
ScanInput ==
    /\ phase = "scanIn"
    /\ \E S \in Listings(inp) :
          /\ IFilesSet' \in CutSeqs(in0 \in InputSlash, SetToSeqs(S \cap Files(inp)))
          /\ IDirSet' = CutSet(in0 \in InputSlash, S \cap Dirs(inp))
          /\ misled' = misled \cup (IF S = Entries(inp) THEN {} ELSE {"in"})
    /\ phase' = "scanOut"
    /\ UNCHANGED <<out, OFilesSet, ODirSet, toDelete, deleteQueue, doneStuff,
                   spc, wpc>>

\* thr2 and Helper_OFiles, Helper_ODirSet.
ScanOutput ==
    /\ phase = "scanOut"
    /\ \E S \in Listings(out) :
          /\ OFilesSet' = CutSet(out0 \in OutputSlash, S \cap Files(out))
          /\ ODirSet' = CutSet(out0 \in OutputSlash, S \cap Dirs(out))
          /\ misled' = misled \cup (IF S = Entries(out) THEN {} ELSE {"out"})
    /\ phase' = "dirs"
    /\ UNCHANGED <<out, IFilesSet, IDirSet, toDelete, deleteQueue, doneStuff,
                   spc, wpc>>

\* The loop over IDirSet.  create_directories is called with an error_code:
\* it does not throw, and its failure is dropped.
HandleDir(d) ==
    /\ phase = "dirs"
    /\ d \in IDirSet
    /\ IDirSet' = IDirSet \ {d}
    /\ \/ /\ d \in ODirSet
          /\ ODirSet' = ODirSet \ {d}
          /\ UNCHANGED out
       \/ /\ d \notin ODirSet
          /\ \/ Creatable(out, d) /\ out' = CreateDirectories(out, d)
             \/ (~Creatable(out, d) \/ "mkdir" \in Faults) /\ UNCHANGED out
          /\ UNCHANGED ODirSet
    /\ UNCHANGED <<phase, IFilesSet, OFilesSet, toDelete, deleteQueue,
                   doneStuff, spc, wpc, misled>>

\* Start the workers and the sorters.
Spawn ==
    /\ phase = "dirs"
    /\ IDirSet = {}
    /\ phase' = "sort"
    /\ wpc' = [w \in Workers |-> "loop"]
    /\ spc' = [s \in Sorters |-> "loop"]
    /\ UNCHANGED <<out, lists, deleteQueue, doneStuff, misled>>

SortersJoined == \A s \in Sorters : spc[s] = "done"

\* th1.join() .. th4.join(); the loop over OFilesSet starts if -d is set.
JoinSorters ==
    /\ phase = "sort"
    /\ SortersJoined
    /\ phase' = "queue"
    /\ toDelete' = IF opts.deletewithoutmatch THEN OFilesSet ELSE {}
    /\ UNCHANGED <<out, IFilesSet, OFilesSet, IDirSet, ODirSet, deleteQueue,
                   doneStuff, spc, wpc, misled>>

\* What the code queues for the output file f: _outputPrefix + file.
DeleteEntry(f) == OutputPrefix \o f

QueueDelete(f) ==
    /\ phase = "queue"
    /\ f \in toDelete
    /\ toDelete' = toDelete \ {f}
    /\ deleteQueue' = Append(deleteQueue, DeleteEntry(f))
    /\ UNCHANGED <<out, phase, IFilesSet, OFilesSet, IDirSet, ODirSet,
                   doneStuff, spc, wpc, misled>>

SetDone ==
    /\ phase = "queue"
    /\ toDelete = {}
    /\ doneStuff' = TRUE
    /\ phase' = "joinWork"
    /\ UNCHANGED <<out, lists, deleteQueue, spc, wpc, misled>>

WorkersJoined == \A w \in Workers : wpc[w] = "done"

JoinWorkers ==
    /\ phase = "joinWork"
    /\ WorkersJoined
    /\ phase' = "rmDirs"
    /\ UNCHANGED <<out, lists, deleteQueue, doneStuff, spc, wpc, misled>>

\* remove_all on a directory without match; its failure is swallowed.
RemoveDir(d) ==
    /\ phase = "rmDirs"
    /\ opts.deletewithoutmatch
    /\ d \in ODirSet
    /\ ODirSet' = ODirSet \ {d}
    /\ \/ out' = Without(out, Below(d) \cup {d})
       \/ /\ "remove" \in Faults
          /\ \E S \in PartialRemovals(d) : out' = Without(out, S)
    /\ UNCHANGED <<phase, IFilesSet, OFilesSet, IDirSet, toDelete,
                   deleteQueue, doneStuff, spc, wpc, misled>>

\* _finished = true.
Finish ==
    /\ phase = "rmDirs"
    /\ opts.deletewithoutmatch => ODirSet = {}
    /\ phase' = "finished"
    /\ UNCHANGED <<out, lists, deleteQueue, doneStuff, spc, wpc, misled>>

-----------------------------------------------------------------------------
(***************************************************************************)
(* The sorters: Helper_SortFiles                                           *)
(***************************************************************************)

\* What no step of a sorter touches.
sorterFrame == <<trees, history, phase, IDirSet, ODirSet, toDelete,
                 deleteQueue, doneStuff, errors, filesCopied, bytesCopied,
                 working, clean>>

\* while (IFilesSet.size() > 0)
SorterLoop(s) ==
    /\ spc[s] = "loop"
    /\ spc' = [spc EXCEPT ![s] = IF IFilesSet # <<>> THEN "pop" ELSE "done"]
    /\ UNCHANGED <<IFilesSet, OFilesSet, copyQueue, filesToCopy, bytesToCopy,
                   sfile, found, clash, misled>>

\* get_pop_front; on an empty deque it throws and the loop goes on.
SorterPop(s) ==
    /\ spc[s] = "pop"
    /\ \/ /\ IFilesSet # <<>>
          /\ sfile' = [sfile EXCEPT ![s] = Head(IFilesSet)]
          /\ IFilesSet' = Tail(IFilesSet)
          /\ spc' = [spc EXCEPT ![s] = "find"]
       \/ /\ IFilesSet = <<>>
          /\ spc' = [spc EXCEPT ![s] = "loop"]
          /\ UNCHANGED <<sfile, IFilesSet>>
    /\ UNCHANGED <<OFilesSet, copyQueue, filesToCopy, bytesToCopy, found,
                   clash, misled>>

Reading == {s \in Sorters : spc[s] = "finding"}

Erasing == {s \in Sorters : spc[s] = "erasing"}

\* OFilesSet.contains(file) begins.  An erase in progress disturbs it.
FindBegin(s) ==
    /\ spc[s] = "find"
    /\ spc' = [spc EXCEPT ![s] = "finding"]
    /\ clash' = IF Erasing # {} THEN clash \cup {s} ELSE clash
    /\ misled' = misled \cup (IF Erasing # {} THEN {"race"} ELSE {})
    /\ UNCHANGED <<IFilesSet, OFilesSet, copyQueue, filesToCopy, bytesToCopy,
                   sfile, found>>

\* It returns; a disturbed search may miss the file.
FindEnd(s) ==
    /\ spc[s] = "finding"
    /\ \/ /\ sfile[s] \in OFilesSet
          /\ found' = [found EXCEPT ![s] = TRUE]
          /\ spc' = [spc EXCEPT ![s] = "stat"]
       \/ /\ sfile[s] \notin OFilesSet \/ s \in clash
          /\ found' = [found EXCEPT ![s] = FALSE]
          /\ spc' = [spc EXCEPT ![s] = "push"]
    /\ clash' = clash \ {s}
    /\ UNCHANGED <<IFilesSet, OFilesSet, copyQueue, filesToCopy, bytesToCopy,
                   sfile, misled>>

\* file_time_type::min(), what last_write_time(p, err) returns on failure.
MinTime == -1

WriteTimes(t, p) ==
    (IF p \in Entries(t) THEN {t[p].time} ELSE {MinTime})
        \cup (IF "stat" \in Faults THEN {MinTime} ELSE {})

\* file_size(p, err): size_t(-1) on failure, and nothing is recorded.
FileSizes(t, p) ==
    {FileSize(t, p)} \cup (IF "stat" \in Faults THEN {SizeMod - 1} ELSE {})

\* A newer file is copied, an older one with -f, one of the same time with -o
\* or when the sizes differ.
MustCopy(ITime, OTime, f) ==
    \/ ITime > OTime
    \/ ITime < OTime /\ opts.force
    \/ /\ ITime = OTime
       /\ opts.overwriteexisting \/ FileSize(inp, f) # FileSize(out, f)

\* Compare the two files.  No other thread touches either of them until the
\* file is queued, so this is one step.
Compare(s) ==
    /\ spc[s] = "stat"
    /\ \E ITime \in WriteTimes(inp, sfile[s]), OTime \in WriteTimes(out, sfile[s]) :
          \/ /\ \/ sfile[s] \in Files(inp) \cap Files(out)
                \/ ITime # OTime \/ opts.overwriteexisting
             /\ spc' = [spc EXCEPT ![s] =
                        IF MustCopy(ITime, OTime, sfile[s]) THEN "push" ELSE "erase"]
             /\ misled' = misled \cup
                    (IF MinTime \in {ITime, OTime} THEN {"stat"} ELSE {})
          \/ \* file_size without an error_code throws
             /\ "stat" \in Faults \/ sfile[s] \notin Files(inp) \cap Files(out)
             /\ ITime = OTime /\ ~opts.overwriteexisting
             /\ spc' = [spc EXCEPT ![s] = "loop"]
             /\ misled' = misled \cup {"stat"}
    /\ UNCHANGED <<IFilesSet, OFilesSet, copyQueue, filesToCopy, bytesToCopy,
                   sfile, found, clash>>

\* _copyQueue.push_back(file)
Push(s) ==
    /\ spc[s] = "push"
    /\ copyQueue' = Append(copyQueue, sfile[s])
    /\ spc' = [spc EXCEPT ![s] = "account"]
    /\ UNCHANGED <<IFilesSet, OFilesSet, filesToCopy, bytesToCopy, sfile,
                   found, clash, misled>>

\* The totals follow the push: a worker may have handled the file by now.
Account(s) ==
    /\ spc[s] = "account"
    /\ \E n \in FileSizes(inp, sfile[s]) :
          bytesToCopy' = (bytesToCopy + n) % SizeMod
    /\ filesToCopy' = filesToCopy + 1
    /\ spc' = [spc EXCEPT ![s] = IF found[s] THEN "erase" ELSE "loop"]
    /\ UNCHANGED <<IFilesSet, OFilesSet, copyQueue, sfile, found, clash,
                   misled>>

\* OFilesSet.erase(file) begins.  It disturbs every access in progress, and
\* another erase disturbs it.
EraseBegin(s) ==
    /\ spc[s] = "erase"
    /\ spc' = [spc EXCEPT ![s] = "erasing"]
    /\ clash' = clash \cup Reading \cup Erasing \cup
                    (IF Erasing # {} THEN {s} ELSE {})
    /\ misled' = misled \cup (IF Reading \cup Erasing # {} THEN {"race"} ELSE {})
    /\ UNCHANGED <<IFilesSet, OFilesSet, copyQueue, filesToCopy, bytesToCopy,
                   sfile, found>>

\* It returns; a disturbed erase may be undone by the other one.
EraseEnd(s) ==
    /\ spc[s] = "erasing"
    /\ \/ OFilesSet' = OFilesSet \ {sfile[s]}
       \/ s \in clash /\ UNCHANGED OFilesSet
    /\ spc' = [spc EXCEPT ![s] = "loop"]
    /\ clash' = clash \ {s}
    /\ UNCHANGED <<IFilesSet, copyQueue, filesToCopy, bytesToCopy, sfile,
                   found, misled>>

Sorter(s) ==
    /\ \/ SorterLoop(s) \/ SorterPop(s) \/ FindBegin(s) \/ FindEnd(s)
       \/ Compare(s) \/ Push(s) \/ Account(s) \/ EraseBegin(s) \/ EraseEnd(s)
    /\ UNCHANGED sorterFrame

-----------------------------------------------------------------------------
(***************************************************************************)
(* The workers: DoStuff                                                    *)
(***************************************************************************)

\* What no step of a worker touches.
workerFrame == <<history, phase, lists, doneStuff, filesToCopy, bytesToCopy,
                 sorting, ghosts>>

\* The loop condition !_doneStuff || !_copyQueue.empty() ||
\* !_deleteQueue.empty(), read from left to right: three reads, three steps.
\* The wait_for that follows gives up after 10 ms and is never notified: it
\* only delays the worker.
WorkerLoop(w) ==
    /\ wpc[w] = "loop"
    /\ wpc' = [wpc EXCEPT ![w] = IF doneStuff THEN "chkCopy" ELSE "popCopy"]
    /\ UNCHANGED <<trees, queues, errors, filesCopied, bytesCopied, hand>>

WorkerCheckCopy(w) ==
    /\ wpc[w] = "chkCopy"
    /\ wpc' = [wpc EXCEPT ![w] = IF copyQueue # <<>> THEN "popCopy" ELSE "chkDel"]
    /\ UNCHANGED <<trees, queues, errors, filesCopied, bytesCopied, hand>>

WorkerCheckDelete(w) ==
    /\ wpc[w] = "chkDel"
    /\ wpc' = [wpc EXCEPT ![w] = IF deleteQueue # <<>> THEN "popCopy" ELSE "done"]
    /\ UNCHANGED <<trees, queues, errors, filesCopied, bytesCopied, hand>>

\* _copyQueue.get_pop_front(), which throws when another worker was faster.
PopCopy(w) ==
    /\ wpc[w] = "popCopy"
    /\ \/ /\ copyQueue # <<>>
          /\ hand' = [hand EXCEPT ![w] = Head(copyQueue)]
          /\ copyQueue' = Tail(copyQueue)
          /\ wpc' = [wpc EXCEPT ![w] = "copy"]
       \/ /\ copyQueue = <<>>
          /\ wpc' = [wpc EXCEPT ![w] = "popDel"]
          /\ UNCHANGED <<hand, copyQueue>>
    /\ UNCHANGED <<trees, deleteQueue, errors, filesCopied, bytesCopied>>

\* The catch clause around rename and copy_file.
CopyError(w) ==
    /\ errors' = errors \cup {<<"copy", hand[w]>>}
    /\ wpc' = [wpc EXCEPT ![w] = "popDel"]

\* A file that exists is put where a file may stand.
Copyable(p) == p \in Files(inp) /\ Writable(out, p)

\* rename, with -m, on one volume: the file is in one tree or in the other.
\* From one volume to another it fails as "copy" faults do (POSIX); that of
\* Windows copies and deletes there, which is left out.
Rename(w) ==
    /\ wpc[w] = "copy"
    /\ opts.move
    /\ \/ /\ Copyable(hand[w])
          /\ out' = [out EXCEPT ![hand[w]] = inp[hand[w]]]
          /\ inp' = [inp EXCEPT ![hand[w]] = Absent]
          /\ wpc' = [wpc EXCEPT ![w] = "count"]
          /\ UNCHANGED errors
       \/ /\ ~Copyable(hand[w]) \/ "copy" \in Faults
          /\ CopyError(w)
          /\ UNCHANGED trees
    /\ UNCHANGED <<queues, filesCopied, bytesCopied, hand>>

\* copy_file opens and truncates its destination ...
CopyBegin(w) ==
    /\ wpc[w] = "copy"
    /\ ~opts.move
    /\ \/ /\ Copyable(hand[w])
          /\ out' = [out EXCEPT ![hand[w]] = Torn]
          /\ wpc' = [wpc EXCEPT ![w] = "copying"]
          /\ UNCHANGED errors
       \/ /\ ~Copyable(hand[w]) \/ "copy" \in Faults
          /\ CopyError(w)
          /\ UNCHANGED out
    /\ UNCHANGED <<inp, queues, filesCopied, bytesCopied, hand>>

\* ... and fills it, or fails half way.  A destination that was removed
\* meanwhile stays removed.
Copied(n) == IF CopyKeepsTime THEN n ELSE [n EXCEPT !.time = Now]

CopyEnd(w) ==
    /\ wpc[w] = "copying"
    /\ \/ /\ \/ /\ out[hand[w]].kind = "file"
                /\ out' = [out EXCEPT ![hand[w]] = Copied(inp[hand[w]])]
             \/ out[hand[w]].kind # "file" /\ UNCHANGED out
          /\ wpc' = [wpc EXCEPT ![w] = "count"]
          /\ UNCHANGED errors
       \/ /\ "copy" \in Faults
          /\ CopyError(w)
          /\ UNCHANGED out
    /\ UNCHANGED <<inp, queues, filesCopied, bytesCopied, hand>>

\* _filesCopied++ and _bytesCopied += file_size(_outputPrefix + copy, err)
Count(w) ==
    /\ wpc[w] = "count"
    /\ filesCopied' = filesCopied + 1
    /\ \E n \in FileSizes(out, hand[w]) :
          bytesCopied' = (bytesCopied + n) % SizeMod
    /\ wpc' = [wpc EXCEPT ![w] = "popDel"]
    /\ UNCHANGED <<trees, queues, errors, hand>>

PopDelete(w) ==
    /\ wpc[w] = "popDel"
    /\ \/ /\ deleteQueue # <<>>
          /\ hand' = [hand EXCEPT ![w] = Head(deleteQueue)]
          /\ deleteQueue' = Tail(deleteQueue)
          /\ wpc' = [wpc EXCEPT ![w] = "remove"]
       \/ /\ deleteQueue = <<>>
          /\ wpc' = [wpc EXCEPT ![w] = "loop"]
          /\ UNCHANGED <<hand, deleteQueue>>
    /\ UNCHANGED <<trees, copyQueue, errors, filesCopied, bytesCopied>>

\* remove(_outputPrefix + del): relative to the output tree the path is del,
\* which begins with the output prefix already.  Removing what does not exist
\* is no error; removing a file that another worker is writing may fail
\* (Windows) or succeed (elsewhere).
InUse(p) == \E w \in Workers : wpc[w] = "copying" /\ hand[w] = p

RemoveFile(w) ==
    /\ wpc[w] = "remove"
    /\ \/ /\ hand[w] \in Path => Removable(out, hand[w])
          /\ out' = Without(out, {hand[w]})
          /\ UNCHANGED errors
       \/ /\ hand[w] \in Path
          /\ \/ ~Removable(out, hand[w]) \/ InUse(hand[w])
             \/ "remove" \in Faults
          /\ errors' = errors \cup {<<"delete", hand[w]>>}
          /\ UNCHANGED out
    /\ wpc' = [wpc EXCEPT ![w] = "loop"]
    /\ UNCHANGED <<inp, queues, filesCopied, bytesCopied, hand>>

Worker(w) ==
    /\ \/ WorkerLoop(w) \/ WorkerCheckCopy(w) \/ WorkerCheckDelete(w)
       \/ PopCopy(w) \/ Rename(w) \/ CopyBegin(w) \/ CopyEnd(w) \/ Count(w)
       \/ PopDelete(w) \/ RemoveFile(w)
    /\ UNCHANGED workerFrame

-----------------------------------------------------------------------------
(***************************************************************************)
(* The whole program, run up to MaxRuns times                              *)
(***************************************************************************)

\* A new process: InitRun, and the trees as they are.
Restart ==
    /\ run < MaxRuns
    /\ run' = run + 1
    /\ phase' = "scanIn"
    /\ IFilesSet' = <<>> /\ OFilesSet' = {} /\ IDirSet' = {} /\ ODirSet' = {}
    /\ toDelete' = {}
    /\ copyQueue' = <<>> /\ deleteQueue' = <<>>
    /\ doneStuff' = FALSE
    /\ errors' = {}
    /\ filesToCopy' = 0 /\ bytesToCopy' = 0
    /\ filesCopied' = 0 /\ bytesCopied' = 0
    /\ spc' = [s \in Sorters |-> "unborn"]
    /\ sfile' = [s \in Sorters |-> NoPath]
    /\ found' = [s \in Sorters |-> FALSE]
    /\ clash' = {}
    /\ wpc' = [w \in Workers |-> "unborn"]
    /\ hand' = [w \in Workers |-> NoPath]

\* The process dies: killed, brought down by the race on OFilesSet, or ended
\* by the exception of a directory iterator that cannot be constructed, which
\* no catch surrounds.
Kill ==
    /\ \/ "kill" \in Faults
       \/ "scan" \in Faults /\ phase \in {"scanIn", "scanOut"}
    /\ phase # "finished"
    /\ Restart
    /\ clean' = FALSE
    /\ UNCHANGED <<trees, in0, out0, opts, misled>>

Rerun ==
    /\ phase = "finished"
    /\ Restart
    /\ clean' = (clean /\ errors = {})
    /\ UNCHANGED <<trees, in0, out0, opts, misled>>

Main ==
    /\ \/ ScanInput \/ ScanOutput \/ (\E d \in Path : HandleDir(d)) \/ Spawn
       \/ JoinSorters \/ (\E f \in Path : QueueDelete(f)) \/ SetDone
       \/ JoinWorkers \/ (\E d \in Path : RemoveDir(d)) \/ Finish
    /\ UNCHANGED mainFrame

\* The last run is over.
Terminated == phase = "finished" /\ run = MaxRuns /\ UNCHANGED vars

Next ==
    \/ Main
    \/ \E s \in Sorters : Sorter(s)
    \/ \E w \in Workers : Worker(w)
    \/ Kill \/ Rerun \/ Terminated

Spec == Init /\ [][Next]_vars

\* Every thread that can take a step is eventually scheduled.
FairSpec ==
    /\ Spec
    /\ WF_vars(Main)
    /\ \A s \in Sorters : WF_vars(Sorter(s))
    /\ \A w \in Workers : WF_vars(Worker(w))
=============================================================================
