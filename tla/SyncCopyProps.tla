--------------------------- MODULE SyncCopyProps ----------------------------
(***************************************************************************)
(* What Functions::Copy has to get right, stated over SyncCopy.  Where the  *)
(* program does otherwise, the excuse has a name (Undisturbed, Rematched,  *)
(* SafePrefix, PlainPath, clean).                                          *)
(***************************************************************************)
EXTENDS SyncCopy

Phases == {"scanIn", "scanOut", "dirs", "sort", "queue", "joinWork", "rmDirs",
           "finished"}

SorterPCs == {"unborn", "loop", "pop", "find", "finding", "stat", "push",
              "account", "erase", "erasing", "done"}

WorkerPCs == {"unborn", "loop", "chkCopy", "chkDel", "popCopy", "copy",
              "copying", "count", "popDel", "remove", "done"}

TreesOK ==
    /\ inp \in Tree /\ out \in Tree /\ in0 \in Tree /\ out0 \in Tree
    /\ opts \in Option
    /\ run \in Nat

ListsOK ==
    /\ IFilesSet \in Seq(Path)
    /\ OFilesSet \subseteq Path /\ toDelete \subseteq Path
    /\ IDirSet \subseteq Path /\ ODirSet \subseteq Path

QueuesOK ==
    /\ copyQueue \in Seq(Path)
    /\ deleteQueue \in Seq(Seq(Name))
    /\ errors \subseteq ({"copy", "delete"} \X Seq(Name))

CountersOK ==
    /\ filesToCopy \in Nat /\ bytesToCopy \in 0 .. SizeMod - 1
    /\ filesCopied \in Nat /\ bytesCopied \in 0 .. SizeMod - 1

ControlOK ==
    /\ phase \in Phases
    /\ doneStuff \in BOOLEAN /\ clean \in BOOLEAN
    /\ misled \subseteq {"in", "out", "stat", "race"}

SortersOK ==
    /\ spc \in [Sorters -> SorterPCs]
    /\ sfile \in [Sorters -> Path \cup {NoPath}]
    /\ found \in [Sorters -> BOOLEAN]
    /\ clash \subseteq Sorters

WorkersOK ==
    /\ wpc \in [Workers -> WorkerPCs]
    /\ hand \in [Workers -> Seq(Name)]

\* A thread that is about to use the path it holds holds one.
HoldsPath ==
    /\ \A s \in Sorters :
          sfile[s] \in Path \/ spc[s] \in {"unborn", "loop", "pop", "done"}
    /\ \A w \in Workers :
          wpc[w] \in {"copy", "copying", "count"} => hand[w] \in Path

\* The types of all variables, and that no thread uses the result of a
\* get_pop_front that found the queue empty.
TypeOK ==
    /\ TreesOK /\ ListsOK /\ QueuesOK /\ CountersOK
    /\ ControlOK /\ SortersOK /\ WorkersOK
    /\ HoldsPath

-----------------------------------------------------------------------------
(***************************************************************************)
(* The queues and the threads around them                                  *)
(***************************************************************************)

\* A worker leaves DoStuff only when nothing can be queued any more and both
\* queues are empty.  It reads _doneStuff, _copyQueue.empty() and
\* _deleteQueue.empty() one after the other while others push and pop; that
\* _doneStuff is read first is what makes it right.
WorkersDrain ==
    \A w \in Workers :
        wpc[w] = "done" => doneStuff /\ copyQueue = <<>> /\ deleteQueue = <<>>

\* How WorkersDrain comes about: the order in which the thread that calls Copy
\* joins the sorters, empties toDelete and sets _doneStuff, and what each of
\* the three reads of a worker has established when the next one is due.
Protocol ==
    /\ phase \in {"scanIn", "scanOut", "dirs"} =>
          \A w \in Workers : wpc[w] = "unborn"
    /\ phase \in {"queue", "joinWork", "rmDirs", "finished"} =>
          \A s \in Sorters : spc[s] = "done"
    /\ doneStuff => phase \in {"joinWork", "rmDirs", "finished"}
    /\ \A w \in Workers :
          /\ wpc[w] \in {"chkCopy", "chkDel", "done"} => doneStuff
          /\ wpc[w] \in {"chkDel", "done"} => copyQueue = <<>>
          /\ wpc[w] = "done" => deleteQueue = <<>>

\* Where the input file p is on its way through the program.
InList(p)    == {i \in DOMAIN IFilesSet : IFilesSet[i] = p}
InQueue(p)   == {i \in DOMAIN copyQueue : copyQueue[i] = p}
Sorting(p)   == {s \in Sorters : /\ sfile[s] = p
                                 /\ spc[s] \in {"find", "finding", "stat", "push"}}
Copying(p)   == {w \in Workers : hand[w] = p /\ wpc[w] \in {"copy", "copying"}}

\* Every input file is in one place: listed, with one sorter, queued once or
\* with one worker.  So no file is handled twice and no two workers write the
\* same output file at the same time.
OneOwner ==
    \A p \in Path :
        Cardinality(InList(p)) + Cardinality(InQueue(p)) +
        Cardinality(Sorting(p)) + Cardinality(Copying(p)) <= 1

Accounting == {s \in Sorters : spc[s] = "account"}

Writing == {w \in Workers : wpc[w] \in {"copy", "copying", "count"}}

CopyErrors == {e \in errors : e[1] = "copy"}

\* The numbers the monitor prints balance at every moment: what was announced
\* in _filesToCopy is queued, being copied, counted in _filesCopied or in
\* errors.  The announcement comes after the push, hence the first summand;
\* without it a file would be counted as copied before it is announced.
Conservation ==
    filesToCopy + Cardinality(Accounting) =
        Len(copyQueue) + Cardinality(Writing) + filesCopied
        + Cardinality(CopyErrors)

-----------------------------------------------------------------------------
(***************************************************************************)
(* The trees                                                               *)
(***************************************************************************)

\* The paths of the deletions fall on the right files, or on none: see
\* DeleteEntry.
SafePrefix ==
    OutputPrefix = <<>> \/ \A f \in Path : DeleteEntry(f) \notin Path

\* Neither path was given with a separator at its end: see Chopped.
PlainPath == in0 \notin InputSlash /\ out0 \notin OutputSlash

\* Nothing made the program mistake what is in the trees.
Undisturbed == misled = {} /\ SafePrefix /\ PlainPath

\* Under -m and -d together a second run finds no match for what the first
\* run moved.
Rematched == opts.move /\ opts.deletewithoutmatch => run = 1

\* No path is a file in one tree and a directory in the other.
Compatible ==
    Files(in0) \cap Dirs(out0) = {} /\ Dirs(in0) \cap Files(out0) = {}

\* The comparison entitles the program to leave p alone.  (main sets -o with
\* -f, the test calls Copy with force alone.)
Skippable(p) ==
    /\ out[p] = out0[p] /\ p \in Files(out0)
    /\ \/ in0[p].time < out0[p].time /\ ~opts.force
       \/ /\ in0[p].time = out0[p].time
          /\ in0[p].size = out0[p].size
          /\ ~opts.overwriteexisting

\* When Copy returns, every input file has arrived, or its failure is in
\* errors, or the output file may stay as it is; and every input directory
\* exists unless a file stood in its way.  Whatever an earlier killed or
\* failed run left behind is excused.  An older output file is overwritten
\* with and without -o, as Helper_SortFiles does; what the usage text says of
\* -o is OlderOnlyByOverwrite.
EveryFileAccounted ==
    phase = "finished" /\ Undisturbed /\ Rematched /\ clean /\ Workers # {} =>
        /\ \A p \in Files(in0) :
              out[p].from = "in" \/ <<"copy", p>> \in errors \/ Skippable(p)
        /\ "mkdir" \notin Faults =>
              \A d \in Dirs(in0) : Creatable(out0, d) => d \in Dirs(out)

\* Without -f an output file newer than its input is never overwritten, not
\* even for a moment, in any run.
NewerKept ==
    ~opts.force /\ Undisturbed =>
        \A p \in Files(in0) \cap Files(out0) :
            in0[p].time < out0[p].time => out[p].from \notin {"in", "torn"}

\* No output file disappears without -d; with it none that has a match in
\* the input tree does.
MatchedKept ==
    \A p \in Files(out0) :
        \/ out[p].kind = "file"
        \/ /\ opts.deletewithoutmatch
           /\ p \notin Files(in0) \/ ~Undisturbed \/ ~Rematched

\* With -d no output file without a match is left when Copy returns.  (For the
\* output path "."; with another one DeleteEntry leads elsewhere.)
UnmatchedDeleted ==
    /\ phase = "finished" /\ opts.deletewithoutmatch
    /\ misled = {} /\ PlainPath /\ Workers # {} /\ "remove" \notin Faults
    => (Files(out0) \ Files(in0)) \cap Files(out) = {}

\* The bytes of an input file are never lost, wherever the program is killed
\* and whatever fails: they are in the input tree or, with -m, in the output
\* tree.
NoDataLost ==
    "race" \notin misled /\ SafePrefix /\ Rematched =>
        \A p \in Files(in0) :
            inp[p] = in0[p] \/ (opts.move /\ out[p] = in0[p])

\* A truncated output file is being written, or the program has said that
\* writing it failed; else an earlier run was killed or failed.
TornAccounted ==
    clean => \A p \in Files(out) :
        out[p].from = "torn" =>
            \/ \E w \in Workers : wpc[w] = "copying" /\ hand[w] = p
            \/ <<"copy", p>> \in errors

\* What the comment in Helper_SortFiles says: "if output file time is newer
\* only overwrite if force is enabled".
NewerOnlyByForce ==
    ~opts.force =>
        \A p \in Files(in0) \cap Files(out0) :
            in0[p].time < out0[p].time => out[p].from \notin {"in", "torn"}

\* What the usage text says of -o, "Overwrite older files in the Outut
\* folder", and what main prints of it: without -o (which -f implies) an older
\* output file stays.
OlderOnlyByOverwrite ==
    ~opts.overwriteexisting /\ ~opts.force =>
        \A p \in Files(in0) \cap Files(out0) :
            out0[p].time < in0[p].time => out[p].from \notin {"in", "torn"}

\* What the usage text says of -d: it deletes files "that do not have a match
\* in the input folder".
DeletesOnlyUnmatched ==
    ~opts.move => \A p \in Files(in0) \cap Files(out0) : out[p].kind = "file"

\* What the test requires after Copy: every input file is in the output
\* folder, with the same size.
SameSizeAfterCopy ==
    phase = "finished" /\ errors = {} /\ ~opts.move =>
        \A p \in Files(in0) :
            p \in Files(out) /\ FileSize(out, p) = FileSize(in0, p)

-----------------------------------------------------------------------------
(***************************************************************************)
(* What the program reports, and that it ends                              *)
(***************************************************************************)

\* When nothing fails, the totals announced and the totals written agree at
\* the end: in files, and in bytes if every size could be read (a failed
\* file_size adds size_t(-1) and leaves no error).  (Not with -m: there the
\* size is read after the file may have been moved.  Not after a race on OFilesSet either:
\* with -d a file copied by mistake is deleted before its size is read.)
TotalsAgree ==
    /\ phase = "finished" /\ ~opts.move /\ errors = {} /\ Workers # {}
    /\ "race" \notin misled /\ SafePrefix
    => /\ filesCopied = filesToCopy
       /\ "stat" \notin Faults => bytesCopied = bytesToCopy

\* No error is reported unless a call to the operating system fails, a file
\* stands where a directory belongs, or the reverse, or a race on OFilesSet
\* has a file copied and deleted at the same time.
NoSpuriousErrors ==
    /\ Faults \cap {"mkdir", "copy", "remove"} = {} /\ Compatible
    /\ SafePrefix /\ PlainPath /\ "race" \notin misled
    => errors = {}

\* Run again after a clean run, the program finds nothing to copy.
Idempotent ==
    /\ run > 1 /\ clean /\ Undisturbed /\ Workers # {} /\ "mkdir" \notin Faults
    /\ ~opts.force /\ ~opts.overwriteexisting
    /\ CopyKeepsTime \/ \A p \in Files(in0) : in0[p].time <= Now
    => filesToCopy = 0 /\ copyQueue = <<>>

\* Copy returns, in every run that is not killed.
Termination == []<>(phase = "finished")
=============================================================================
