--------------------------- MODULE SyncTreeProof ----------------------------
(***************************************************************************)
(* Proofs about what Functions::Copy does to the two trees.                *)
(***************************************************************************)
EXTENDS SyncCopyProof

USE PathAssumption, NowAssumption, SizeModAssumption, InputAssumption, PlainPaths
    DEF CutSet, CutSeqs, Copyable, PlainPath

-----------------------------------------------------------------------------
(***************************************************************************)
(* The steps of a worker, by what they do to the trees.                    *)
(***************************************************************************)

\* It moves its file,
Renames(w) ==
    /\ wpc[w] = "copy" /\ opts.move /\ Writable(out, hand[w])
    /\ out' = [out EXCEPT ![hand[w]] = inp[hand[w]]]
    /\ inp' = [inp EXCEPT ![hand[w]] = Absent]
    /\ wpc' = [wpc EXCEPT ![w] = "count"]
    /\ UNCHANGED <<hand, errors, copyQueue, deleteQueue>>

\* truncates the destination,
Truncates(w) ==
    /\ wpc[w] = "copy" /\ ~opts.move /\ Writable(out, hand[w])
    /\ out' = [out EXCEPT ![hand[w]] = Torn]
    /\ wpc' = [wpc EXCEPT ![w] = "copying"]
    /\ UNCHANGED <<inp, hand, errors, copyQueue, deleteQueue>>

\* fills it,
Fills(w) ==
    /\ wpc[w] = "copying" /\ out[hand[w]].kind = "file"
    /\ out' = [out EXCEPT ![hand[w]] = Copied(inp[hand[w]])]
    /\ wpc' = [wpc EXCEPT ![w] = "count"]
    /\ UNCHANGED <<inp, hand, errors, copyQueue, deleteQueue>>

\* removes a file,
Removes(w) ==
    /\ wpc[w] = "remove"
    /\ hand[w] \in Path => Removable(out, hand[w])
    /\ out' = Without(out, {hand[w]})
    /\ wpc' = [wpc EXCEPT ![w] = "loop"]
    /\ UNCHANGED <<inp, hand, errors, copyQueue, deleteQueue>>

\* or leaves the trees alone.
LEMMA WorkerTrees ==
    ASSUME NEW w \in Workers, Worker(w)
    PROVE  \/ Renames(w) \/ Truncates(w) \/ Fills(w) \/ Removes(w)
           \/ UNCHANGED <<inp, out>>
<1> USE DEF trees, queues
<1>1. CASE Rename(w) BY <1>1 DEF Rename, CopyError, Renames
<1>2. CASE CopyBegin(w) BY <1>2 DEF CopyBegin, CopyError, Truncates
<1>3. CASE CopyEnd(w) BY <1>3 DEF CopyEnd, CopyError, Fills
<1>4. CASE RemoveFile(w) BY <1>4 DEF RemoveFile, Removes
<1>5. CASE \/ WorkerLoop(w) \/ WorkerCheckCopy(w) \/ WorkerCheckDelete(w)
           \/ PopCopy(w) \/ Count(w) \/ PopDelete(w)
  BY <1>5 DEF WorkerLoop, WorkerCheckCopy, WorkerCheckDelete, PopCopy, Count,
              PopDelete
<1> QED BY <1>1, <1>2, <1>3, <1>4, <1>5 DEF Worker

\* What the steps of one kind of thread never change.
LEMMA MainKeeps ==
    Main => UNCHANGED <<inp, in0, out0, opts, run, copyQueue, errors, sfile, found,
                        clash, hand, clean>>
BY DEF Main, mainFrame, history

\* A sorter changes no file and leaves the workers alone.
LEMMA SorterKeeps ==
    ASSUME NEW s \in Sorters
    PROVE  Sorter(s) =>
             UNCHANGED <<inp, out, in0, out0, opts, run, phase, IDirSet, ODirSet,
                         toDelete, deleteQueue, doneStuff, errors, wpc, hand, clean>>
BY DEF Sorter, sorterFrame, trees, history, working

\* A worker leaves the listings and the sorters alone.
LEMMA WorkerKeeps ==
    ASSUME NEW w \in Workers
    PROVE  Worker(w) =>
             UNCHANGED <<in0, out0, opts, run, phase, IFilesSet, OFilesSet, IDirSet,
                         ODirSet, toDelete, doneStuff, spc, sfile, found, clash,
                         misled, clean>>
BY DEF Worker, workerFrame, history, lists, sorting, ghosts

\* A new process finds the trees as the last one left them.
LEMMA RestartKeeps ==
    Kill \/ Rerun => Restart /\ UNCHANGED <<inp, out, in0, out0, opts, misled>>
BY DEF Kill, Rerun, trees

\* Nothing changes in a stuttering step.
LEMMA StutterKeeps ==
    UNCHANGED vars \/ Terminated =>
        UNCHANGED <<inp, out, in0, out0, opts, run, phase, IFilesSet, OFilesSet,
                    IDirSet, ODirSet, toDelete, copyQueue, deleteQueue, doneStuff,
                    errors, spc, sfile, found, clash, wpc, hand, misled, clean>>
BY DEF Terminated, vars, trees, history, lists, queues, counters, sorting, working,
       ghosts

\* Directories are created where no file is.
LEMMA CreatedDirs ==
    ASSUME NEW t \in Tree, NEW d \in Path, Creatable(t, d)
    PROVE  LET u == CreateDirectories(t, d)
           IN  /\ u \in Tree
               /\ \A p \in Path : t[p].kind = "file" => u[p] = t[p]
               /\ \A p \in Path : u[p] = t[p] \/ u[p] = Dir
BY CreateDirectoriesType DEF Creatable, CreateDirectories, Tree

-----------------------------------------------------------------------------
(***************************************************************************)
(* Truncated files                                                         *)
(***************************************************************************)

\* No file of the input tree is ever a truncated one.
InputWhole == \A p \in Path : inp[p].from # "torn"

TornInv == InputWhole /\ TornAccounted

\* What the thread that calls Copy does to the output tree.
LEMMA MainTrees ==
    ASSUME Typed, Main
    PROVE  \A p \in Path : out'[p] = out[p] \/ out'[p] = Dir \/ out'[p] = Absent
<1>1. out \in Tree BY DEF Typed, TypeOK, TreesOK
<1>2. ASSUME NEW d \in Path, HandleDir(d)
      PROVE  \A p \in Path : out'[p] = out[p] \/ out'[p] = Dir
  BY <1>1, <1>2, CreatedDirs DEF HandleDir
<1>3. ASSUME NEW d \in Path, RemoveDir(d)
      PROVE  \A p \in Path : out'[p] = out[p] \/ out'[p] = Absent
  BY <1>1, <1>3 DEF RemoveDir, Without
<1>4. CASE \/ ScanInput \/ ScanOutput \/ Spawn \/ JoinSorters
           \/ (\E f \in Path : QueueDelete(f)) \/ SetDone \/ JoinWorkers \/ Finish
  BY <1>4 DEF ScanInput, ScanOutput, Spawn, JoinSorters, QueueDelete, SetDone,
              JoinWorkers, Finish
<1> QED BY <1>2, <1>3, <1>4 DEF Main

\* The thread that calls Copy truncates nothing.
LEMMA TornMain == Typed /\ NotStarted /\ TornInv /\ Main => TornInv'
<1> SUFFICES ASSUME Typed, NotStarted, TornInv, Main PROVE TornInv'
  OBVIOUS
<1>1. UNCHANGED <<inp, errors, hand, clean>>
  BY MainKeeps
<1>2. \A w \in Workers : wpc[w] = "copying" => wpc'[w] = "copying"
  BY DEF Main, ScanInput, ScanOutput, HandleDir, Spawn, JoinSorters, QueueDelete,
         SetDone, JoinWorkers, RemoveDir, Finish, NotStarted
<1>3. \A p \in Path : out'[p].from = "torn" => out'[p] = out[p]
  BY MainTrees DEF Dir, Absent
<1> QED BY <1>1, <1>2, <1>3 DEF TornInv, InputWhole, TornAccounted, Files

\* A worker that has truncated a file fills it or records an error.
LEMMA TornWorker ==
    ASSUME NEW w \in Workers, Typed, TornInv, Worker(w)
    PROVE  TornInv'
<1>0. /\ inp \in [Path -> Node] /\ out \in [Path -> Node]
      /\ wpc \in [Workers -> WorkerPCs] /\ hand \in [Workers -> Seq(Name)]
  BY DEF Typed, TypeOK, TreesOK, Tree, WorkersOK
<1>1. UNCHANGED clean
  BY WorkerKeeps
<1>2. wpc[w] \in {"copy", "copying"} => hand[w] \in Path
  BY DEF Typed, TypeOK, HoldsPath
<1>3. \A e \in errors : e \in errors'
  BY WorkerMoves DEF Takes, Fails, Writes, Counts, GoesOn
<1>4. \A v \in Workers \ {w} : wpc'[v] = wpc[v] /\ hand'[v] = hand[v]
  BY <1>0, WorkerMoves DEF Takes, Fails, Writes, Counts, GoesOn
<1>5. CASE Renames(w)
  <2>1. \A p \in Path : p # hand[w] => out'[p] = out[p] /\ inp'[p] = inp[p]
    BY <1>0, <1>2, <1>5 DEF Renames
  <2>2. out'[hand[w]] = inp[hand[w]] /\ inp'[hand[w]] = Absent
    BY <1>0, <1>2, <1>5 DEF Renames
  <2>3. wpc[w] # "copying" BY <1>5 DEF Renames
  <2>4. hand[w] \in Path BY <1>2, <1>5 DEF Renames
  <2>5. inp'[hand[w]].from # "torn" /\ out'[hand[w]].from # "torn"
    BY <2>2, <2>4 DEF TornInv, InputWhole, Absent
  <2>6. InputWhole'
    BY <2>1, <2>5 DEF TornInv, InputWhole
  <2>7. TornAccounted'
    BY <1>1, <1>3, <1>4, <2>1, <2>3, <2>5 DEF TornInv, TornAccounted, Files
  <2> QED BY <2>6, <2>7 DEF TornInv
<1>6. CASE Truncates(w)
  <2>1. \A p \in Path : p # hand[w] => out'[p] = out[p]
    BY <1>0, <1>2, <1>6 DEF Truncates
  <2>2. UNCHANGED <<inp, hand>> /\ wpc'[w] = "copying" /\ wpc[w] = "copy"
    BY <1>0, <1>6 DEF Truncates
  <2> QED BY <1>1, <1>3, <1>4, <2>1, <2>2 DEF TornInv, InputWhole, TornAccounted, Files
<1>7. CASE Fills(w)
  <2>1. \A p \in Path : p # hand[w] => out'[p] = out[p]
    BY <1>0, <1>2, <1>7 DEF Fills
  <2>2. out'[hand[w]] = Copied(inp[hand[w]]) /\ UNCHANGED inp /\ hand[w] \in Path
    BY <1>0, <1>2, <1>7 DEF Fills
  <2>3. out'[hand[w]].from = inp[hand[w]].from
    BY <1>0, <2>2 DEF Copied, Node
  <2> QED BY <1>1, <1>3, <1>4, <2>1, <2>2, <2>3
          DEF TornInv, InputWhole, TornAccounted, Files
<1>8. CASE Removes(w)
  <2>1. \A p \in Path : out'[p] = out[p] \/ out'[p] = Absent
    BY <1>8 DEF Removes, Without
  <2>2. UNCHANGED inp /\ wpc[w] # "copying"
    BY <1>8 DEF Removes
  <2> QED BY <1>1, <1>3, <1>4, <2>1, <2>2
          DEF TornInv, InputWhole, TornAccounted, Files, Absent
<1>9. CASE UNCHANGED <<inp, out>>
  <2>1. wpc[w] = "copying" =>
          \/ out[hand[w]].kind # "file"
          \/ <<"copy", hand[w]>> \in errors'
          \/ out'[hand[w]].from # "torn"
    <3>1. ASSUME wpc[w] = "copying" PROVE CopyEnd(w)
      BY <3>1 DEF Worker, WorkerLoop, WorkerCheckCopy, WorkerCheckDelete, PopCopy,
                  Rename, CopyBegin, Count, PopDelete, RemoveFile
    <3>2. ASSUME wpc[w] = "copying", out' = [out EXCEPT ![hand[w]] = Copied(inp[hand[w]])]
          PROVE  out'[hand[w]].from # "torn"
      <4>1. hand[w] \in Path BY <1>2, <3>2
      <4>2. out'[hand[w]] = Copied(inp[hand[w]]) BY <1>0, <3>2, <4>1
      <4>3. Copied(inp[hand[w]]).from = inp[hand[w]].from
        BY <1>0, <4>1 DEF Copied, Node
      <4> QED BY <4>1, <4>2, <4>3 DEF TornInv, InputWhole
    <3> QED BY <3>1, <3>2 DEF CopyEnd, CopyError
  <2> QED BY <1>1, <1>3, <1>4, <1>9, <2>1 DEF TornInv, InputWhole, TornAccounted, Files
<1> QED BY <1>5, <1>6, <1>7, <1>8, <1>9, WorkerTrees

\* A run that ends without errors leaves no truncated file.
LEMMA TornRestart ==
    TornInv /\ Joined /\ (Kill \/ Rerun) => TornInv'
<1> SUFFICES ASSUME TornInv, Joined, Kill \/ Rerun PROVE TornInv'
  OBVIOUS
<1>1. UNCHANGED <<inp, out>> BY RestartKeeps
<1>2. CASE Kill BY <1>1, <1>2 DEF Kill, TornInv, InputWhole, TornAccounted
<1>3. CASE Rerun
  BY <1>1, <1>3 DEF Rerun, TornInv, InputWhole, TornAccounted, Joined, WorkersJoined,
                    Files
<1> QED BY <1>2, <1>3

\* Every step accounts for truncated files.
LEMMA TornNext == Ownership /\ Joined /\ TornInv /\ [Next]_vars => TornInv'
<1> SUFFICES ASSUME Ownership, Joined, TornInv, [Next]_vars PROVE TornInv'
  OBVIOUS
<1>1. CASE Main BY <1>1, TornMain DEF Ownership
<1>2. ASSUME NEW s \in Sorters, Sorter(s) PROVE TornInv'
  BY <1>2, SorterKeeps DEF TornInv, InputWhole, TornAccounted, Files
<1>3. ASSUME NEW w \in Workers, Worker(w) PROVE TornInv'
  BY <1>3, TornWorker DEF Ownership
<1>4. CASE Kill \/ Rerun BY <1>4, TornRestart
<1>5. CASE UNCHANGED vars \/ Terminated
  BY <1>5, StutterKeeps DEF TornInv, InputWhole, TornAccounted, Files
<1> QED BY <1>1, <1>2, <1>3, <1>4, <1>5 DEF Next

\* Unless a run was killed or has failed, a truncated output file is one that
\* is being written or whose failure the program has reported.
THEOREM TornFilesReported == Spec => []TornAccounted
<1>1. Init => TornInv
  BY TreeAssumption DEF Init, TornInv, InputWhole, TornAccounted, Files
<1>2. Init => Joined
  BY DEF Init, InitRun, Joined
<1>3. TornInv => TornAccounted
  BY DEF TornInv
<1>4. Typed /\ Joined /\ [Next]_vars => Joined'
  BY JoinedNext
<1>5. Ownership => Typed
  BY DEF Ownership
<1> QED BY <1>1, <1>2, <1>3, <1>4, <1>5, OwnershipInit, OwnershipNext, TornNext, PTL
        DEF Spec
-----------------------------------------------------------------------------
(***************************************************************************)
(* The way of a file through the program                                   *)
(***************************************************************************)

Preparing == phase \in {"scanIn", "scanOut", "dirs"}

\* p is not in the input tree as it was: it has been moved.
Moved(p) == inp[p] # in0[p]

\* The input tree loses files to -m, and nothing else happens to it.
InputKept ==
    /\ run > 0 /\ in0 \in InTrees /\ out0 \in OutTrees
    /\ \A p \in Path :
          \/ inp[p] = in0[p]
          \/ opts.move /\ in0[p].kind = "file" /\ inp[p] = Absent

\* Output files without match are deleted, and no earlier run has moved any.
Deleting == opts.deletewithoutmatch /\ Rematched

NotYetMoved == Deleting /\ Preparing => inp = in0

\* Whatever is on its way through the program is a file of the input tree.
FilesHeld == \A p \in Path : Unowned(p) \/ p \in Files(inp)

\* A sorter keeps its file to itself until it takes the next one.
SortedOnce ==
    /\ \A s \in Sorters : sfile[s] # NoPath =>
          /\ sfile[s] \notin Range(IFilesSet)
          /\ \A r \in Sorters : sfile[r] = sfile[s] => r = s
    /\ Preparing => \A s \in Sorters : sfile[s] = NoPath

\* The sorters leave only when all files are taken.
SortersDrain ==
    /\ \A s \in Sorters : spc[s] = "done" => IFilesSet = <<>>
    /\ phase \in {"queue", "joinWork", "rmDirs", "finished"} => SortersJoined

\* Without a race no access to OFilesSet is disturbed.
NoClash == "race" \notin misled => clash = {}

\* The thread that calls Copy goes through its phases in order, and the
\* sorters start when the directories are there.
LEMMA MainPhases ==
    Main => /\ Preparing' => Preparing
            /\ phase' = "scanIn" => phase = "scanIn"
            /\ phase \in {"queue", "joinWork", "rmDirs", "finished"} =>
                  phase' \in {"queue", "joinWork", "rmDirs", "finished"}
            /\ Spawn \/ UNCHANGED <<spc, wpc>>
            /\ ScanInput \/ UNCHANGED IFilesSet
BY DEF Main, Preparing, ScanInput, ScanOutput, HandleDir, Spawn, JoinSorters,
       QueueDelete, SetDone, JoinWorkers, RemoveDir, Finish, lists

\* A walk reports the files there are.
LEMMA ScanRange ==
    ASSUME NEW S \in SUBSET Path, NEW q \in SetToSeqs(S)
    PROVE  Range(q) = S
<1>1. IsFiniteSet(S) BY FS_Subset
<1>2. Cardinality(S) \in Nat BY <1>1, FS_CardinalityType
<1> DEFINE D == 1 .. Cardinality(S)
<1>3. q \in [D -> S] /\ \A i, j \in D : i # j => q[i] # q[j]
  BY DEF SetToSeqs
<1>4. IsFiniteSet(D) /\ Cardinality(D) = Cardinality(S)
  BY <1>2, FS_Interval
<1>5. q \in Injection(D, S)
  BY <1>3 DEF Injection, IsInjective
<1>6. q \in Surjection(D, S)
  BY <1>1, <1>4, <1>5, FS_Injection
<1> QED BY <1>3, <1>6 DEF Surjection, Range

\* Only the listing of the input tree puts a file on its way.
LEMMA NothingEnters ==
    ASSUME Ownership, [Next]_vars, ~ScanInput, NEW p \in Path, Unowned(p)
    PROVE  Unowned(p)'
<1>1. CASE Main
  <2>1. UNCHANGED <<copyQueue, sfile, hand, IFilesSet>>
    BY <1>1, MainKeeps, MainPhases
  <2>2. CASE Spawn
    BY <2>1, <2>2 DEF Spawn, Unowned, SorterHolds, WorkerHolds
  <2>3. CASE UNCHANGED <<spc, wpc>>
    BY <2>1, <2>3 DEF Unowned, SorterHolds, WorkerHolds
  <2> QED BY <1>1, <2>2, <2>3, MainPhases
<1>2. ASSUME NEW s \in Sorters, Sorter(s) PROVE Unowned(p)'
  <2>1. UNCHANGED <<wpc, hand>>
    BY <1>2, SorterKeeps
  <2>2. /\ spc \in [Sorters -> SorterPCs]
        /\ sfile \in [Sorters -> Path \cup {NoPath}]
        /\ IFilesSet \in Seq(Path) /\ copyQueue \in Seq(Path)
    BY DEF Ownership, Typed, TypeOK, SortersOK, ListsOK, QueuesOK
  <2>3. CASE SorterPop(s) /\ IFilesSet # <<>>
    <3>1. /\ Head(IFilesSet) # p
          /\ Range(Tail(IFilesSet)) = Range(IFilesSet) \ {Head(IFilesSet)}
      BY <2>2, <2>3, PopFront DEF Ownership, Owned, Unowned
    <3> QED BY <2>1, <2>2, <2>3, <3>1 DEF SorterPop, Unowned, SorterHolds, WorkerHolds
  <2>4. CASE Push(s)
    <3>1. SorterHolds(s)
      BY <2>4 DEF Push, SorterHolds
    <3>2. sfile[s] \in Path /\ sfile[s] \notin Range(copyQueue) /\ sfile[s] # p
      BY <3>1 DEF Ownership, Owned, Unowned, Typed, TypeOK, HoldsPath, SorterHolds
    <3>3. Range(copyQueue') = Range(copyQueue) \cup {sfile[s]}
      BY <2>2, <2>4, <3>2, PushBack DEF Ownership, Owned, Push
    <3> QED BY <2>1, <2>2, <2>4, <3>2, <3>3 DEF Push, Unowned, SorterHolds, WorkerHolds
  <2>5. CASE ~(SorterPop(s) /\ IFilesSet # <<>>) /\ ~Push(s)
    <3>1. UNCHANGED <<IFilesSet, copyQueue, sfile>>
      BY <1>2, <2>5 DEF Sorter, SorterLoop, SorterPop, FindBegin, FindEnd, Compare,
                        Account, EraseBegin, EraseEnd
    <3>2. \E l \in SorterPCs :
              /\ spc' = [spc EXCEPT ![s] = l]
              /\ l \in {"find", "finding", "stat", "push"} => SorterHolds(s)
      BY <1>2, <2>5 DEF Sorter, SorterLoop, SorterPop, FindBegin, FindEnd, Compare,
                        Account, EraseBegin, EraseEnd, SorterPCs, SorterHolds
    <3>3. \A r \in Sorters : SorterHolds(r)' => SorterHolds(r)
      BY <2>2, <3>2 DEF SorterHolds
    <3> QED BY <2>1, <3>1, <3>3 DEF Unowned, WorkerHolds
  <2> QED BY <2>3, <2>4, <2>5
<1>3. ASSUME NEW w \in Workers, Worker(w) PROVE Unowned(p)'
  <2>1. UNCHANGED <<IFilesSet, spc, sfile>>
    BY <1>3, WorkerKeeps
  <2>2. /\ wpc \in [Workers -> WorkerPCs] /\ hand \in [Workers -> Seq(Name)]
        /\ copyQueue \in Seq(Path) /\ Typed
    BY DEF Ownership, Typed, TypeOK, WorkersOK, QueuesOK
  <2>3. CASE Takes(w)
    <3>1. /\ Head(copyQueue) # p
          /\ Range(Tail(copyQueue)) = Range(copyQueue) \ {Head(copyQueue)}
      BY <2>2, <2>3, PopFront DEF Ownership, Owned, Unowned, Takes
    <3> QED BY <2>1, <2>2, <2>3, <3>1 DEF Takes, Unowned, SorterHolds, WorkerHolds
  <2>4. CASE Fails(w) \/ Writes(w) \/ Counts(w) \/ GoesOn(w)
    <3>1. \A v \in Workers : WorkerHolds(v)' => WorkerHolds(v) /\ hand'[v] = hand[v]
      BY <2>2, <2>4 DEF Fails, Writes, Counts, GoesOn, WorkerHolds
    <3>2. UNCHANGED copyQueue
      BY <2>4 DEF Fails, Writes, Counts, GoesOn
    <3> QED BY <2>1, <3>1, <3>2 DEF Unowned, SorterHolds
  <2> QED BY <1>3, <2>2, <2>3, <2>4, WorkerMoves
<1>4. CASE Kill \/ Rerun
  BY <1>4, RestartKeeps, EmptyDeque DEF Restart, Unowned, SorterHolds, WorkerHolds
<1>5. CASE UNCHANGED vars \/ Terminated
  BY <1>5, StutterKeeps DEF Unowned, SorterHolds, WorkerHolds
<1> QED BY <1>1, <1>2, <1>3, <1>4, <1>5 DEF Next

\* What has been moved has no owner any more.
LEMMA RenameLeaves ==
    ASSUME NEW w \in Workers, Ownership, Worker(w), Renames(w)
    PROVE  hand[w] \in Path /\ Unowned(hand[w])'
<1>1. UNCHANGED <<IFilesSet, spc, sfile>>
  BY WorkerKeeps
<1>2. wpc \in [Workers -> WorkerPCs] /\ WorkerHolds(w) /\ hand[w] \in Path
  BY DEF Ownership, Typed, TypeOK, WorkersOK, HoldsPath, Renames, WorkerHolds
<1> QED BY <1>1, <1>2 DEF Renames, Ownership, Owned, Unowned, SorterHolds, WorkerHolds

\* The input tree changes only when a worker moves a file.
LEMMA InputChanges ==
    ASSUME [Next]_vars
    PROVE  /\ UNCHANGED <<in0, out0, opts>>
           /\ UNCHANGED inp \/ \E w \in Workers : Worker(w) /\ Renames(w)
<1>1. CASE Main BY <1>1, MainKeeps
<1>2. ASSUME NEW s \in Sorters, Sorter(s) PROVE UNCHANGED <<inp, in0, out0, opts>>
  BY <1>2, SorterKeeps
<1>3. ASSUME NEW w \in Workers, Worker(w)
      PROVE  UNCHANGED <<in0, out0, opts>> /\ (UNCHANGED inp \/ Renames(w))
  BY <1>3, WorkerKeeps, WorkerTrees DEF Truncates, Fills, Removes
<1>4. CASE Kill \/ Rerun BY <1>4, RestartKeeps
<1>5. CASE UNCHANGED vars \/ Terminated BY <1>5, StutterKeeps
<1> QED BY <1>1, <1>2, <1>3, <1>4, <1>5 DEF Next

Flow ==
    /\ Ownership /\ Joined
    /\ InputKept /\ NotYetMoved /\ FilesHeld
    /\ SortedOnce /\ SortersDrain /\ NoClash

\* At the start nothing is on its way and nothing is moved.
LEMMA FlowInit == Init => Flow
<1> SUFFICES ASSUME Init PROVE Flow
  OBVIOUS
<1>1. Ownership BY OwnershipInit
<1>2. Joined /\ InputKept /\ NotYetMoved
  BY DEF Init, InitRun, Joined, InputKept, NotYetMoved
<1>3. FilesHeld
  BY EmptyDeque DEF Init, InitRun, FilesHeld, Unowned, SorterHolds, WorkerHolds
<1>4. SortedOnce /\ SortersDrain /\ NoClash
  BY DEF Init, InitRun, SortedOnce, SortersDrain, NoClash
<1> QED BY <1>1, <1>2, <1>3, <1>4 DEF Flow

\* Every step keeps the input tree, but for the files that -m moves.
LEMMA InputKeptNext == Flow /\ [Next]_vars => InputKept'
<1> SUFFICES ASSUME Flow, [Next]_vars PROVE InputKept'
  OBVIOUS
<1>1. run \in Nat /\ run > 0 BY DEF Flow, InputKept, Ownership, Typed, TypeOK, TreesOK
<1>2. run' > 0
  <2>1. CASE Main BY <1>1, <2>1, MainKeeps
  <2>2. ASSUME NEW s \in Sorters, Sorter(s) PROVE run' > 0
    BY <1>1, <2>2, SorterKeeps
  <2>3. ASSUME NEW w \in Workers, Worker(w) PROVE run' > 0
    BY <1>1, <2>3, WorkerKeeps
  <2>4. CASE Kill \/ Rerun BY <1>1, <2>4, RestartKeeps DEF Restart
  <2>5. CASE UNCHANGED vars \/ Terminated BY <1>1, <2>5, StutterKeeps
  <2> QED BY <2>1, <2>2, <2>3, <2>4, <2>5 DEF Next
<1>3. CASE UNCHANGED inp
  BY <1>2, <1>3, InputChanges DEF Flow, InputKept
<1>4. ASSUME NEW w \in Workers, Worker(w), Renames(w) PROVE InputKept'
  <2>1. /\ inp \in [Path -> Node] /\ hand[w] \in Path /\ opts.move
        /\ inp' = [inp EXCEPT ![hand[w]] = Absent]
    BY <1>4, RenameLeaves DEF Flow, Ownership, Typed, TypeOK, TreesOK, Tree, Renames
  <2>2. hand[w] \in Files(inp)
    BY <1>4, <2>1 DEF Flow, FilesHeld, Unowned, WorkerHolds, Renames
  <2>3. in0[hand[w]].kind = "file"
    BY <2>1, <2>2 DEF Flow, InputKept, Files, Absent
  <2> QED BY <1>2, <2>1, <2>3, InputChanges DEF Flow, InputKept
<1> QED BY <1>3, <1>4, InputChanges

\* A run that deletes starts before anything is moved.
LEMMA NotYetMovedNext == Flow /\ [Next]_vars => NotYetMoved'
<1> SUFFICES ASSUME Flow, [Next]_vars, Deleting', Preparing' PROVE inp' = in0'
  BY DEF NotYetMoved
<1>1. UNCHANGED <<in0, opts>> BY InputChanges
<1>2. CASE Kill \/ Rerun
  <2>1. run' = run + 1 /\ run \in Nat /\ run > 0 /\ UNCHANGED inp
    BY <1>2, RestartKeeps DEF Restart, Flow, InputKept, Ownership, Typed, TypeOK, TreesOK
  <2>2. ~opts.move
    BY <1>1, <2>1 DEF Deleting, Rematched
  <2>3. \A p \in Path : inp[p] = in0[p]
    BY <2>2 DEF Flow, InputKept
  <2>4. inp \in [Path -> Node] /\ in0 \in [Path -> Node]
    BY DEF Flow, Ownership, Typed, TypeOK, TreesOK, Tree
  <2>5. inp = in0
    BY <2>3, <2>4
  <2> QED BY <1>1, <2>1, <2>5
<1>3. ASSUME NEW w \in Workers, Worker(w), Renames(w) PROVE FALSE
  <2>1. wpc[w] # "unborn" /\ UNCHANGED phase
    BY <1>3, WorkerKeeps DEF Renames
  <2> QED BY <2>1 DEF Preparing, Flow, Ownership, NotStarted
<1>4. CASE ~(Kill \/ Rerun) /\ UNCHANGED inp
  <2>1. Preparing /\ UNCHANGED run
    <3>1. CASE Main BY <3>1, MainPhases, MainKeeps
    <3>2. ASSUME NEW s \in Sorters, Sorter(s) PROVE Preparing /\ UNCHANGED run
      BY <3>2, SorterKeeps DEF Preparing
    <3>3. ASSUME NEW w \in Workers, Worker(w) PROVE Preparing /\ UNCHANGED run
      BY <3>3, WorkerKeeps DEF Preparing
    <3>4. CASE UNCHANGED vars \/ Terminated BY <3>4, StutterKeeps DEF Preparing
    <3> QED BY <1>4, <3>1, <3>2, <3>3, <3>4 DEF Next
  <2> QED BY <1>1, <1>4, <2>1 DEF Flow, NotYetMoved, Deleting, Rematched
<1> QED BY <1>2, <1>3, <1>4, InputChanges

\* What is on its way stays in the input tree until it is moved.
LEMMA FilesHeldNext == Flow /\ [Next]_vars => FilesHeld'
<1> SUFFICES ASSUME Flow, [Next]_vars, NEW p \in Path, ~Unowned(p)'
             PROVE  p \in Files(inp)'
  BY DEF FilesHeld
<1>1. CASE ScanInput /\ Main
  <2>1. UNCHANGED <<inp, copyQueue, sfile, hand>> BY <1>1, MainKeeps
  <2>2. PICK S : IFilesSet' \in SetToSeqs(S \cap Files(inp))
    BY <1>1 DEF ScanInput
  <2>3. Range(IFilesSet') \subseteq Files(inp)
    BY <2>2, ScanRange DEF Files
  <2>4. /\ \A s \in Sorters : ~SorterHolds(s)'
        /\ \A w \in Workers : ~WorkerHolds(w)'
        /\ copyQueue' = <<>>
    BY <1>1, <2>1 DEF ScanInput, Flow, Ownership, NotStarted, SorterHolds, WorkerHolds
  <2> QED BY <2>1, <2>3, <2>4, EmptyDeque DEF Unowned, Files
<1>2. CASE ~ScanInput
  <2>1. ~Unowned(p)
    BY <1>2, NothingEnters DEF Flow
  <2>2. p \in Files(inp)
    BY <2>1 DEF Flow, FilesHeld
  <2>3. ASSUME NEW w \in Workers, Worker(w), Renames(w) PROVE p \in Files(inp)'
    <3>1. p # hand[w]
      <4>1. Unowned(hand[w])' BY <2>3, RenameLeaves DEF Flow
      <4>2. UNCHANGED hand BY <2>3 DEF Renames
      <4> QED BY <4>1, <4>2 DEF Unowned
    <3>2. inp \in [Path -> Node]
      BY DEF Flow, Ownership, Typed, TypeOK, TreesOK, Tree
    <3> QED BY <2>2, <2>3, <3>1, <3>2 DEF Renames, Files
  <2>4. CASE UNCHANGED inp
    BY <2>2, <2>4 DEF Files
  <2> QED BY <2>3, <2>4, InputChanges
<1>3. ScanInput => Main
  <2> SUFFICES ASSUME ScanInput, ~Main PROVE FALSE
    OBVIOUS
  <2>1. phase = "scanIn" /\ phase' = "scanOut"
    BY DEF ScanInput
  <2>2. ASSUME NEW s \in Sorters, Sorter(s) PROVE FALSE BY <2>1, <2>2, SorterKeeps
  <2>3. ASSUME NEW w \in Workers, Worker(w) PROVE FALSE BY <2>1, <2>3, WorkerKeeps
  <2>4. CASE Kill \/ Rerun BY <2>1, <2>4, RestartKeeps DEF Restart
  <2>5. CASE UNCHANGED vars \/ Terminated BY <2>1, <2>5, StutterKeeps
  <2> QED BY <2>2, <2>3, <2>4, <2>5 DEF Next
<1> QED BY <1>1, <1>2, <1>3

\* Sorters take different files.
LEMMA SortedOnceNext == Flow /\ [Next]_vars => SortedOnce'
<1> SUFFICES ASSUME Flow, [Next]_vars PROVE SortedOnce'
  OBVIOUS
<1>0. SortedOnce /\ NotStarted BY DEF Flow, Ownership
<1>1. CASE Main
  <2>1. UNCHANGED sfile /\ (Preparing' => Preparing)
    BY <1>1, MainKeeps, MainPhases
  <2>2. CASE ScanInput
    BY <1>0, <2>1, <2>2 DEF SortedOnce, ScanInput, Preparing
  <2>3. CASE UNCHANGED IFilesSet
    BY <1>0, <2>1, <2>3 DEF SortedOnce
  <2> QED BY <1>1, <2>2, <2>3, MainPhases
<1>2. ASSUME NEW s \in Sorters, Sorter(s) PROVE SortedOnce'
  <2>1. UNCHANGED phase BY <1>2, SorterKeeps
  <2>2. spc[s] # "unborn"
    BY <1>2 DEF Sorter, SorterLoop, SorterPop, FindBegin, FindEnd, Compare, Push,
                Account, EraseBegin, EraseEnd
  <2>3. ~Preparing BY <1>0, <2>2 DEF NotStarted, Preparing
  <2>4. CASE SorterPop(s) /\ IFilesSet # <<>>
    <3>1. sfile \in [Sorters -> Path \cup {NoPath}] /\ IFilesSet \in Seq(Path)
      BY DEF Flow, Ownership, Typed, TypeOK, SortersOK, ListsOK
    <3>2. /\ Head(IFilesSet) \in Range(IFilesSet)
          /\ Range(Tail(IFilesSet)) = Range(IFilesSet) \ {Head(IFilesSet)}
      BY <2>4, <3>1, PopFront DEF Flow, Ownership, Owned
    <3>3. /\ IFilesSet' = Tail(IFilesSet)
          /\ sfile' = [sfile EXCEPT ![s] = Head(IFilesSet)]
      BY <2>4 DEF SorterPop
    <3>4. Head(IFilesSet) # NoPath
      BY <2>4, <3>1, HeadTail DEF NoPath
    <3> QED BY <1>0, <2>1, <2>3, <3>1, <3>2, <3>3, <3>4 DEF SortedOnce, Preparing
  <2>5. CASE ~(SorterPop(s) /\ IFilesSet # <<>>)
    <3>1. UNCHANGED <<IFilesSet, sfile>>
      BY <1>2, <2>5 DEF Sorter, SorterLoop, SorterPop, FindBegin, FindEnd, Compare,
                        Push, Account, EraseBegin, EraseEnd
    <3> QED BY <1>0, <2>1, <3>1 DEF SortedOnce, Preparing
  <2> QED BY <2>4, <2>5
<1>3. ASSUME NEW w \in Workers, Worker(w) PROVE SortedOnce'
  BY <1>0, <1>3, WorkerKeeps DEF SortedOnce, Preparing
<1>4. CASE Kill \/ Rerun BY <1>4, RestartKeeps DEF Restart, SortedOnce
<1>5. CASE UNCHANGED vars \/ Terminated
  BY <1>0, <1>5, StutterKeeps DEF SortedOnce, Preparing
<1> QED BY <1>1, <1>2, <1>3, <1>4, <1>5 DEF Next

\* A sorter that leaves has seen IFilesSet empty, and nothing enters it again.
LEMMA SortersDrainNext == Flow /\ [Next]_vars => SortersDrain'
<1> SUFFICES ASSUME Flow, [Next]_vars PROVE SortersDrain'
  OBVIOUS
<1>0. SortersDrain /\ NotStarted BY DEF Flow, Ownership
<1>1. CASE Main
  <2>1. CASE ScanInput
    BY <1>0, <2>1 DEF ScanInput, SortersDrain, NotStarted
  <2>2. CASE Spawn
    BY <2>2 DEF Spawn, SortersDrain
  <2>3. CASE ~ScanInput /\ ~Spawn
    <3>1. UNCHANGED <<spc, IFilesSet>>
      BY <1>1, <2>3, MainPhases
    <3>2. phase' \in {"queue", "joinWork", "rmDirs", "finished"} =>
              JoinSorters \/ phase \in {"queue", "joinWork", "rmDirs", "finished"}
      BY <1>1, <2>3 DEF Main, ScanOutput, HandleDir, QueueDelete, SetDone,
                        JoinWorkers, RemoveDir, Finish
    <3> QED BY <1>0, <3>1, <3>2 DEF SortersDrain, SortersJoined, JoinSorters
  <2> QED BY <2>1, <2>2, <2>3
<1>2. ASSUME NEW s \in Sorters, Sorter(s) PROVE SortersDrain'
  <2>1. spc \in [Sorters -> SorterPCs]
    BY DEF Flow, Ownership, Typed, TypeOK, SortersOK
  <2>2. UNCHANGED phase BY <1>2, SorterKeeps
  <2>3. spc[s] # "done"
    BY <1>2 DEF Sorter, SorterLoop, SorterPop, FindBegin, FindEnd, Compare, Push,
                Account, EraseBegin, EraseEnd
  <2>4. phase \notin {"queue", "joinWork", "rmDirs", "finished"}
    BY <1>0, <2>3 DEF SortersDrain, SortersJoined
  <2>5. /\ IFilesSet = <<>> => IFilesSet' = <<>>
        /\ \A r \in Sorters : spc'[r] = "done" => spc[r] = "done" \/ IFilesSet = <<>>
    BY <1>2, <2>1 DEF Sorter, SorterLoop, SorterPop, FindBegin, FindEnd, Compare, Push,
                      Account, EraseBegin, EraseEnd
  <2> QED BY <1>0, <2>2, <2>4, <2>5 DEF SortersDrain
<1>3. ASSUME NEW w \in Workers, Worker(w) PROVE SortersDrain'
  BY <1>0, <1>3, WorkerKeeps DEF SortersDrain, SortersJoined
<1>4. CASE Kill \/ Rerun BY <1>4, RestartKeeps DEF Restart, SortersDrain
<1>5. CASE UNCHANGED vars \/ Terminated
  BY <1>0, <1>5, StutterKeeps DEF SortersDrain, SortersJoined
<1> QED BY <1>1, <1>2, <1>3, <1>4, <1>5 DEF Next

\* An access is disturbed only by a race.
LEMMA NoClashNext == Flow /\ [Next]_vars => NoClash'
<1> SUFFICES ASSUME Flow, [Next]_vars PROVE NoClash'
  OBVIOUS
<1>0. NoClash BY DEF Flow
<1>1. CASE Main
  BY <1>0, <1>1, MainKeeps
     DEF NoClash, Main, ScanInput, ScanOutput, HandleDir, Spawn, JoinSorters,
         QueueDelete, SetDone, JoinWorkers, RemoveDir, Finish
<1>2. ASSUME NEW s \in Sorters, Sorter(s) PROVE NoClash'
  BY <1>0, <1>2 DEF NoClash, Sorter, SorterLoop, SorterPop, FindBegin, FindEnd,
                    Compare, Push, Account, EraseBegin, EraseEnd
<1>3. ASSUME NEW w \in Workers, Worker(w) PROVE NoClash'
  BY <1>0, <1>3, WorkerKeeps DEF NoClash
<1>4. CASE Kill \/ Rerun BY <1>4, RestartKeeps DEF Restart, NoClash
<1>5. CASE UNCHANGED vars \/ Terminated BY <1>0, <1>5, StutterKeeps DEF NoClash
<1> QED BY <1>1, <1>2, <1>3, <1>4, <1>5 DEF Next

\* Every step keeps all of this.
LEMMA FlowNext == Flow /\ [Next]_vars => Flow'
<1> SUFFICES ASSUME Flow, [Next]_vars PROVE Flow'
  OBVIOUS
<1>1. Ownership' BY OwnershipNext DEF Flow
<1>2. Joined' BY JoinedNext DEF Flow, Ownership
<1> QED BY <1>1, <1>2, InputKeptNext, NotYetMovedNext, FilesHeldNext, SortedOnceNext,
           SortersDrainNext, NoClashNext DEF Flow
-----------------------------------------------------------------------------
(***************************************************************************)
(* What the lists say about the trees                                      *)
(***************************************************************************)

\* p is on its way, was on its way, or was moved.
Entered(p) == ~Unowned(p) \/ (\E s \in Sorters : sfile[s] = p) \/ Moved(p)

\* The directories above p are matched, or will be.
Sheltered(p) ==
    /\ Above(p) \cap ODirSet \subseteq IDirSet
    /\ phase = "scanOut" => Above(p) \subseteq IDirSet

\* No directory above a file that is on its way is taken for unmatched.
Shelter ==
    /\ Deleting => \A p \in Path : Entered(p) => Sheltered(p)
    /\ misled = {} /\ phase # "scanIn" => \A p \in Files(inp) : Sheltered(p)
    /\ Preparing \/ IDirSet = {}

\* A sorter is about to erase its file from OFilesSet.
WillErase(s) ==
    \/ spc[s] \in {"erase", "erasing"}
    \/ spc[s] = "account" /\ found[s]

Struck(p) == p \in OFilesSet => \E s \in Sorters : sfile[s] = p /\ WillErase(s)

\* p is queued, with a worker, or moved.
Pushed(p) ==
    \/ p \in Range(copyQueue)
    \/ \E w \in Workers : WorkerHolds(w) /\ hand[w] = p
    \/ Deleting /\ Moved(p)

\* Without a race, what is copied or moved is not taken for unmatched.
Matching ==
    "race" \notin misled =>
        /\ \A s \in Sorters :
              /\ spc[s] = "stat" => found[s]
              /\ spc[s] \in {"push", "account"} => found[s] \/ sfile[s] \notin OFilesSet
        /\ \A p \in Path : Pushed(p) => Struck(p)

\* A sorter has the file and will find and erase it.
WillMatch(s) ==
    \/ spc[s] \in {"find", "finding", "stat", "erase", "erasing"}
    \/ spc[s] \in {"push", "account"} /\ found[s]

\* When nothing went wrong, every file of the input tree is matched.
Complete ==
    misled = {} =>
        /\ phase = "scanOut" => Files(inp) \subseteq Range(IFilesSet)
        /\ phase \notin {"scanIn", "scanOut"} =>
              \A p \in Files(inp) \cap OFilesSet :
                  \/ p \in Range(IFilesSet)
                  \/ \E s \in Sorters : sfile[s] = p /\ WillMatch(s)

\* Only what is left in OFilesSet when the sorters are done is deleted.
Deletions ==
    /\ Preparing \/ phase = "sort" \/ ~opts.deletewithoutmatch
       => /\ toDelete = {} /\ deleteQueue = <<>>
          /\ \A w \in Workers : wpc[w] # "remove"
    /\ toDelete \subseteq OFilesSet
    /\ \A e \in Range(deleteQueue) : \E f \in OFilesSet : e = DeleteEntry(f)
    /\ \A w \in Workers : wpc[w] = "remove" =>
          \E f \in OFilesSet : hand[w] = DeleteEntry(f)

\* A directory of the output tree stays one until directories are removed.
DirsStay ==
    /\ OFilesSet \cap ODirSet = {}
    /\ phase \in {"scanIn", "scanOut"} => ODirSet = {}
    /\ SafePrefix =>
          /\ Files(out) \cap ODirSet = {}
          /\ phase \notin {"rmDirs", "finished"} => ODirSet \subseteq Dirs(out)

Picture == Flow /\ Shelter /\ Matching /\ Complete /\ Deletions /\ DirsStay

\* At the start no list says anything.
LEMMA PictureInit == Init => Picture
<1> SUFFICES ASSUME Init PROVE Picture
  OBVIOUS
<1>1. Shelter
  BY DEF Init, InitRun, Shelter, Sheltered, Preparing
<1>2. Matching
  BY DEF Init, InitRun, Matching, Struck
<1>3. Complete
  BY DEF Init, InitRun, Complete
<1>4. Deletions
  BY EmptyDeque DEF Init, InitRun, Deletions
<1>5. DirsStay
  BY DEF Init, InitRun, DirsStay
<1> QED BY <1>1, <1>2, <1>3, <1>4, <1>5, FlowInit DEF Picture

\* What has gone wrong once is remembered.
LEMMA MisledGrows == [Next]_vars => misled \subseteq misled'
<1> SUFFICES ASSUME [Next]_vars PROVE misled \subseteq misled'
  OBVIOUS
<1>1. CASE Main
  BY <1>1 DEF Main, ScanInput, ScanOutput, HandleDir, Spawn, JoinSorters,
              QueueDelete, SetDone, JoinWorkers, RemoveDir, Finish
<1>2. ASSUME NEW s \in Sorters, Sorter(s) PROVE misled \subseteq misled'
  BY <1>2 DEF Sorter, SorterLoop, SorterPop, FindBegin, FindEnd, Compare, Push,
              Account, EraseBegin, EraseEnd
<1>3. ASSUME NEW w \in Workers, Worker(w) PROVE misled \subseteq misled'
  BY <1>3, WorkerKeeps
<1>4. CASE Kill \/ Rerun BY <1>4, RestartKeeps
<1>5. CASE UNCHANGED vars \/ Terminated BY <1>5, StutterKeeps
<1> QED BY <1>1, <1>2, <1>3, <1>4, <1>5 DEF Next

\* Within a run the options and the number of the run stay.
LEMMA DeletingStays ==
    [Next]_vars /\ ~(Kill \/ Rerun) => UNCHANGED run /\ (Deleting' <=> Deleting)
<1> SUFFICES ASSUME [Next]_vars, ~(Kill \/ Rerun) PROVE UNCHANGED <<run, opts>>
  BY DEF Deleting, Rematched
<1>1. CASE Main BY <1>1, MainKeeps
<1>2. ASSUME NEW s \in Sorters, Sorter(s) PROVE UNCHANGED <<run, opts>>
  BY <1>2, SorterKeeps
<1>3. ASSUME NEW w \in Workers, Worker(w) PROVE UNCHANGED <<run, opts>>
  BY <1>3, WorkerKeeps
<1>4. CASE UNCHANGED vars \/ Terminated BY <1>4, StutterKeeps
<1> QED BY <1>1, <1>2, <1>3, <1>4 DEF Next

\* Moving files out of a tree leaves a tree.
LEMMA InputWellFormed == Flow => WellFormed(inp)
<1> SUFFICES ASSUME Flow, NEW p \in Entries(inp), NEW q \in Above(p)
             PROVE  q \in Dirs(inp)
  BY DEF WellFormed
<1>1. p \in Path /\ q \in Path BY DEF Entries, Files, Dirs, Above
<1>2. inp[p].kind # "absent" BY DEF Entries, Files, Dirs
<1>3. inp[p] = in0[p] BY <1>1, <1>2 DEF Flow, InputKept, Absent
<1>4. p \in Entries(in0) BY <1>1, <1>3 DEF Entries, Files, Dirs
<1>5. q \in Dirs(in0) BY <1>4, TreeAssumption DEF Flow, InputKept, WellFormed
<1>6. inp[q] = in0[q] BY <1>1, <1>5 DEF Flow, InputKept, Dirs
<1> QED BY <1>1, <1>5, <1>6 DEF Dirs

\* The input tree only loses files.
LEMMA InputShrinks ==
    ASSUME Flow, [Next]_vars, NEW p \in Path, p \in Files(inp)'
    PROVE  p \in Files(inp) /\ inp'[p] = inp[p]
<1>1. CASE UNCHANGED inp BY <1>1 DEF Files
<1>2. ASSUME NEW w \in Workers, Worker(w), Renames(w)
      PROVE  p \in Files(inp) /\ inp'[p] = inp[p]
  <2>1. inp \in [Path -> Node] /\ hand[w] \in Path
    BY <1>2, RenameLeaves DEF Flow, Ownership, Typed, TypeOK, TreesOK, Tree
  <2> QED BY <1>2, <2>1 DEF Renames, Files, Absent
<1> QED BY <1>1, <1>2, InputChanges

\* What is on its way now was so before.
LEMMA EnteredBefore ==
    ASSUME Flow, [Next]_vars, ~ScanInput, NEW p \in Path, Entered(p)'
    PROVE  Entered(p)
<1>1. CASE ~Unowned(p)'
  BY <1>1, NothingEnters DEF Flow, Entered
<1>2. ASSUME NEW s \in Sorters, sfile'[s] = p PROVE Entered(p)
  <2>1. sfile[s] = p \/ ~Unowned(p)
    <3>1. CASE Main BY <1>2, <3>1, MainKeeps
    <3>2. ASSUME NEW r \in Sorters, Sorter(r) PROVE sfile[s] = p \/ ~Unowned(p)
      <4>1. sfile \in [Sorters -> Path \cup {NoPath}] /\ IFilesSet \in Seq(Path)
        BY DEF Flow, Ownership, Typed, TypeOK, SortersOK, ListsOK
      <4>2. CASE SorterPop(r) /\ IFilesSet # <<>>
        <5>1. Head(IFilesSet) \in Range(IFilesSet)
          BY <4>1, <4>2, PopFront DEF Flow, Ownership, Owned
        <5> QED BY <1>2, <4>1, <4>2, <5>1 DEF SorterPop, Unowned
      <4>3. CASE ~(SorterPop(r) /\ IFilesSet # <<>>)
        BY <1>2, <3>2, <4>3
           DEF Sorter, SorterLoop, SorterPop, FindBegin, FindEnd, Compare, Push,
               Account, EraseBegin, EraseEnd
      <4> QED BY <4>2, <4>3
    <3>3. ASSUME NEW w \in Workers, Worker(w) PROVE sfile[s] = p
      BY <1>2, <3>3, WorkerKeeps
    <3>4. CASE Kill \/ Rerun
      BY <1>2, <3>4, RestartKeeps DEF Restart, NoPath
    <3>5. CASE UNCHANGED vars \/ Terminated BY <1>2, <3>5, StutterKeeps
    <3> QED BY <3>1, <3>2, <3>3, <3>4, <3>5 DEF Next
  <2> QED BY <2>1 DEF Entered
<1>3. CASE Moved(p)'
  <2>1. CASE UNCHANGED inp BY <1>3, <2>1, InputChanges DEF Moved, Entered
  <2>2. ASSUME NEW w \in Workers, Worker(w), Renames(w) PROVE Entered(p)
    <3>1. inp \in [Path -> Node] /\ WorkerHolds(w)
      BY <2>2 DEF Flow, Ownership, Typed, TypeOK, TreesOK, Tree, Renames, WorkerHolds
    <3>2. p = hand[w] \/ inp'[p] = inp[p]
      BY <2>2, <3>1 DEF Renames
    <3> QED BY <1>3, <3>1, <3>2, InputChanges DEF Moved, Entered, Unowned
  <2> QED BY <2>1, <2>2, InputChanges
<1> QED BY <1>1, <1>2, <1>3 DEF Entered

\* A directory that is matched, or will be, stays so.
LEMMA StaysSheltered ==
    ASSUME [Next]_vars, ~ScanInput, NEW p \in Path, Sheltered(p)
    PROVE  Sheltered(p)'
<1>1. CASE Main
  BY <1>1 DEF Main, ScanOutput, HandleDir, Spawn, JoinSorters, QueueDelete, SetDone,
              JoinWorkers, RemoveDir, Finish, Sheltered, lists
<1>2. ASSUME NEW s \in Sorters, Sorter(s) PROVE Sheltered(p)'
  BY <1>2, SorterKeeps DEF Sheltered
<1>3. ASSUME NEW w \in Workers, Worker(w) PROVE Sheltered(p)'
  BY <1>3, WorkerKeeps DEF Sheltered
<1>4. CASE Kill \/ Rerun BY <1>4, RestartKeeps DEF Restart, Sheltered
<1>5. CASE UNCHANGED vars \/ Terminated BY <1>5, StutterKeeps DEF Sheltered
<1> QED BY <1>1, <1>2, <1>3, <1>4, <1>5 DEF Next

\* A listing contains the directories above whatever it contains.
LEMMA ListingClosed ==
    ASSUME Flow, NEW S \in Listings(inp), NEW p \in S \cap Files(inp)
    PROVE  Above(p) \subseteq S \cap Dirs(inp)
<1>1. WellFormed(inp) BY InputWellFormed
<1>2. p \in Entries(inp) BY DEF Entries
<1>3. Above(p) \subseteq Dirs(inp) BY <1>1, <1>2 DEF WellFormed
<1>4. Above(p) \subseteq S
  BY <1>3 DEF Listings, PartialListings, Entries
<1> QED BY <1>3, <1>4

\* A step that lists the input tree is one of the thread that calls Copy.
LEMMA ScanIsMain ==
    [Next]_vars /\ (ScanInput \/ ScanOutput) => Main
<1> SUFFICES ASSUME [Next]_vars, ScanInput \/ ScanOutput, ~Main PROVE FALSE
  OBVIOUS
<1>1. \/ phase = "scanIn" /\ phase' = "scanOut"
      \/ phase = "scanOut" /\ phase' = "dirs"
  BY DEF ScanInput, ScanOutput
<1>2. ASSUME NEW s \in Sorters, Sorter(s) PROVE FALSE BY <1>1, <1>2, SorterKeeps
<1>3. ASSUME NEW w \in Workers, Worker(w) PROVE FALSE BY <1>1, <1>3, WorkerKeeps
<1>4. CASE Kill \/ Rerun BY <1>1, <1>4, RestartKeeps DEF Restart
<1>5. CASE UNCHANGED vars \/ Terminated BY <1>1, <1>5, StutterKeeps
<1> QED BY <1>2, <1>3, <1>4, <1>5 DEF Next

\* Only the listing of the input tree leads out of the first phase.
LEMMA LeavesScanIn ==
    [Next]_vars /\ ~ScanInput /\ phase' # "scanIn" => phase # "scanIn"
<1> SUFFICES ASSUME [Next]_vars, ~ScanInput, phase' # "scanIn", phase = "scanIn"
             PROVE  FALSE
  OBVIOUS
<1>1. CASE Main
  BY <1>1 DEF Main, ScanOutput, HandleDir, Spawn, JoinSorters, QueueDelete, SetDone,
              JoinWorkers, RemoveDir, Finish
<1>2. ASSUME NEW s \in Sorters, Sorter(s) PROVE FALSE BY <1>2, SorterKeeps
<1>3. ASSUME NEW w \in Workers, Worker(w) PROVE FALSE BY <1>3, WorkerKeeps
<1>4. CASE Kill \/ Rerun BY <1>4, RestartKeeps DEF Restart
<1>5. CASE UNCHANGED vars \/ Terminated BY <1>5, StutterKeeps
<1> QED BY <1>1, <1>2, <1>3, <1>4, <1>5 DEF Next

\* The directories above a listed file are listed with it, and matched before the
\* directories without match are removed.
LEMMA ShelterNext == Picture /\ [Next]_vars => Shelter'
<1> SUFFICES ASSUME Picture, [Next]_vars PROVE Shelter'
  OBVIOUS
<1>0. Flow /\ Shelter BY DEF Picture
<1>1. ASSUME Deleting', NEW p \in Path, Entered(p)' PROVE Sheltered(p)'
  <2>1. CASE ScanInput
    <3>1. Main /\ UNCHANGED <<inp, in0, opts, run, copyQueue, sfile, hand>>
      BY <2>1, ScanIsMain, MainKeeps
    <3>2. Deleting /\ Preparing
      BY <1>1, <2>1, <3>1 DEF Deleting, Rematched, ScanInput, Preparing
    <3>3. ~Moved(p)'
      BY <1>0, <3>1, <3>2 DEF Flow, NotYetMoved, Moved
    <3>4. \A s \in Sorters : sfile'[s] # p
      BY <1>0, <3>1, <3>2 DEF Flow, SortedOnce, NoPath
    <3>5. p \in Range(IFilesSet')
      <4>1. /\ \A s \in Sorters : ~SorterHolds(s)'
            /\ \A w \in Workers : ~WorkerHolds(w)'
            /\ copyQueue' = <<>>
        BY <1>0, <2>1, <3>1
           DEF ScanInput, Flow, Ownership, NotStarted, SorterHolds, WorkerHolds
      <4> QED BY <1>1, <3>3, <3>4, <4>1, EmptyDeque DEF Entered, Unowned
    <3>6. PICK S \in Listings(inp) : /\ IFilesSet' \in SetToSeqs(S \cap Files(inp))
                                     /\ IDirSet' = S \cap Dirs(inp)
      BY <2>1 DEF ScanInput
    <3>7. p \in S \cap Files(inp)
      BY <3>5, <3>6, ScanRange DEF Files
    <3>8. Above(p) \subseteq IDirSet'
      BY <1>0, <3>6, <3>7, ListingClosed
    <3> QED BY <3>8 DEF Sheltered
  <2>2. CASE ~ScanInput
    <3>1. CASE Kill \/ Rerun BY <3>1, RestartKeeps DEF Restart, Sheltered
    <3>2. CASE ~(Kill \/ Rerun)
      <4>1. Deleting /\ Entered(p)
        BY <1>0, <1>1, <2>2, <3>2, DeletingStays, EnteredBefore
      <4> QED BY <1>0, <2>2, <4>1, StaysSheltered DEF Shelter
    <3> QED BY <3>1, <3>2
  <2> QED BY <2>1, <2>2
<1>2. ASSUME misled' = {}, phase' # "scanIn", NEW p \in Path, p \in Files(inp)'
      PROVE  Sheltered(p)'
  <2>1. p \in Files(inp)
    BY <1>0, <1>2, InputShrinks
  <2>2. CASE ScanInput
    <3>1. PICK S \in Listings(inp) :
              /\ IDirSet' = S \cap Dirs(inp)
              /\ misled' = misled \cup (IF S = Entries(inp) THEN {} ELSE {"in"})
      BY <2>2 DEF ScanInput
    <3>2. S = Entries(inp)
      BY <1>2, <3>1
    <3>3. Above(p) \subseteq IDirSet'
      BY <1>0, <2>1, <3>1, <3>2, ListingClosed DEF Entries
    <3> QED BY <3>3 DEF Sheltered
  <2>3. CASE ~ScanInput
    <3>1. misled = {} /\ phase # "scanIn"
      BY <1>2, <2>3, MisledGrows, LeavesScanIn
    <3> QED BY <1>0, <2>1, <2>3, <3>1, StaysSheltered DEF Shelter, Files
  <2> QED BY <2>2, <2>3
<1>3. Preparing' \/ IDirSet' = {}
  <2>1. CASE Main
    BY <1>0, <2>1 DEF Main, ScanInput, ScanOutput, HandleDir, Spawn, JoinSorters,
                      QueueDelete, SetDone, JoinWorkers, RemoveDir, Finish, lists,
                      Shelter, Preparing
  <2>2. ASSUME NEW s \in Sorters, Sorter(s) PROVE Preparing' \/ IDirSet' = {}
    BY <1>0, <2>2, SorterKeeps DEF Shelter, Preparing
  <2>3. ASSUME NEW w \in Workers, Worker(w) PROVE Preparing' \/ IDirSet' = {}
    BY <1>0, <2>3, WorkerKeeps DEF Shelter, Preparing
  <2>4. CASE Kill \/ Rerun BY <2>4, RestartKeeps DEF Restart
  <2>5. CASE UNCHANGED vars \/ Terminated
    BY <1>0, <2>5, StutterKeeps DEF Shelter, Preparing
  <2> QED BY <2>1, <2>2, <2>3, <2>4, <2>5 DEF Next
<1> QED BY <1>1, <1>2, <1>3 DEF Shelter, Files

\* A file that is to be erased from OFilesSet, or is not in it, stays so.
LEMMA StaysStruck ==
    ASSUME Flow, [Next]_vars, ~ScanOutput, "race" \notin misled', NEW p \in Path,
           Struck(p)
    PROVE  Struck(p)'
<1>0. clash = {}
  BY MisledGrows DEF Flow, NoClash
<1>1. CASE Main
  <2>1. UNCHANGED <<sfile, found, OFilesSet>>
    BY <1>1, MainKeeps
       DEF Main, ScanInput, ScanOutput, HandleDir, Spawn, JoinSorters, QueueDelete,
           SetDone, JoinWorkers, RemoveDir, Finish, lists
  <2>2. CASE Spawn
    BY <2>1, <2>2 DEF Spawn, Struck, WillErase, Flow, Ownership, NotStarted
  <2>3. CASE UNCHANGED spc
    BY <2>1, <2>3 DEF Struck, WillErase
  <2> QED BY <1>1, <2>2, <2>3, MainPhases
<1>2. ASSUME NEW s \in Sorters, Sorter(s) PROVE Struck(p)'
  <2>1. /\ spc \in [Sorters -> SorterPCs] /\ found \in [Sorters -> BOOLEAN]
        /\ sfile \in [Sorters -> Path \cup {NoPath}]
    BY DEF Flow, Ownership, Typed, TypeOK, SortersOK
  <2>2. OFilesSet' \subseteq OFilesSet
    BY <1>2 DEF Sorter, SorterLoop, SorterPop, FindBegin, FindEnd, Compare, Push,
                Account, EraseBegin, EraseEnd
  <2>3. \A r \in Sorters \ {s} :
            spc'[r] = spc[r] /\ found'[r] = found[r] /\ sfile'[r] = sfile[r]
    BY <1>2, <2>1 DEF Sorter, SorterLoop, SorterPop, FindBegin, FindEnd, Compare,
                      Push, Account, EraseBegin, EraseEnd
  <2>4. WillErase(s) => sfile'[s] = sfile[s] /\ (WillErase(s)' \/ sfile[s] \notin OFilesSet')
    <3>1. CASE SorterLoop(s) \/ SorterPop(s) \/ FindBegin(s) \/ FindEnd(s)
               \/ Compare(s) \/ Push(s)
      BY <3>1 DEF SorterLoop, SorterPop, FindBegin, FindEnd, Compare, Push, WillErase
    <3>2. CASE Account(s) BY <2>1, <3>2 DEF Account, WillErase
    <3>3. CASE EraseBegin(s) BY <2>1, <3>3 DEF EraseBegin, WillErase
    <3>4. CASE EraseEnd(s) BY <1>0, <3>4 DEF EraseEnd, WillErase
    <3> QED BY <1>2, <3>1, <3>2, <3>3, <3>4 DEF Sorter
  <2>5. ASSUME NEW r \in Sorters, r # s, WillErase(r) PROVE WillErase(r)'
    BY <2>3, <2>5 DEF WillErase
  <2> QED BY <2>2, <2>3, <2>4, <2>5 DEF Struck
<1>3. ASSUME NEW w \in Workers, Worker(w) PROVE Struck(p)'
  BY <1>3, WorkerKeeps DEF Struck, WillErase
<1>4. CASE Kill \/ Rerun BY <1>4, RestartKeeps DEF Restart, Struck
<1>5. CASE UNCHANGED vars \/ Terminated BY <1>5, StutterKeeps DEF Struck, WillErase
<1> QED BY <1>1, <1>2, <1>3, <1>4, <1>5 DEF Next

\* A file gets into _copyQueue, and to the workers, only by push_back.
LEMMA PushedBefore ==
    ASSUME Flow, [Next]_vars, ~(Kill \/ Rerun), NEW p \in Path, Pushed(p)'
    PROVE  Pushed(p) \/ \E s \in Sorters : Push(s) /\ Sorter(s) /\ sfile[s] = p
<1>1. CASE Deleting' /\ Moved(p)'
  <2>1. Deleting BY <1>1, DeletingStays
  <2>2. CASE UNCHANGED inp BY <1>1, <2>1, <2>2, InputChanges DEF Moved, Pushed
  <2>3. ASSUME NEW w \in Workers, Worker(w), Renames(w) PROVE Pushed(p)
    <3>1. inp \in [Path -> Node] /\ WorkerHolds(w)
      BY <2>3 DEF Flow, Ownership, Typed, TypeOK, TreesOK, Tree, Renames, WorkerHolds
    <3>2. p = hand[w] \/ inp'[p] = inp[p]
      BY <2>3, <3>1 DEF Renames
    <3> QED BY <1>1, <2>1, <3>1, <3>2, InputChanges DEF Moved, Pushed
  <2> QED BY <2>2, <2>3, InputChanges
<1>2. CASE p \in Range(copyQueue') \/ \E w \in Workers : WorkerHolds(w)' /\ hand'[w] = p
  <2> DEFINE Before == \/ p \in Range(copyQueue)
                       \/ \E w \in Workers : WorkerHolds(w) /\ hand[w] = p
             Arrives == \E s \in Sorters : Push(s) /\ Sorter(s) /\ sfile[s] = p
  <2>1. Before => Pushed(p) BY DEF Pushed
  <2>2. CASE Main
    <3>1. UNCHANGED <<copyQueue, hand>> BY <2>2, MainKeeps
    <3>2. \A w \in Workers : WorkerHolds(w)' => WorkerHolds(w)
      BY <2>2, MainPhases DEF Spawn, WorkerHolds
    <3> QED BY <1>2, <2>1, <3>1, <3>2
  <2>3. ASSUME NEW s \in Sorters, Sorter(s) PROVE Before \/ Arrives
    <3>1. UNCHANGED <<wpc, hand>> BY <2>3, SorterKeeps
    <3>2. CASE Push(s)
      <4>1. SorterHolds(s) /\ sfile[s] \in Path
        BY <3>2 DEF Push, SorterHolds, Flow, Ownership, Typed, TypeOK, HoldsPath
      <4>2. Range(copyQueue') = Range(copyQueue) \cup {sfile[s]}
        BY <3>2, <4>1, PushBack
           DEF Push, Flow, Ownership, Owned, Typed, TypeOK, QueuesOK
      <4> QED BY <1>2, <2>3, <3>1, <3>2, <4>2 DEF WorkerHolds
    <3>3. CASE ~Push(s)
      <4>1. UNCHANGED copyQueue
        BY <2>3, <3>3 DEF Sorter, SorterLoop, SorterPop, FindBegin, FindEnd, Compare,
                          Account, EraseBegin, EraseEnd
      <4> QED BY <1>2, <3>1, <4>1 DEF WorkerHolds
    <3> QED BY <3>2, <3>3
  <2>4. ASSUME NEW w \in Workers, Worker(w) PROVE Before
    <3>1. /\ wpc \in [Workers -> WorkerPCs] /\ hand \in [Workers -> Seq(Name)]
          /\ copyQueue \in Seq(Path) /\ Typed
      BY DEF Flow, Ownership, Typed, TypeOK, WorkersOK, QueuesOK
    <3>2. CASE Takes(w)
      <4>1. /\ Head(copyQueue) \in Range(copyQueue)
            /\ Range(Tail(copyQueue)) = Range(copyQueue) \ {Head(copyQueue)}
        BY <3>1, <3>2, PopFront DEF Flow, Ownership, Owned, Takes
      <4> QED BY <1>2, <3>1, <3>2, <4>1 DEF Takes, WorkerHolds
    <3>3. CASE Fails(w) \/ Writes(w) \/ Counts(w) \/ GoesOn(w)
      <4>1. \A v \in Workers : WorkerHolds(v)' => WorkerHolds(v) /\ hand'[v] = hand[v]
        BY <3>1, <3>3 DEF Fails, Writes, Counts, GoesOn, WorkerHolds
      <4>2. UNCHANGED copyQueue
        BY <3>3 DEF Fails, Writes, Counts, GoesOn
      <4> QED BY <1>2, <4>1, <4>2
    <3> QED BY <2>4, <3>1, <3>2, <3>3, WorkerMoves
  <2>5. CASE UNCHANGED vars \/ Terminated
    BY <1>2, <2>1, <2>5, StutterKeeps DEF WorkerHolds
  <2> QED BY <2>1, <2>2, <2>3, <2>4, <2>5 DEF Next
<1> QED BY <1>1, <1>2 DEF Pushed

\* A sorter that found its file erases it, and one that queued it has looked.
LEMMA MatchingNext == Picture /\ [Next]_vars => Matching'
<1> SUFFICES ASSUME Picture, [Next]_vars, "race" \notin misled'
             PROVE  /\ \A s \in Sorters :
                         /\ spc'[s] = "stat" => found'[s]
                         /\ spc'[s] \in {"push", "account"} =>
                               found'[s] \/ sfile'[s] \notin OFilesSet'
                    /\ \A p \in Path : Pushed(p)' => Struck(p)'
  BY DEF Matching
<1>0. /\ Flow /\ clash = {} /\ NotStarted
      /\ \A s \in Sorters :
            /\ spc[s] = "stat" => found[s]
            /\ spc[s] \in {"push", "account"} => found[s] \/ sfile[s] \notin OFilesSet
      /\ \A p \in Path : Pushed(p) => Struck(p)
  BY MisledGrows DEF Picture, Flow, Ownership, NoClash, Matching
<1>1. ASSUME NEW s \in Sorters
      PROVE  /\ spc'[s] = "stat" => found'[s]
             /\ spc'[s] \in {"push", "account"} => found'[s] \/ sfile'[s] \notin OFilesSet'
  <2> DEFINE Good == /\ spc'[s] = "stat" => found'[s]
                     /\ spc'[s] \in {"push", "account"} =>
                           found'[s] \/ sfile'[s] \notin OFilesSet'
  <2>1. CASE Main
    <3>1. UNCHANGED <<sfile, found>> BY <2>1, MainKeeps
    <3>2. CASE ScanOutput BY <1>0, <3>2 DEF ScanOutput, NotStarted
    <3>3. CASE Spawn BY <3>3 DEF Spawn
    <3>4. CASE ~ScanOutput /\ ~Spawn
      <4>1. UNCHANGED <<spc, OFilesSet>>
        BY <2>1, <3>4 DEF Main, ScanInput, HandleDir, JoinSorters, QueueDelete,
                          SetDone, JoinWorkers, RemoveDir, Finish, lists
      <4> QED BY <1>0, <3>1, <4>1
    <3> QED BY <3>2, <3>3, <3>4
  <2>2. ASSUME NEW r \in Sorters, Sorter(r) PROVE Good
    <3>1. /\ spc \in [Sorters -> SorterPCs] /\ found \in [Sorters -> BOOLEAN]
          /\ sfile \in [Sorters -> Path \cup {NoPath}]
      BY <1>0 DEF Flow, Ownership, Typed, TypeOK, SortersOK
    <3>2. OFilesSet' \subseteq OFilesSet
      BY <2>2 DEF Sorter, SorterLoop, SorterPop, FindBegin, FindEnd, Compare, Push,
                  Account, EraseBegin, EraseEnd
    <3>3. CASE r # s
      <4>1. spc'[s] = spc[s] /\ found'[s] = found[s] /\ sfile'[s] = sfile[s]
        BY <2>2, <3>1, <3>3 DEF Sorter, SorterLoop, SorterPop, FindBegin, FindEnd,
                                Compare, Push, Account, EraseBegin, EraseEnd
      <4> QED BY <1>0, <3>2, <4>1
    <3>4. CASE r = s
      <4>1. CASE \/ SorterLoop(s) \/ SorterPop(s) \/ FindBegin(s) \/ Account(s)
                 \/ EraseBegin(s) \/ EraseEnd(s)
        BY <3>1, <4>1 DEF SorterLoop, SorterPop, FindBegin, Account, EraseBegin, EraseEnd
      <4>2. CASE FindEnd(s) BY <1>0, <3>1, <4>2 DEF FindEnd
      <4>3. CASE Compare(s) BY <1>0, <3>1, <4>3 DEF Compare
      <4>4. CASE Push(s) BY <1>0, <3>1, <4>4 DEF Push
      <4> QED BY <2>2, <3>4, <4>1, <4>2, <4>3, <4>4 DEF Sorter
    <3> QED BY <3>3, <3>4
  <2>3. ASSUME NEW w \in Workers, Worker(w) PROVE Good
    BY <1>0, <2>3, WorkerKeeps
  <2>4. CASE Kill \/ Rerun BY <2>4, RestartKeeps DEF Restart
  <2>5. CASE UNCHANGED vars \/ Terminated BY <1>0, <2>5, StutterKeeps
  <2> QED BY <2>1, <2>2, <2>3, <2>4, <2>5 DEF Next
<1>2. ASSUME NEW p \in Path, Pushed(p)' PROVE Struck(p)'
  <2>1. CASE Kill \/ Rerun BY <2>1, RestartKeeps DEF Restart, Struck
  <2>2. CASE ScanOutput
    <3>1. Main /\ UNCHANGED <<inp, in0, copyQueue, hand, wpc>> /\ ~(Kill \/ Rerun)
      BY <2>2, ScanIsMain, MainKeeps, RestartKeeps DEF ScanOutput, Restart
    <3>2. Preparing /\ copyQueue = <<>> /\ \A w \in Workers : ~WorkerHolds(w)'
      BY <1>0, <2>2, <3>1 DEF ScanOutput, NotStarted, Preparing, WorkerHolds
    <3>3. ~(Deleting' /\ Moved(p)')
      BY <1>0, <3>1, <3>2, DeletingStays DEF Flow, NotYetMoved, Moved
    <3> QED BY <1>2, <3>1, <3>2, <3>3, EmptyDeque DEF Pushed
  <2>3. CASE ~(Kill \/ Rerun) /\ ~ScanOutput
    <3>1. CASE Pushed(p) BY <1>0, <2>3, <3>1, StaysStruck
    <3>2. ASSUME NEW s \in Sorters, Push(s), sfile[s] = p PROVE Struck(p)'
      <4>1. spc \in [Sorters -> SorterPCs]
        BY <1>0 DEF Flow, Ownership, Typed, TypeOK, SortersOK
      <4>2. spc'[s] = "account" /\ UNCHANGED <<sfile, found, OFilesSet>>
        BY <3>2, <4>1 DEF Push
      <4>3. found[s] \/ p \notin OFilesSet
        BY <1>0, <3>2 DEF Push
      <4> QED BY <3>2, <4>2, <4>3 DEF Struck, WillErase
    <3> QED BY <1>0, <1>2, <2>3, <3>1, <3>2, PushedBefore
  <2> QED BY <2>1, <2>2, <2>3
<1> QED BY <1>1, <1>2

\* A complete listing leaves no input file unmatched.
LEMMA CompleteNext == Picture /\ [Next]_vars => Complete'
<1> SUFFICES ASSUME Picture, [Next]_vars, misled' = {}
             PROVE  /\ phase' = "scanOut" => Files(inp)' \subseteq Range(IFilesSet')
                    /\ phase' \notin {"scanIn", "scanOut"} =>
                         \A p \in Files(inp)' \cap OFilesSet' :
                             \/ p \in Range(IFilesSet')
                             \/ \E s \in Sorters : sfile'[s] = p /\ WillMatch(s)'
  BY DEF Complete
<1>0. /\ Flow /\ NotStarted /\ misled = {} /\ clash = {}
      /\ \A s \in Sorters : spc[s] = "stat" => found[s]
      /\ phase = "scanOut" => Files(inp) \subseteq Range(IFilesSet)
      /\ phase \notin {"scanIn", "scanOut"} =>
            \A p \in Files(inp) \cap OFilesSet :
                \/ p \in Range(IFilesSet)
                \/ \E s \in Sorters : sfile[s] = p /\ WillMatch(s)
  BY MisledGrows DEF Picture, Flow, Ownership, NoClash, Matching, Complete
<1>1. ASSUME phase' = "scanOut", NEW p \in Path, p \in Files(inp)'
      PROVE  p \in Range(IFilesSet')
  <2>1. p \in Files(inp) BY <1>0, <1>1, InputShrinks
  <2>2. CASE ScanInput
    <3>1. PICK S \in Listings(inp) :
              /\ IFilesSet' \in SetToSeqs(S \cap Files(inp))
              /\ misled' = misled \cup (IF S = Entries(inp) THEN {} ELSE {"in"})
      BY <2>2 DEF ScanInput
    <3>2. S = Entries(inp) BY <3>1
    <3>3. S \cap Files(inp) \in SUBSET Path BY DEF Files
    <3>4. Range(IFilesSet') = S \cap Files(inp) BY <3>1, <3>3, ScanRange
    <3> QED BY <2>1, <3>2, <3>4 DEF Entries
  <2>3. CASE ~ScanInput
    <3>1. phase = "scanOut" /\ UNCHANGED IFilesSet
      <4>1. CASE Main
        BY <1>1, <2>3, <4>1 DEF Main, ScanOutput, HandleDir, Spawn, JoinSorters,
             QueueDelete, SetDone, JoinWorkers, RemoveDir, Finish
      <4>2. ASSUME NEW s \in Sorters, Sorter(s) PROVE FALSE
        <5>1. spc[s] # "unborn" /\ UNCHANGED phase
          BY <4>2, SorterKeeps DEF Sorter, SorterLoop, SorterPop, FindBegin, FindEnd,
               Compare, Push, Account, EraseBegin, EraseEnd
        <5> QED BY <1>0, <1>1, <5>1 DEF NotStarted
      <4>3. ASSUME NEW w \in Workers, Worker(w)
            PROVE  phase = "scanOut" /\ UNCHANGED IFilesSet
        BY <1>1, <4>3, WorkerKeeps
      <4>4. CASE Kill \/ Rerun BY <1>1, <4>4, RestartKeeps DEF Restart
      <4>5. CASE UNCHANGED vars \/ Terminated BY <1>1, <4>5, StutterKeeps
      <4> QED BY <4>1, <4>2, <4>3, <4>4, <4>5 DEF Next
    <3> QED BY <1>0, <2>1, <3>1
  <2> QED BY <2>2, <2>3
<1>2. ASSUME phase' \notin {"scanIn", "scanOut"}, NEW p \in Path, p \in Files(inp)',
             p \in OFilesSet'
      PROVE  \/ p \in Range(IFilesSet')
             \/ \E s \in Sorters : sfile'[s] = p /\ WillMatch(s)'
  <2> DEFINE Met == \/ p \in Range(IFilesSet)
                    \/ \E s \in Sorters : sfile[s] = p /\ WillMatch(s)
  <2>1. p \in Files(inp) BY <1>0, <1>2, InputShrinks
  <2>2. CASE ScanOutput
    BY <1>0, <2>1, <2>2 DEF ScanOutput
  <2>3. CASE Main /\ ~ScanOutput
    <3>1. phase \notin {"scanIn", "scanOut"} /\ UNCHANGED <<OFilesSet, IFilesSet>>
      BY <1>2, <2>3 DEF Main, ScanInput, HandleDir, Spawn, JoinSorters, QueueDelete,
           SetDone, JoinWorkers, RemoveDir, Finish, lists
    <3>2. Met BY <1>0, <1>2, <2>1, <3>1
    <3>3. UNCHANGED <<sfile, found>> BY <2>3, MainKeeps
    <3>4. CASE Spawn
      <4>1. \A s \in Sorters : spc[s] = "unborn"
        BY <1>0, <3>4 DEF Spawn, NotStarted
      <4> QED BY <3>1, <3>2, <4>1 DEF WillMatch
    <3>5. CASE UNCHANGED spc BY <3>1, <3>2, <3>3, <3>5 DEF WillMatch
    <3> QED BY <2>3, <3>4, <3>5, MainPhases
  <2>4. ASSUME NEW s \in Sorters, Sorter(s)
        PROVE  \/ p \in Range(IFilesSet')
               \/ \E r \in Sorters : sfile'[r] = p /\ WillMatch(r)'
    <3>1. /\ spc \in [Sorters -> SorterPCs] /\ found \in [Sorters -> BOOLEAN]
          /\ sfile \in [Sorters -> Path \cup {NoPath}] /\ IFilesSet \in Seq(Path)
      BY <1>0 DEF Flow, Ownership, Typed, TypeOK, SortersOK, ListsOK
    <3>2. UNCHANGED phase /\ OFilesSet' \subseteq OFilesSet
      BY <2>4, SorterKeeps DEF Sorter, SorterLoop, SorterPop, FindBegin, FindEnd,
           Compare, Push, Account, EraseBegin, EraseEnd
    <3>3. Met BY <1>0, <1>2, <2>1, <3>2
    <3>4. ASSUME NEW r \in Sorters, r # s, sfile[r] = p, WillMatch(r)
          PROVE  sfile'[r] = p /\ WillMatch(r)'
      BY <2>4, <3>1, <3>4
         DEF Sorter, SorterLoop, SorterPop, FindBegin, FindEnd, Compare, Push, Account,
             EraseBegin, EraseEnd, WillMatch
    <3>5. ASSUME sfile[s] = p, WillMatch(s) PROVE sfile'[s] = p /\ WillMatch(s)'
      <4>1. CASE SorterLoop(s) \/ SorterPop(s)
        BY <3>5, <4>1 DEF SorterLoop, SorterPop, WillMatch
      <4>2. CASE FindBegin(s) BY <3>1, <3>5, <4>2 DEF FindBegin, WillMatch
      <4>3. CASE FindEnd(s)
        BY <1>0, <1>2, <3>1, <3>2, <3>5, <4>3 DEF FindEnd, WillMatch
      <4>4. CASE Compare(s)
        BY <1>0, <3>1, <3>5, <4>4 DEF Compare, WillMatch
      <4>5. CASE Push(s) BY <3>1, <3>5, <4>5 DEF Push, WillMatch
      <4>6. CASE Account(s) BY <3>1, <3>5, <4>6 DEF Account, WillMatch
      <4>7. CASE EraseBegin(s) BY <3>1, <3>5, <4>7 DEF EraseBegin, WillMatch
      <4>8. CASE EraseEnd(s) BY <1>0, <1>2, <3>5, <4>8 DEF EraseEnd
      <4> QED BY <2>4, <4>1, <4>2, <4>3, <4>4, <4>5, <4>6, <4>7, <4>8 DEF Sorter
    <3>6. CASE p \in Range(IFilesSet)
      <4>1. CASE SorterPop(s) /\ IFilesSet # <<>>
        <5>1. Range(Tail(IFilesSet)) = Range(IFilesSet) \ {Head(IFilesSet)}
          BY <1>0, <3>1, <4>1, PopFront DEF Flow, Ownership, Owned
        <5>2. CASE p = Head(IFilesSet)
          BY <3>1, <4>1, <5>2 DEF SorterPop, WillMatch
        <5> QED BY <3>6, <4>1, <5>1, <5>2 DEF SorterPop
      <4>2. CASE ~(SorterPop(s) /\ IFilesSet # <<>>)
        BY <2>4, <3>6, <4>2
           DEF Sorter, SorterLoop, SorterPop, FindBegin, FindEnd, Compare, Push,
               Account, EraseBegin, EraseEnd
      <4> QED BY <4>1, <4>2
    <3> QED BY <3>3, <3>4, <3>5, <3>6
  <2>5. ASSUME NEW w \in Workers, Worker(w)
        PROVE  \/ p \in Range(IFilesSet')
               \/ \E r \in Sorters : sfile'[r] = p /\ WillMatch(r)'
    BY <1>0, <1>2, <2>1, <2>5, WorkerKeeps DEF WillMatch
  <2>6. CASE Kill \/ Rerun BY <1>2, <2>6, RestartKeeps DEF Restart
  <2>7. CASE UNCHANGED vars \/ Terminated
    BY <1>0, <1>2, <2>1, <2>7, StutterKeeps DEF WillMatch
  <2> QED BY <2>2, <2>3, <2>4, <2>5, <2>6, <2>7 DEF Next
<1> QED BY <1>1, <1>2 DEF Files

\* get_pop_front and push_back on a deque that may hold something twice.
LEMMA DequeRange ==
    ASSUME NEW S, NEW q \in Seq(S)
    PROVE  /\ q # <<>> => /\ Head(q) \in Range(q) /\ Range(Tail(q)) \subseteq Range(q)
                          /\ Range(q) \ {Head(q)} \subseteq Range(Tail(q))
           /\ \A e \in S : Range(Append(q, e)) = Range(q) \cup {e}
<1>1. Len(q) \in Nat /\ DOMAIN q = 1 .. Len(q)
  OBVIOUS
<1>2. ASSUME q # <<>>
      PROVE  /\ Head(q) \in Range(q) /\ Range(Tail(q)) \subseteq Range(q)
             /\ Range(q) \ {Head(q)} \subseteq Range(Tail(q))
  <2>1. Len(q) > 0 /\ Head(q) = q[1] /\ 1 \in DOMAIN q
    BY <1>1, <1>2
  <2>2. /\ DOMAIN Tail(q) = 1 .. Len(q) - 1
        /\ \A i \in 1 .. Len(q) - 1 : Tail(q)[i] = q[i + 1] /\ i + 1 \in DOMAIN q
    BY <1>1, <1>2, <2>1
  <2>3. \A i \in DOMAIN q : i # 1 => i - 1 \in 1 .. Len(q) - 1 /\ Tail(q)[i - 1] = q[i]
    BY <1>1, <2>2
  <2>4. Head(q) \in Range(q) /\ Range(Tail(q)) \subseteq Range(q)
    BY <2>1, <2>2 DEF Range
  <2>5. ASSUME NEW e \in Range(q), e # Head(q) PROVE e \in Range(Tail(q))
    <3>1. PICK i \in DOMAIN q : e = q[i] BY <2>5 DEF Range
    <3>2. i - 1 \in DOMAIN Tail(q) /\ Tail(q)[i - 1] = e BY <2>1, <2>2, <2>3, <2>5, <3>1
    <3> QED BY <3>2 DEF Range
  <2> QED BY <2>4, <2>5
<1>3. ASSUME NEW e \in S PROVE Range(Append(q, e)) = Range(q) \cup {e}
  <2>1. /\ DOMAIN Append(q, e) = 1 .. Len(q) + 1
        /\ \A i \in 1 .. Len(q) : Append(q, e)[i] = q[i]
        /\ Append(q, e)[Len(q) + 1] = e
    BY <1>1
  <2> QED BY <1>1, <2>1 DEF Range
<1> QED BY <1>2, <1>3

\* Deletions are queued after the sorters are joined, from what is left.
LEMMA DeletionsNext == Picture /\ [Next]_vars => Deletions'
<1> SUFFICES ASSUME Picture, [Next]_vars PROVE Deletions'
  OBVIOUS
<1>0. /\ Deletions /\ Flow
      /\ deleteQueue \in Seq(Seq(Name)) /\ wpc \in [Workers -> WorkerPCs]
      /\ hand \in [Workers -> Seq(Name)]
  BY DEF Picture, Flow, Ownership, Typed, TypeOK, QueuesOK, WorkersOK
<1>1. CASE Main
  <2>1. UNCHANGED <<opts, hand>> BY <1>1, MainKeeps
  <2>2. CASE ScanInput \/ ScanOutput \/ (\E d \in Path : HandleDir(d))
    <3>1. /\ Preparing /\ UNCHANGED <<toDelete, deleteQueue, wpc>>
      BY <2>2 DEF ScanInput, ScanOutput, HandleDir, Preparing
    <3> QED BY <1>0, <2>1, <3>1, EmptyDeque DEF Deletions
  <2>3. CASE Spawn
    BY <1>0, <2>1, <2>3, EmptyDeque DEF Spawn, Deletions, Preparing, lists
  <2>4. CASE JoinSorters
    <3>1. /\ phase = "sort" /\ phase' = "queue"
          /\ UNCHANGED <<OFilesSet, deleteQueue, wpc>>
          /\ toDelete' = IF opts.deletewithoutmatch THEN OFilesSet ELSE {}
      BY <2>4 DEF JoinSorters
    <3> QED BY <1>0, <2>1, <3>1, EmptyDeque DEF Deletions, Preparing
  <2>5. ASSUME NEW f \in Path, QueueDelete(f) PROVE Deletions'
    <3>1. /\ UNCHANGED <<phase, OFilesSet, wpc>> /\ f \in toDelete
          /\ toDelete' = toDelete \ {f}
          /\ deleteQueue' = Append(deleteQueue, DeleteEntry(f))
      BY <2>5 DEF QueueDelete
    <3>2. DeleteEntry(f) \in Seq(Name) BY DEF DeleteEntry
    <3>3. Range(deleteQueue') = Range(deleteQueue) \cup {DeleteEntry(f)}
      BY <1>0, <3>1, <3>2, DequeRange
    <3> QED BY <1>0, <2>1, <3>1, <3>3 DEF Deletions, Preparing
  <2>6. CASE SetDone \/ JoinWorkers \/ Finish \/ (\E d \in Path : RemoveDir(d))
    <3>1. /\ UNCHANGED <<toDelete, OFilesSet, deleteQueue, wpc>>
          /\ phase \notin {"scanIn", "scanOut", "dirs", "sort"}
          /\ phase' \notin {"scanIn", "scanOut", "dirs", "sort"}
      BY <2>6 DEF SetDone, JoinWorkers, Finish, RemoveDir, lists
    <3> QED BY <1>0, <2>1, <3>1 DEF Deletions, Preparing
  <2> QED BY <1>1, <2>2, <2>3, <2>4, <2>5, <2>6 DEF Main
<1>2. ASSUME NEW s \in Sorters, Sorter(s) PROVE Deletions'
  <2>1. UNCHANGED <<phase, opts, toDelete, deleteQueue, wpc, hand>>
    BY <1>2, SorterKeeps
  <2>2. spc[s] # "done"
    BY <1>2 DEF Sorter, SorterLoop, SorterPop, FindBegin, FindEnd, Compare, Push,
                Account, EraseBegin, EraseEnd
  <2>3. phase \in {"scanIn", "scanOut", "dirs", "sort"}
    BY <1>0, <2>2 DEF Flow, SortersDrain, SortersJoined, Ownership, Typed, TypeOK,
                      ControlOK, Phases
  <2> QED BY <1>0, <2>1, <2>3, EmptyDeque DEF Deletions, Preparing
<1>3. ASSUME NEW w \in Workers, Worker(w) PROVE Deletions'
  <2>1. UNCHANGED <<phase, opts, toDelete, OFilesSet>>
    BY <1>3, WorkerKeeps
  <2>2. CASE PopDelete(w) /\ deleteQueue # <<>>
    <3>1. /\ Head(deleteQueue) \in Range(deleteQueue)
          /\ Range(Tail(deleteQueue)) \subseteq Range(deleteQueue)
      BY <1>0, <2>2, DequeRange
    <3>2. /\ hand' = [hand EXCEPT ![w] = Head(deleteQueue)]
          /\ deleteQueue' = Tail(deleteQueue)
          /\ wpc' = [wpc EXCEPT ![w] = "remove"]
      BY <2>2 DEF PopDelete
    <3> QED BY <1>0, <2>1, <2>2, <3>1, <3>2 DEF Deletions, Preparing
  <2>3. CASE ~(PopDelete(w) /\ deleteQueue # <<>>)
    <3>1. UNCHANGED deleteQueue
      BY <1>3, <2>3 DEF Worker, WorkerLoop, WorkerCheckCopy, WorkerCheckDelete,
           PopCopy, Rename, CopyBegin, CopyEnd, Count, PopDelete, RemoveFile, queues
    <3>2. \A v \in Workers : wpc'[v] = "remove" =>
              wpc[v] = "remove" /\ hand'[v] = hand[v]
      <4>1. \A v \in Workers \ {w} : wpc'[v] = wpc[v] /\ hand'[v] = hand[v]
        <5>1. Typed BY <1>0 DEF Flow, Ownership
        <5> QED BY <1>0, <1>3, <5>1, WorkerMoves
                DEF Takes, Fails, Writes, Counts, GoesOn
      <4>2. wpc'[w] # "remove"
        BY <1>0, <1>3, <2>3
           DEF Worker, WorkerLoop, WorkerCheckCopy, WorkerCheckDelete, PopCopy, Rename,
               CopyBegin, CopyEnd, CopyError, Count, PopDelete, RemoveFile
      <4> QED BY <4>1, <4>2
    <3> QED BY <1>0, <2>1, <3>1, <3>2 DEF Deletions, Preparing
  <2> QED BY <2>2, <2>3
<1>4. CASE Kill \/ Rerun
  BY <1>4, RestartKeeps, EmptyDeque DEF Restart, Deletions
<1>5. CASE UNCHANGED vars \/ Terminated
  BY <1>0, <1>5, StutterKeeps DEF Deletions, Preparing
<1> QED BY <1>1, <1>2, <1>3, <1>4, <1>5 DEF Next

\* With a harmless prefix a deletion falls on the file it is meant for.
LEMMA SafeEntry ==
    ASSUME SafePrefix, NEW f \in Path, DeleteEntry(f) \in Path
    PROVE  DeleteEntry(f) = f
<1>1. OutputPrefix = <<>> BY DEF SafePrefix
<1>2. f \in Seq(Name) OBVIOUS
<1> QED BY <1>1, <1>2 DEF DeleteEntry

\* So a worker removes nothing but what OFilesSet was left with.
LEMMA RemovesUnmatched ==
    ASSUME Picture, SafePrefix, NEW w \in Workers, wpc[w] = "remove", hand[w] \in Path
    PROVE  /\ hand[w] \in OFilesSet /\ opts.deletewithoutmatch
           /\ ~Preparing /\ phase # "sort"
<1>1. PICK f \in OFilesSet : hand[w] = DeleteEntry(f)
  BY DEF Picture, Deletions
<1>2. f \in Path
  BY DEF Picture, Flow, Ownership, Typed, TypeOK, ListsOK
<1> QED BY <1>1, <1>2, SafeEntry DEF Picture, Deletions

\* A worker is at work only before the directories are removed.
LEMMA WorksInTime ==
    ASSUME Flow, NEW w \in Workers, Worker(w)
    PROVE  phase \notin {"rmDirs", "finished"}
<1>1. wpc[w] # "done"
  BY DEF Worker, WorkerLoop, WorkerCheckCopy, WorkerCheckDelete, PopCopy, Rename,
         CopyBegin, CopyEnd, Count, PopDelete, RemoveFile
<1> QED BY <1>1 DEF Flow, Joined, WorkersJoined

\* Only the last loop removes directories.
LEMMA DirsStayNext == Picture /\ [Next]_vars => DirsStay'
<1> SUFFICES ASSUME Picture, [Next]_vars PROVE DirsStay'
  OBVIOUS
<1>0. Flow /\ DirsStay /\ out \in [Path -> Node] /\ SafePrefix' = SafePrefix
  BY DEF Picture, Flow, Ownership, Typed, TypeOK, TreesOK, Tree, SafePrefix
<1>1. CASE Main
  <2>1. CASE ScanInput \/ Spawn \/ JoinSorters \/ (\E f \in Path : QueueDelete(f))
             \/ SetDone \/ JoinWorkers \/ Finish
    <3>1. /\ UNCHANGED <<out, OFilesSet, ODirSet>>
          /\ phase' \in {"scanIn", "scanOut"} => phase \in {"scanIn", "scanOut"}
          /\ phase' \notin {"rmDirs", "finished"} => phase \notin {"rmDirs", "finished"}
      BY <2>1 DEF ScanInput, Spawn, JoinSorters, QueueDelete, SetDone, JoinWorkers,
                  Finish, lists
    <3> QED BY <1>0, <3>1 DEF DirsStay, Files, Dirs
  <2>2. CASE ScanOutput
    <3>1. PICK S : OFilesSet' = S \cap Files(out) /\ ODirSet' = S \cap Dirs(out)
      BY <2>2 DEF ScanOutput
    <3>2. Files(out) \cap Dirs(out) = {} BY DEF Files, Dirs
    <3>3. UNCHANGED out /\ phase' = "dirs" BY <2>2 DEF ScanOutput
    <3> QED BY <3>1, <3>2, <3>3 DEF DirsStay, Files, Dirs
  <2>3. ASSUME NEW d \in Path, HandleDir(d) PROVE DirsStay'
    <3>1. ODirSet' \subseteq ODirSet /\ UNCHANGED <<OFilesSet, phase>> /\ phase = "dirs"
      BY <2>3 DEF HandleDir
    <3>2. \A p \in Path : out'[p] = out[p] \/ out'[p] = Dir
      BY <1>0, <2>3, CreatedDirs DEF HandleDir, Tree
    <3>3. Dirs(out) \subseteq Dirs(out)' /\ Files(out)' \subseteq Files(out)
      BY <3>2 DEF Dirs, Files, Dir
    <3> QED BY <1>0, <3>1, <3>3 DEF DirsStay
  <2>4. ASSUME NEW d \in Path, RemoveDir(d) PROVE DirsStay'
    <3>1. /\ ODirSet' \subseteq ODirSet /\ UNCHANGED <<OFilesSet, phase>>
          /\ phase = "rmDirs"
      BY <2>4 DEF RemoveDir
    <3>2. \A p \in Path : out'[p] = out[p] \/ out'[p] = Absent
      BY <2>4 DEF RemoveDir, Without
    <3>3. Files(out)' \subseteq Files(out)
      BY <3>2 DEF Files, Absent
    <3> QED BY <1>0, <3>1, <3>3 DEF DirsStay
  <2> QED BY <1>1, <2>1, <2>2, <2>3, <2>4 DEF Main
<1>2. ASSUME NEW s \in Sorters, Sorter(s) PROVE DirsStay'
  <2>1. OFilesSet' \subseteq OFilesSet
    BY <1>2 DEF Sorter, SorterLoop, SorterPop, FindBegin, FindEnd, Compare, Push,
                Account, EraseBegin, EraseEnd
  <2> QED BY <1>0, <1>2, <2>1, SorterKeeps DEF DirsStay, Files, Dirs
<1>3. ASSUME NEW w \in Workers, Worker(w) PROVE DirsStay'
  <2>1. /\ UNCHANGED <<OFilesSet, ODirSet, phase>>
        /\ phase \notin {"rmDirs", "finished"}
    BY <1>0, <1>3, WorkerKeeps, WorksInTime
  <2>2. ASSUME SafePrefix, NEW p \in ODirSet PROVE p \in Dirs(out)'
    <3>1. p \in Dirs(out) /\ p \in Path /\ p \notin OFilesSet
      BY <1>0, <2>1, <2>2 DEF DirsStay, Dirs
    <3>2. out'[p] = out[p]
      <4>1. CASE Renames(w) \/ Truncates(w) \/ Fills(w)
        <5>1. p # hand[w]
          BY <3>1, <4>1 DEF Renames, Truncates, Fills, Writable, Dirs
        <5>2. CASE Renames(w) BY <1>0, <3>1, <5>1, <5>2 DEF Renames
        <5>3. CASE Truncates(w) BY <1>0, <3>1, <5>1, <5>3 DEF Truncates
        <5>4. CASE Fills(w) BY <1>0, <3>1, <5>1, <5>4 DEF Fills
        <5> QED BY <4>1, <5>2, <5>3, <5>4
      <4>2. CASE Removes(w)
        <5>1. p # hand[w]
          BY <2>2, <3>1, <4>2, RemovesUnmatched DEF Removes
        <5> QED BY <3>1, <4>2, <5>1 DEF Removes, Without
      <4>3. CASE UNCHANGED <<inp, out>> BY <4>3
      <4> QED BY <1>3, <4>1, <4>2, <4>3, WorkerTrees
    <3> QED BY <3>1, <3>2 DEF Dirs
  <2>3. Files(out)' \cap Dirs(out)' = {} BY DEF Files, Dirs
  <2> QED BY <1>0, <2>1, <2>2, <2>3 DEF DirsStay
<1>4. CASE Kill \/ Rerun BY <1>4, RestartKeeps DEF Restart, DirsStay
<1>5. CASE UNCHANGED vars \/ Terminated
  BY <1>0, <1>5, StutterKeeps DEF DirsStay, Files, Dirs
<1> QED BY <1>1, <1>2, <1>3, <1>4, <1>5 DEF Next

\* Every step keeps the picture.
LEMMA PictureNext == Picture /\ [Next]_vars => Picture'
BY FlowNext, ShelterNext, MatchingNext, CompleteNext, DeletionsNext, DirsStayNext
   DEF Picture


-----------------------------------------------------------------------------
(***************************************************************************)
(* What becomes of the output files                                        *)
(***************************************************************************)

\* A worker that moves or copies changes the node of its own file only.
WritesTo(w, p) ==
    /\ Worker(w) /\ hand[w] = p
    /\ Renames(w) \/ Truncates(w) \/ Fills(w)

\* All that can happen to a node of the output tree: a directory is created
\* where no file was, a directory without match goes and takes it along, a
\* worker writes it, a worker removes it.
LEMMA OutputChanges ==
    ASSUME Typed, [Next]_vars, NEW p \in Path, out'[p] # out[p]
    PROVE  \/ /\ phase = "dirs" /\ \E d \in IDirSet : p = d \/ p \in Above(d)
              /\ out[p].kind # "file" /\ out'[p] = Dir
           \/ /\ phase = "rmDirs" /\ opts.deletewithoutmatch
              /\ \E d \in ODirSet : d = p \/ d \in Above(p)
              /\ out'[p] = Absent
           \/ \E w \in Workers : WritesTo(w, p)
           \/ \E w \in Workers : /\ Worker(w) /\ Removes(w) /\ hand[w] = p
                                 /\ out'[p] = Absent
<1>0. out \in [Path -> Node] /\ inp \in [Path -> Node]
  BY DEF Typed, TypeOK, TreesOK, Tree
<1>1. ASSUME Main
      PROVE  \/ /\ phase = "dirs" /\ \E d \in IDirSet : p = d \/ p \in Above(d)
                /\ out[p].kind # "file" /\ out'[p] = Dir
             \/ /\ phase = "rmDirs" /\ opts.deletewithoutmatch
                /\ \E d \in ODirSet : d = p \/ d \in Above(p)
                /\ out'[p] = Absent
  <2>1. ASSUME NEW d \in Path, HandleDir(d)
        PROVE  /\ phase = "dirs" /\ d \in IDirSet /\ (p = d \/ p \in Above(d))
               /\ out[p].kind # "file" /\ out'[p] = Dir
    <3>1. /\ phase = "dirs" /\ d \in IDirSet
          /\ Creatable(out, d) /\ out' = CreateDirectories(out, d)
      BY <2>1 DEF HandleDir
    <3>2. out \in Tree BY <1>0 DEF Tree
    <3>3. /\ out[p].kind = "file" => out'[p] = out[p]
          /\ out'[p] = out[p] \/ out'[p] = Dir
      BY <3>1, <3>2, CreatedDirs
    <3>4. p = d \/ p \in Above(d) BY <3>1 DEF CreateDirectories
    <3> QED BY <3>1, <3>3, <3>4
  <2>2. ASSUME NEW d \in Path, RemoveDir(d)
        PROVE  /\ phase = "rmDirs" /\ opts.deletewithoutmatch
               /\ d \in ODirSet /\ (d = p \/ d \in Above(p))
               /\ out'[p] = Absent
    <3>1. PICK S \in SUBSET (Below(d) \cup {d}) : out' = Without(out, S)
      BY <2>2 DEF RemoveDir, PartialRemovals
    <3>2. p \in S /\ out'[p] = Absent BY <3>1 DEF Without
    <3>3. d = p \/ d \in Above(p) BY <3>2 DEF Below, Above
    <3> QED BY <2>2, <3>2, <3>3 DEF RemoveDir
  <2>3. CASE \/ ScanInput \/ ScanOutput \/ Spawn \/ JoinSorters
             \/ (\E f \in Path : QueueDelete(f)) \/ SetDone \/ JoinWorkers \/ Finish
    BY <2>3 DEF ScanInput, ScanOutput, Spawn, JoinSorters, QueueDelete, SetDone,
                JoinWorkers, Finish
  <2> QED BY <1>1, <2>1, <2>2, <2>3 DEF Main
<1>2. ASSUME NEW s \in Sorters, Sorter(s) PROVE FALSE
  BY <1>2, SorterKeeps
<1>3. ASSUME NEW w \in Workers, Worker(w)
      PROVE  WritesTo(w, p) \/ (Removes(w) /\ hand[w] = p /\ out'[p] = Absent)
  <2>1. CASE Renames(w) BY <1>0, <1>3, <2>1 DEF Renames, WritesTo
  <2>2. CASE Truncates(w) BY <1>0, <1>3, <2>2 DEF Truncates, WritesTo
  <2>3. CASE Fills(w) BY <1>0, <1>3, <2>3 DEF Fills, WritesTo
  <2>4. CASE Removes(w) BY <2>4 DEF Removes, Without
  <2> QED BY <1>3, <2>1, <2>2, <2>3, <2>4, WorkerTrees
<1>4. CASE Kill \/ Rerun BY <1>4, RestartKeeps
<1>5. CASE UNCHANGED vars \/ Terminated BY <1>5, StutterKeeps
<1> QED BY <1>1, <1>2, <1>3, <1>4, <1>5 DEF Next

\* What a worker writes at p: p is a file of the input tree, and the node is
\* that file, a copy of it, or the truncated beginning of one.
LEMMA WritesInput ==
    ASSUME Flow, NEW w \in Workers, NEW p \in Path, WritesTo(w, p)
    PROVE  /\ p \in Files(inp) /\ ~Unowned(p) /\ WorkerHolds(w)
           /\ \/ Renames(w) /\ out'[p] = inp[p]
              \/ Truncates(w) /\ out'[p] = Torn
              \/ Fills(w) /\ out'[p] = Copied(inp[p])
<1>1. out \in [Path -> Node] BY DEF Flow, Ownership, Typed, TypeOK, TreesOK, Tree
<1>2. WorkerHolds(w) BY DEF WritesTo, Renames, Truncates, Fills, WorkerHolds
<1>3. ~Unowned(p) /\ p \in Files(inp)
  BY <1>2 DEF Flow, FilesHeld, Unowned, WritesTo
<1> QED BY <1>1, <1>2, <1>3 DEF WritesTo, Renames, Truncates, Fills

\* The directories of the input tree stay, and its files are a part of what
\* they were.
LEMMA InputParts ==
    ASSUME Flow
    PROVE  /\ Dirs(inp) = Dirs(in0) /\ Files(inp) \subseteq Files(in0)
           /\ \A p \in Files(inp) : inp[p] = in0[p] /\ in0[p].from = "in"
           /\ WellFormed(in0)
<1>1. \A p \in Path : \/ inp[p] = in0[p]
                      \/ in0[p].kind = "file" /\ inp[p].kind = "absent"
  BY DEF Flow, InputKept, Absent
<1> QED BY <1>1, TreeAssumption DEF Dirs, Files, Flow, InputKept

\* A file that is moved, or was listed in the input tree, is not queued for
\* deletion: it is no longer in OFilesSet when the sorters are done.
LEMMA NotRemoved ==
    ASSUME Picture, NEW p \in Path,
           \/ ~opts.deletewithoutmatch
           \/ SafePrefix /\ Rematched /\ "race" \notin misled /\ Moved(p)
           \/ SafePrefix /\ misled = {} /\ p \in Files(inp)
    PROVE  ~ \E w \in Workers : wpc[w] = "remove" /\ hand[w] = p
<1>0. Typed /\ Flow BY DEF Picture, Flow, Ownership
<1>1. ASSUME NEW w \in Workers, wpc[w] = "remove", hand[w] = p PROVE FALSE
  <2>1. opts.deletewithoutmatch BY <1>1 DEF Picture, Deletions
  <2>2. /\ p \in OFilesSet /\ ~Preparing /\ phase # "sort"
    BY <1>1, <2>1, RemovesUnmatched
  <2>3. SortersJoined /\ IFilesSet = <<>>
    BY <1>0, <2>2, ThreadAssumption
       DEF Flow, SortersDrain, SortersJoined, Preparing, Typed, TypeOK, ControlOK, Phases
  <2>4. ~Struck(p) BY <2>2, <2>3 DEF Struck, WillErase, SortersJoined
  <2>5. CASE Rematched /\ "race" \notin misled /\ Moved(p)
    BY <2>1, <2>4, <2>5 DEF Picture, Matching, Pushed, Deleting
  <2>6. CASE misled = {} /\ p \in Files(inp)
    BY <2>2, <2>3, <2>6, EmptyDeque
       DEF Picture, Complete, Preparing, WillMatch, SortersJoined
  <2> QED BY <2>1, <2>5, <2>6
<1> QED BY <1>1

\* Nor does it go with a directory: its directories are matched.
LEMMA Spared ==
    ASSUME Picture, [Next]_vars, NEW p \in Path, p \in Files(out), out'[p] # out[p],
           \/ ~opts.deletewithoutmatch
           \/ SafePrefix /\ Rematched /\ "race" \notin misled /\ Moved(p)
           \/ SafePrefix /\ misled = {} /\ p \in Files(inp)
    PROVE  \E w \in Workers : WritesTo(w, p)
<1>0. Typed /\ Flow BY DEF Picture, Flow, Ownership
<1>1. ~ \E w \in Workers : wpc[w] = "remove" /\ hand[w] = p
  BY NotRemoved
<1>2. ASSUME opts.deletewithoutmatch, phase = "rmDirs", NEW d \in ODirSet,
             d = p \/ d \in Above(p)
      PROVE  FALSE
  <2>1. d # p BY <1>2 DEF Picture, DirsStay
  <2>2. IDirSet = {} BY <1>2 DEF Picture, Shelter, Preparing
  <2>3. Sheltered(p)
    BY <1>2 DEF Picture, Shelter, Deleting, Entered
  <2> QED BY <1>2, <2>1, <2>2, <2>3 DEF Sheltered
<1> QED BY <1>0, <1>1, <1>2, OutputChanges DEF Files, Removes

\* A run that is not a rerun of a moving and deleting one follows no such run.
LEMMA RematchedBefore ==
    ASSUME Flow, [Next]_vars, Rematched'
    PROVE  Rematched
<1>1. CASE Kill \/ Rerun
  BY <1>1, RestartKeeps
     DEF Restart, Rematched, Flow, InputKept, Ownership, Typed, TypeOK, TreesOK
<1>2. CASE ~(Kill \/ Rerun)
  BY <1>2, DeletingStays, InputChanges DEF Rematched
<1> QED BY <1>1, <1>2

\* The bytes of what was moved are in the output tree.
DataKept ==
    "race" \notin misled /\ SafePrefix /\ Rematched =>
        \A p \in Path : Moved(p) => out[p] = in0[p]

\* What rename has moved is neither overwritten nor deleted.
LEMMA DataKeptNext == Picture /\ DataKept /\ [Next]_vars => DataKept'
<1> SUFFICES ASSUME Picture, DataKept, [Next]_vars, "race" \notin misled', SafePrefix,
                    Rematched', NEW p \in Path, Moved(p)'
             PROVE  out'[p] = in0'[p]
  BY DEF DataKept, SafePrefix
<1>0. /\ Flow /\ Typed /\ UNCHANGED <<in0, opts>> /\ in0 \in [Path -> Node]
      /\ out \in [Path -> Node] /\ inp \in [Path -> Node]
  BY InputChanges DEF Picture, Flow, Ownership, Typed, TypeOK, TreesOK, Tree
<1>1. "race" \notin misled BY MisledGrows
<1>2. Rematched BY <1>0, RematchedBefore
<1>3. CASE Moved(p)
  <2>1. out[p] = in0[p] /\ in0[p].kind = "file" /\ inp[p] = Absent
    BY <1>0, <1>1, <1>2, <1>3 DEF DataKept, Moved, Flow, InputKept
  <2>2. ASSUME NEW w \in Workers, WritesTo(w, p) PROVE FALSE
    BY <1>0, <2>1, <2>2, WritesInput DEF Files, Absent
  <2> QED BY <1>0, <1>1, <1>2, <1>3, <2>1, <2>2, Spared DEF Files
<1>4. CASE ~Moved(p)
  <2>1. PICK w \in Workers : Worker(w) /\ Renames(w)
    BY <1>0, <1>4, InputChanges DEF Moved
  <2>2. hand[w] = p BY <1>0, <1>4, <2>1 DEF Renames, Moved
  <2> QED BY <1>0, <1>4, <2>1, <2>2 DEF Renames, Moved
<1> QED BY <1>3, <1>4

\* Whatever fails and wherever a run is killed, an input file is in the input
\* tree or, with -m, in the output tree, as it was.
THEOREM InputNeverLost == Spec => []NoDataLost
<1>1. Init => DataKept BY DEF Init, DataKept, Moved
<1>2. Picture /\ DataKept => NoDataLost
  BY DEF Picture, Flow, InputKept, DataKept, NoDataLost, Moved, Files
<1> QED BY <1>1, <1>2, PictureInit, PictureNext, DataKeptNext, PTL DEF Spec


\* What a worker writes is a file.
LEMMA WritesFile ==
    ASSUME Flow, NEW w \in Workers, NEW p \in Path, WritesTo(w, p)
    PROVE  out'[p].kind = "file"
<1>1. inp[p] \in Node /\ inp[p].kind = "file"
  BY WritesInput DEF Flow, Ownership, Typed, TypeOK, TreesOK, Tree, Files
<1>2. Copied(inp[p]).kind = "file" BY <1>1 DEF Copied, Node
<1> QED BY <1>1, <1>2, WritesInput DEF Torn, FileNode

\* Every step keeps the output files that have a match.
LEMMA MatchedKeptNext == Picture /\ MatchedKept /\ [Next]_vars => MatchedKept'
<1> SUFFICES ASSUME Picture, MatchedKept, [Next]_vars, NEW p \in Files(out0)',
                    \/ ~opts'.deletewithoutmatch
                    \/ p \in Files(in0)' /\ Undisturbed' /\ Rematched'
             PROVE  out'[p].kind = "file"
  BY DEF MatchedKept
<1>0. Flow /\ UNCHANGED <<in0, out0, opts>> /\ p \in Path
  BY InputChanges DEF Picture, Files
<1>1. \/ ~opts.deletewithoutmatch
      \/ p \in Files(in0) /\ misled = {} /\ SafePrefix /\ Rematched
  BY <1>0, MisledGrows, RematchedBefore DEF Undisturbed, SafePrefix, Files
<1>2. p \in Files(out) BY <1>0, <1>1 DEF MatchedKept, Files, Undisturbed
<1>3. p \in Files(in0) => Moved(p) \/ p \in Files(inp) BY DEF Moved, Files
<1>4. out'[p] = out[p] \/ \E w \in Workers : WritesTo(w, p)
  BY <1>0, <1>1, <1>2, <1>3, Spared
<1> QED BY <1>0, <1>2, <1>4, WritesFile DEF Files

\* No output file disappears without -d, and with it none that has a match.
THEOREM MatchedFilesKept == Spec => []MatchedKept
<1>1. Init => MatchedKept BY DEF Init, MatchedKept, Files
<1> QED BY <1>1, PictureInit, PictureNext, MatchedKeptNext, PTL DEF Spec


=============================================================================
