--------------------------- MODULE SyncCopyProof ----------------------------
(***************************************************************************)
(* Proofs about SyncCopy, for all trees, options, faults and numbers of    *)
(* threads: types, the end of the workers, the way of a file through the   *)
(* deques, and the numbers the monitor prints.                             *)
(***************************************************************************)
EXTENDS SyncCopyPlain, FiniteSetTheorems, TLAPS

USE PathAssumption, NowAssumption, SizeModAssumption, InputAssumption, PlainPaths
    DEF CutSet, CutSeqs, Copyable, PlainPath

-----------------------------------------------------------------------------
(***************************************************************************)
(* The operators of FileTree stay within their types                       *)
(***************************************************************************)

\* The nodes that the program puts into a tree are nodes.
LEMMA NodeTypes == Absent \in Node /\ Dir \in Node /\ Torn \in Node
BY DEF Absent, Dir, Torn, FileNode, Node, Kind, Origin

\* Sums of sizes are kept in the range of size_t.
LEMMA ModType ==
    ASSUME NEW n \in Nat PROVE n % SizeMod \in 0 .. SizeMod - 1
OBVIOUS

\* file_size returns a size_t, the error value included.
LEMMA FileSizeType ==
    ASSUME NEW t \in Tree, NEW p \in Path
    PROVE  FileSize(t, p) \in 0 .. SizeMod - 1
<1>1. t[p].size \in Nat BY DEF Tree, Node
<1>2. t[p].size % SizeMod \in 0 .. SizeMod - 1 BY <1>1, ModType
<1>3. SizeMod - 1 \in 0 .. SizeMod - 1 OBVIOUS
<1> QED BY <1>2, <1>3 DEF FileSize

\* Also when the call may fail, so that sums of sizes stay in that range.
LEMMA AddSize ==
    ASSUME NEW t \in Tree, NEW p \in Path, NEW n \in FileSizes(t, p),
           NEW b \in 0 .. SizeMod - 1
    PROVE  (b + n) % SizeMod \in 0 .. SizeMod - 1
<1>1. n \in 0 .. SizeMod - 1 BY FileSizeType DEF FileSizes
<1>2. b + n \in Nat BY <1>1
<1> QED BY <1>2, ModType

\* Overwriting one node of a tree.
LEMMA TreeExcept ==
    ASSUME NEW t \in Tree, NEW p, NEW n \in Node
    PROVE  [t EXCEPT ![p] = n] \in Tree
BY DEF Tree

\* remove, remove_all and create_directories lead from trees to trees.
LEMMA WithoutType ==
    ASSUME NEW t \in Tree, NEW S PROVE Without(t, S) \in Tree
BY NodeTypes DEF Without, Tree

\* So does create_directories.
LEMMA CreateDirectoriesType ==
    ASSUME NEW t \in Tree, NEW p PROVE CreateDirectories(t, p) \in Tree
BY NodeTypes DEF CreateDirectories, Tree

\* A copy of a node is a node.
LEMMA CopiedType == ASSUME NEW n \in Node PROVE Copied(n) \in Node
BY DEF Copied, Node

\* The order in which a walk reports files is a sequence of paths.
LEMMA SetToSeqsType ==
    ASSUME NEW S \in SUBSET Path, NEW q \in SetToSeqs(S)
    PROVE  q \in Seq(Path)
<1>1. IsFiniteSet(S) BY FS_Subset
<1>2. Cardinality(S) \in Nat BY <1>1, FS_CardinalityType
<1>3. q \in [1 .. Cardinality(S) -> S] BY DEF SetToSeqs
<1> QED BY <1>2, <1>3

\* What get_pop_front takes from a deque that is not empty, and leaves.
LEMMA HeadTail ==
    ASSUME NEW S, NEW q \in Seq(S), q # <<>>
    PROVE  Head(q) \in S /\ Tail(q) \in Seq(S)
OBVIOUS

-----------------------------------------------------------------------------
(***************************************************************************)
(* Type correctness.  Its conjunct HoldsPath is what makes it inductive:   *)
(* what a thread reads from a tree has a type only if it holds a path.     *)
(***************************************************************************)

Typed == TypeOK

\* The first run starts with well-typed variables.
LEMMA TypedInit == Init => Typed
<1> SUFFICES ASSUME Init PROVE Typed
  OBVIOUS
<1>1. TreesOK    BY DEF Init, TreesOK
<1>2. ListsOK    BY DEF Init, InitRun, ListsOK
<1>3. QueuesOK   BY DEF Init, InitRun, QueuesOK
<1>4. CountersOK BY DEF Init, InitRun, CountersOK
<1>5. ControlOK  BY DEF Init, InitRun, ControlOK, Phases
<1>6. SortersOK  BY DEF Init, InitRun, SortersOK, SorterPCs
<1>7. WorkersOK  BY DEF Init, InitRun, WorkersOK, WorkerPCs, NoPath
<1>8. HoldsPath  BY DEF Init, InitRun, HoldsPath
<1> QED BY <1>1, <1>2, <1>3, <1>4, <1>5, <1>6, <1>7, <1>8 DEF Typed, TypeOK

\* So does every further run.
LEMMA TypedRestart == Typed /\ (Kill \/ Rerun) => Typed'
<1> SUFFICES ASSUME Typed, Kill \/ Rerun PROVE Typed'
  OBVIOUS
<1> USE DEF Typed, TypeOK
<1>0. Restart /\ UNCHANGED <<trees, in0, out0, opts, misled>>
  BY DEF Kill, Rerun
<1>1. TreesOK'    BY <1>0 DEF Restart, TreesOK, trees
<1>2. ListsOK'    BY <1>0 DEF Restart, ListsOK
<1>3. QueuesOK'   BY <1>0 DEF Restart, QueuesOK
<1>4. CountersOK' BY <1>0 DEF Restart, CountersOK
<1>5. ControlOK'  BY <1>0 DEF Restart, ControlOK, Phases, Kill, Rerun
<1>6. SortersOK'  BY <1>0 DEF Restart, SortersOK, SorterPCs
<1>7. WorkersOK'  BY <1>0 DEF Restart, WorkersOK, WorkerPCs, NoPath
<1>8. HoldsPath'  BY <1>0 DEF Restart, HoldsPath
<1> QED BY <1>1, <1>2, <1>3, <1>4, <1>5, <1>6, <1>7, <1>8
\* The thread that calls Copy keeps the types.
LEMMA TypedMain == Typed /\ Main => Typed'
<1> SUFFICES ASSUME Typed, Main PROVE Typed'
  OBVIOUS
<1> USE DEF Typed, TypeOK
<1> DEFINE Rest == /\ QueuesOK' /\ ControlOK' /\ SortersOK' /\ WorkersOK'
                   /\ HoldsPath'
<1>1. UNCHANGED mainFrame
  BY DEF Main
<1>2. CountersOK'
  BY <1>1 DEF mainFrame, counters, CountersOK
<1>3. TreesOK' /\ ListsOK' /\ Rest
  <2> USE <1>1 DEF mainFrame, history
  <2>1. CASE ScanInput
    <3> USE <2>1 DEF ScanInput
    <3>1. IFilesSet' \in Seq(Path) /\ IDirSet' \subseteq Path
      BY SetToSeqsType DEF Files, Dirs
    <3>2. TreesOK' BY DEF TreesOK
    <3>3. ListsOK' BY <3>1 DEF ListsOK
    <3>4. QueuesOK' /\ WorkersOK' /\ SortersOK' /\ HoldsPath'
      BY DEF QueuesOK, WorkersOK, SortersOK, HoldsPath
    <3>5. ControlOK' BY DEF ControlOK, Phases
    <3> QED BY <3>2, <3>3, <3>4, <3>5
  <2>2. CASE ScanOutput
    <3> USE <2>2 DEF ScanOutput
    <3>1. OFilesSet' \subseteq Path /\ ODirSet' \subseteq Path
      BY DEF Files, Dirs
    <3>2. TreesOK' BY DEF TreesOK
    <3>3. ListsOK' BY <3>1 DEF ListsOK
    <3>4. QueuesOK' /\ WorkersOK' /\ SortersOK' /\ HoldsPath'
      BY DEF QueuesOK, WorkersOK, SortersOK, HoldsPath
    <3>5. ControlOK' BY DEF ControlOK, Phases
    <3> QED BY <3>2, <3>3, <3>4, <3>5
  <2>3. ASSUME NEW d \in Path, HandleDir(d)
        PROVE  TreesOK' /\ ListsOK' /\ Rest
    <3> USE <2>3 DEF HandleDir
    <3>1. out' \in Tree BY CreateDirectoriesType DEF TreesOK
    <3>2. TreesOK' BY <3>1 DEF TreesOK
    <3>3. ListsOK' BY DEF ListsOK
    <3>4. QueuesOK' /\ WorkersOK' /\ SortersOK' /\ HoldsPath'
      BY DEF QueuesOK, WorkersOK, SortersOK, HoldsPath
    <3>5. ControlOK' BY DEF ControlOK
    <3> QED BY <3>2, <3>3, <3>4, <3>5
  <2>4. CASE Spawn
    <3> USE <2>4 DEF Spawn
    <3>1. TreesOK' /\ ListsOK' BY DEF TreesOK, ListsOK, lists
    <3>2. QueuesOK' BY DEF QueuesOK
    <3>3. WorkersOK' /\ SortersOK'
      BY DEF WorkersOK, SortersOK, WorkerPCs, SorterPCs
    <3>4. HoldsPath' BY DEF HoldsPath
    <3>5. ControlOK' BY DEF ControlOK, Phases
    <3> QED BY <3>1, <3>2, <3>3, <3>4, <3>5
  <2>5. CASE JoinSorters
    <3> USE <2>5 DEF JoinSorters
    <3>1. TreesOK' /\ ListsOK' BY DEF TreesOK, ListsOK
    <3>2. QueuesOK' /\ WorkersOK' /\ SortersOK' /\ HoldsPath'
      BY DEF QueuesOK, WorkersOK, SortersOK, HoldsPath
    <3>3. ControlOK' BY DEF ControlOK, Phases
    <3> QED BY <3>1, <3>2, <3>3
  <2>6. ASSUME NEW f \in Path, QueueDelete(f)
        PROVE  TreesOK' /\ ListsOK' /\ Rest
    <3> USE <2>6 DEF QueueDelete
    <3>1. DeleteEntry(f) \in Seq(Name) BY DEF DeleteEntry
    <3>2. QueuesOK' BY <3>1 DEF QueuesOK
    <3>3. TreesOK' /\ ListsOK' BY DEF TreesOK, ListsOK
    <3>4. WorkersOK' /\ SortersOK' /\ HoldsPath'
      BY DEF WorkersOK, SortersOK, HoldsPath
    <3>5. ControlOK' BY DEF ControlOK
    <3> QED BY <3>2, <3>3, <3>4, <3>5
  <2>7. CASE SetDone \/ JoinWorkers \/ Finish
    <3> USE <2>7 DEF SetDone, JoinWorkers, Finish
    <3>1. TreesOK' /\ ListsOK' BY DEF TreesOK, ListsOK, lists
    <3>2. QueuesOK' /\ WorkersOK' /\ SortersOK' /\ HoldsPath'
      BY DEF QueuesOK, WorkersOK, SortersOK, HoldsPath
    <3>3. ControlOK' BY DEF ControlOK, Phases
    <3> QED BY <3>1, <3>2, <3>3
  <2>8. ASSUME NEW d \in Path, RemoveDir(d)
        PROVE  TreesOK' /\ ListsOK' /\ Rest
    <3> USE <2>8 DEF RemoveDir
    <3>1. out' \in Tree BY WithoutType DEF TreesOK
    <3>2. TreesOK' /\ ListsOK' BY <3>1 DEF TreesOK, ListsOK
    <3>3. QueuesOK' /\ WorkersOK' /\ SortersOK' /\ HoldsPath'
      BY DEF QueuesOK, WorkersOK, SortersOK, HoldsPath
    <3>4. ControlOK' BY DEF ControlOK
    <3> QED BY <3>2, <3>3, <3>4
  <2> QED BY <2>1, <2>2, <2>3, <2>4, <2>5, <2>6, <2>7, <2>8 DEF Main
<1> QED BY <1>2, <1>3
\* So do the sorters.
LEMMA TypedSorter == ASSUME NEW s \in Sorters PROVE Typed /\ Sorter(s) => Typed'
<1> SUFFICES ASSUME Typed, Sorter(s) PROVE Typed'
  OBVIOUS
<1> USE DEF Typed, TypeOK
<1>1. UNCHANGED sorterFrame
  BY DEF Sorter
<1>2. TreesOK' /\ WorkersOK'
  BY <1>1 DEF sorterFrame, trees, history, working, TreesOK, WorkersOK
<1>3. ListsOK' /\ QueuesOK' /\ CountersOK'
  <2> USE <1>1 DEF sorterFrame
  <2>1. CASE SorterLoop(s) \/ FindBegin(s) \/ FindEnd(s)
            \/ Compare(s) \/ EraseBegin(s)
    BY <2>1 DEF SorterLoop, FindBegin, FindEnd, Compare, EraseBegin,
                  ListsOK, QueuesOK, CountersOK
  <2>2. CASE SorterPop(s)
    <3>1. IFilesSet # <<>> => Tail(IFilesSet) \in Seq(Path)
      BY HeadTail DEF ListsOK
    <3> QED BY <2>2, <3>1 DEF SorterPop, ListsOK, QueuesOK, CountersOK
  <2>3. CASE Push(s)
    <3>1. sfile[s] \in Path BY <2>3 DEF Push, HoldsPath
    <3> QED BY <2>3, <3>1 DEF Push, ListsOK, QueuesOK, CountersOK
  <2>4. CASE Account(s)
    <3>1. sfile[s] \in Path BY <2>4 DEF Account, HoldsPath
    <3>3. bytesToCopy' \in 0 .. SizeMod - 1
      BY <2>4, <3>1, AddSize DEF Account, TreesOK, CountersOK
    <3> QED BY <2>4, <3>3 DEF Account, ListsOK, QueuesOK, CountersOK
  <2>5. CASE EraseEnd(s)
    BY <2>5 DEF EraseEnd, ListsOK, QueuesOK, CountersOK
  <2> QED BY <2>1, <2>2, <2>3, <2>4, <2>5 DEF Sorter
<1>4. ControlOK'
  BY <1>1 DEF sorterFrame, ControlOK, Sorter, SorterLoop, SorterPop, FindBegin,
              FindEnd, Compare, Push, Account, EraseBegin, EraseEnd
<1>5. SortersOK' /\ HoldsPath'
  <2> USE <1>1 DEF sorterFrame, working, SortersOK, HoldsPath, SorterPCs
  <2>1. CASE SorterLoop(s)
    BY <2>1 DEF SorterLoop
  <2>2. CASE SorterPop(s)
    <3>1. IFilesSet # <<>> => Head(IFilesSet) \in Path
      BY HeadTail DEF ListsOK
    <3> QED BY <2>2, <3>1 DEF SorterPop
  <2>3. CASE FindBegin(s)
    BY <2>3 DEF FindBegin
  <2>4. CASE FindEnd(s)
    BY <2>4 DEF FindEnd
  <2>5. CASE Compare(s)
    BY <2>5 DEF Compare
  <2>6. CASE Push(s)
    BY <2>6 DEF Push
  <2>7. CASE Account(s)
    BY <2>7 DEF Account
  <2>8. CASE EraseBegin(s)
    BY <2>8 DEF EraseBegin, Reading, Erasing
  <2>9. CASE EraseEnd(s)
    BY <2>9 DEF EraseEnd
  <2> QED BY <2>1, <2>2, <2>3, <2>4, <2>5, <2>6, <2>7, <2>8, <2>9 DEF Sorter
<1> QED BY <1>2, <1>3, <1>4, <1>5

\* And the workers.
LEMMA TypedWorker == ASSUME NEW w \in Workers PROVE Typed /\ Worker(w) => Typed'
<1> SUFFICES ASSUME Typed, Worker(w) PROVE Typed'
  OBVIOUS
<1> USE DEF Typed, TypeOK
<1>1. UNCHANGED workerFrame
  BY DEF Worker
<1>2. ListsOK' /\ ControlOK' /\ SortersOK'
  BY <1>1 DEF workerFrame, lists, sorting, ghosts, ListsOK, ControlOK, SortersOK
<1>3. TreesOK'
  <2> USE <1>1 DEF workerFrame, history, TreesOK
  <2>1. CASE Rename(w)
    <3>1. hand[w] \in Path BY <2>1 DEF Rename, HoldsPath
    <3>2. inp[hand[w]] \in Node BY <3>1 DEF Tree
    <3>3. /\ [out EXCEPT ![hand[w]] = inp[hand[w]]] \in Tree
          /\ [inp EXCEPT ![hand[w]] = Absent] \in Tree
      BY <3>2, TreeExcept, NodeTypes
    <3> QED BY <2>1, <3>3 DEF Rename, trees
  <2>2. CASE CopyBegin(w)
    <3>1. [out EXCEPT ![hand[w]] = Torn] \in Tree BY TreeExcept, NodeTypes
    <3> QED BY <2>2, <3>1 DEF CopyBegin
  <2>3. CASE CopyEnd(w)
    <3>1. hand[w] \in Path BY <2>3 DEF CopyEnd, HoldsPath
    <3>2. Copied(inp[hand[w]]) \in Node BY <3>1, CopiedType DEF Tree
    <3>3. [out EXCEPT ![hand[w]] = Copied(inp[hand[w]])] \in Tree
      BY <3>2, TreeExcept
    <3> QED BY <2>3, <3>3 DEF CopyEnd
  <2>4. CASE RemoveFile(w)
    BY <2>4, WithoutType DEF RemoveFile
  <2>5. CASE \/ WorkerLoop(w) \/ WorkerCheckCopy(w) \/ WorkerCheckDelete(w)
             \/ PopCopy(w) \/ Count(w) \/ PopDelete(w)
    BY <2>5 DEF WorkerLoop, WorkerCheckCopy, WorkerCheckDelete, PopCopy, Count,
                PopDelete, trees
  <2> QED BY <2>1, <2>2, <2>3, <2>4, <2>5 DEF Worker
<1>4. QueuesOK'
  <2> USE DEF QueuesOK, WorkersOK, queues
  <2>1. CASE WorkerLoop(w) \/ WorkerCheckCopy(w) \/ WorkerCheckDelete(w) \/ Count(w)
    BY <2>1 DEF WorkerLoop, WorkerCheckCopy, WorkerCheckDelete, Count
  <2>2. CASE PopCopy(w) \/ PopDelete(w)
    <3>1. copyQueue # <<>> => Tail(copyQueue) \in Seq(Path) BY HeadTail
    <3>2. deleteQueue # <<>> => Tail(deleteQueue) \in Seq(Seq(Name)) BY HeadTail
    <3> QED BY <2>2, <3>1, <3>2 DEF PopCopy, PopDelete
  <2>3. CASE Rename(w) \/ CopyBegin(w) \/ CopyEnd(w)
    BY <2>3 DEF Rename, CopyBegin, CopyEnd, CopyError
  <2>4. CASE RemoveFile(w)
    BY <2>4 DEF RemoveFile
  <2> QED BY <2>1, <2>2, <2>3, <2>4 DEF Worker
<1>5. CountersOK'
  <2> USE <1>1 DEF workerFrame, CountersOK
  <2>1. CASE Count(w)
    <3>1. hand[w] \in Path BY <2>1 DEF Count, HoldsPath
    <3>3. bytesCopied' \in 0 .. SizeMod - 1
      BY <2>1, <3>1, AddSize DEF Count, TreesOK
    <3> QED BY <2>1, <3>3 DEF Count
  <2>2. CASE ~Count(w)
    BY <2>2 DEF Worker, WorkerLoop, WorkerCheckCopy, WorkerCheckDelete, PopCopy,
                Rename, CopyBegin, CopyEnd, PopDelete, RemoveFile
  <2> QED BY <2>1, <2>2
<1>6. WorkersOK' /\ HoldsPath'
  <2> USE <1>1 DEF workerFrame, sorting, WorkersOK, HoldsPath, WorkerPCs
  <2>1. CASE WorkerLoop(w)
    BY <2>1 DEF WorkerLoop
  <2>2. CASE WorkerCheckCopy(w)
    BY <2>2 DEF WorkerCheckCopy
  <2>3. CASE WorkerCheckDelete(w)
    BY <2>3 DEF WorkerCheckDelete
  <2>4. CASE PopCopy(w)
    <3>1. copyQueue # <<>> => Head(copyQueue) \in Path BY HeadTail DEF QueuesOK
    <3> QED BY <2>4, <3>1 DEF PopCopy
  <2>5. CASE Rename(w)
    BY <2>5 DEF Rename, CopyError
  <2>6. CASE CopyBegin(w)
    BY <2>6 DEF CopyBegin, CopyError
  <2>7. CASE CopyEnd(w)
    BY <2>7 DEF CopyEnd, CopyError
  <2>8. CASE Count(w)
    BY <2>8 DEF Count
  <2>9. CASE PopDelete(w)
    <3>1. deleteQueue # <<>> => Head(deleteQueue) \in Seq(Name)
      BY HeadTail DEF QueuesOK
    <3> QED BY <2>9, <3>1 DEF PopDelete
  <2>10. CASE RemoveFile(w)
    BY <2>10 DEF RemoveFile
  <2> QED BY <2>1, <2>2, <2>3, <2>4, <2>5, <2>6, <2>7, <2>8, <2>9, <2>10
          DEF Worker
<1> QED BY <1>2, <1>3, <1>4, <1>5, <1>6

\* Every step of the program leads from well-typed to well-typed variables.
LEMMA TypedNext == Typed /\ [Next]_vars => Typed'
<1> SUFFICES ASSUME Typed, [Next]_vars PROVE Typed'
  OBVIOUS
<1>1. CASE Main BY <1>1, TypedMain
<1>2. ASSUME NEW s \in Sorters, Sorter(s) PROVE Typed' BY <1>2, TypedSorter
<1>3. ASSUME NEW w \in Workers, Worker(w) PROVE Typed' BY <1>3, TypedWorker
<1>4. CASE Kill \/ Rerun BY <1>4, TypedRestart
<1>5. CASE UNCHANGED vars
  <2> USE <1>5 DEF vars, Typed, TypeOK
  <2>1. TreesOK' /\ ListsOK' /\ QueuesOK' /\ CountersOK'
    BY DEF trees, history, lists, queues, counters, TreesOK, ListsOK, QueuesOK,
           CountersOK
  <2>2. ControlOK' /\ SortersOK' /\ WorkersOK' /\ HoldsPath'
    BY DEF ghosts, sorting, working, ControlOK, SortersOK, WorkersOK, HoldsPath
  <2> QED BY <2>1, <2>2
<1>6. CASE Terminated BY <1>5, <1>6 DEF Terminated
<1> QED BY <1>1, <1>2, <1>3, <1>4, <1>5, <1>6 DEF Next

\* All variables keep their types in every run of the program: in particular
\* a thread never uses the path of a pop that found the queue empty.
THEOREM TypeCorrect == Spec => []TypeOK
<1>1. Typed => TypeOK BY DEF Typed
<1> QED BY <1>1, TypedInit, TypedNext, PTL DEF Spec
-----------------------------------------------------------------------------
(***************************************************************************)
(* No worker leaves while there is work                                    *)
(***************************************************************************)

\* The thread that calls Copy keeps the protocol: it raises _doneStuff only
\* when no sorter is left and all deletions are queued.
LEMMA ProtocolMain == Typed /\ Protocol /\ Main => Protocol'
<1> SUFFICES ASSUME Typed, Protocol, Main PROVE Protocol'
  OBVIOUS
<1>1. UNCHANGED mainFrame
  BY DEF Main
<1> USE <1>1 DEF mainFrame, Protocol
<1>2. CASE ScanInput BY <1>2 DEF ScanInput
<1>3. CASE ScanOutput BY <1>3 DEF ScanOutput
<1>4. ASSUME NEW d \in Path, HandleDir(d) PROVE Protocol'
  BY <1>4 DEF HandleDir
<1>5. CASE Spawn BY <1>5 DEF Spawn
<1>6. CASE JoinSorters BY <1>6 DEF JoinSorters, SortersJoined
<1>7. ASSUME NEW f \in Path, QueueDelete(f) PROVE Protocol'
  BY <1>7 DEF QueueDelete
<1>8. CASE SetDone BY <1>8 DEF SetDone
<1>9. CASE JoinWorkers BY <1>9 DEF JoinWorkers
<1>10. ASSUME NEW d \in Path, RemoveDir(d) PROVE Protocol'
  BY <1>10 DEF RemoveDir
<1>11. CASE Finish BY <1>11 DEF Finish
<1> QED BY <1>2, <1>3, <1>4, <1>5, <1>6, <1>7, <1>8, <1>9, <1>10, <1>11
        DEF Main

\* A sorter that pushes is alive, so _doneStuff is still false and no worker
\* relies on the queues being empty.
LEMMA ProtocolSorter ==
    ASSUME NEW s \in Sorters PROVE Typed /\ Protocol /\ Sorter(s) => Protocol'
<1> SUFFICES ASSUME Typed, Protocol, Sorter(s) PROVE Protocol'
  OBVIOUS
<1>1. UNCHANGED <<phase, doneStuff, wpc, deleteQueue>>
  BY DEF Sorter, sorterFrame, working
<1>2. spc[s] # "done"
  BY DEF Sorter, SorterLoop, SorterPop, FindBegin, FindEnd, Compare, Push,
         Account, EraseBegin, EraseEnd
<1>3. phase \notin {"queue", "joinWork", "rmDirs", "finished"} /\ ~doneStuff
  BY <1>2 DEF Protocol
<1> QED BY <1>1, <1>3 DEF Protocol

\* A worker goes on to its next read, or out of the loop, only on what it saw;
\* and it never pushes.
LEMMA ProtocolWorker ==
    ASSUME NEW w \in Workers PROVE Typed /\ Protocol /\ Worker(w) => Protocol'
<1> SUFFICES ASSUME Typed, Protocol, Worker(w) PROVE Protocol'
  OBVIOUS
<1>1. UNCHANGED <<phase, doneStuff, spc>>
  BY DEF Worker, workerFrame, sorting
<1>2. wpc \in [Workers -> WorkerPCs]
  BY DEF Typed, TypeOK, WorkersOK
<1> USE <1>1, <1>2 DEF Protocol, queues
<1>3. CASE WorkerLoop(w) BY <1>3 DEF WorkerLoop
<1>4. CASE WorkerCheckCopy(w) BY <1>4 DEF WorkerCheckCopy
<1>5. CASE WorkerCheckDelete(w) BY <1>5 DEF WorkerCheckDelete
<1>6. CASE PopCopy(w) BY <1>6 DEF PopCopy
<1>7. CASE Rename(w) \/ CopyBegin(w) \/ CopyEnd(w)
  BY <1>7 DEF Rename, CopyBegin, CopyEnd, CopyError
<1>8. CASE Count(w) BY <1>8 DEF Count
<1>9. CASE PopDelete(w) BY <1>9 DEF PopDelete
<1>10. CASE RemoveFile(w) BY <1>10 DEF RemoveFile
<1> QED BY <1>3, <1>4, <1>5, <1>6, <1>7, <1>8, <1>9, <1>10 DEF Worker

\* Every step keeps the protocol.
LEMMA ProtocolNext == Typed /\ Protocol /\ [Next]_vars => Protocol'
<1> SUFFICES ASSUME Typed, Protocol, [Next]_vars PROVE Protocol'
  OBVIOUS
<1>1. CASE Main BY <1>1, ProtocolMain
<1>2. ASSUME NEW s \in Sorters, Sorter(s) PROVE Protocol'
  BY <1>2, ProtocolSorter
<1>3. ASSUME NEW w \in Workers, Worker(w) PROVE Protocol'
  BY <1>3, ProtocolWorker
<1>4. CASE Kill \/ Rerun BY <1>4 DEF Kill, Rerun, Restart, Protocol
<1>5. CASE UNCHANGED vars
  BY <1>5 DEF vars, queues, sorting, working, Protocol
<1>6. CASE Terminated BY <1>5, <1>6 DEF Terminated
<1> QED BY <1>1, <1>2, <1>3, <1>4, <1>5, <1>6 DEF Next

\* DoStuff returns only when _doneStuff is set and both queues are empty, for
\* any number of sorters and workers: no file to copy or to delete is left
\* behind when Copy has joined its threads.
THEOREM Drained == Spec => []WorkersDrain
<1>1. Init => Protocol BY DEF Init, InitRun, Protocol
<1>2. Protocol => WorkersDrain BY DEF Protocol, WorkersDrain
<1> QED BY <1>1, <1>2, TypedInit, TypedNext, ProtocolNext, PTL DEF Spec
-----------------------------------------------------------------------------
(***************************************************************************)
(* Deques without repetitions                                              *)
(***************************************************************************)

\* An empty deque holds nothing, and nothing twice.
LEMMA EmptyDeque == Range(<<>>) = {} /\ IsInjective(<<>>)
BY DEF Range, IsInjective

\* get_pop_front on a deque without repetitions takes its element away.
LEMMA PopFront ==
    ASSUME NEW S, NEW q \in Seq(S), q # <<>>, IsInjective(q)
    PROVE  /\ Head(q) \in Range(q)
           /\ IsInjective(Tail(q))
           /\ Range(Tail(q)) = Range(q) \ {Head(q)}
<1>1. Len(q) \in Nat /\ Len(q) > 0 /\ DOMAIN q = 1 .. Len(q)
  OBVIOUS
<1>2. Head(q) = q[1] /\ 1 \in DOMAIN q
  BY <1>1
<1>3. /\ DOMAIN Tail(q) = 1 .. Len(q) - 1
      /\ \A i \in 1 .. Len(q) - 1 : Tail(q)[i] = q[i + 1]
  BY <1>1
<1>4. Head(q) \in Range(q)
  BY <1>2 DEF Range
<1>5. IsInjective(Tail(q))
  BY <1>1, <1>3 DEF IsInjective
<1>6. ASSUME NEW x \in Range(Tail(q)) PROVE x \in Range(q) \ {Head(q)}
  <2>1. PICK i \in 1 .. Len(q) - 1 : x = q[i + 1]
    BY <1>3 DEF Range
  <2>2. i + 1 \in DOMAIN q /\ i + 1 # 1
    BY <1>1
  <2> QED BY <2>1, <2>2, <1>2 DEF Range, IsInjective
<1>7. ASSUME NEW x \in Range(q) \ {Head(q)} PROVE x \in Range(Tail(q))
  <2>1. PICK i \in DOMAIN q : x = q[i]
    BY DEF Range
  <2>2. i # 1
    BY <2>1, <1>2
  <2>3. i - 1 \in 1 .. Len(q) - 1 /\ (i - 1) + 1 = i
    BY <1>1, <2>2
  <2>4. Tail(q)[i - 1] = x
    BY <1>3, <2>1, <2>3
  <2> QED BY <1>3, <2>3, <2>4 DEF Range
<1> QED BY <1>4, <1>5, <1>6, <1>7

\* push_back of an element that the deque does not hold.
LEMMA PushBack ==
    ASSUME NEW S, NEW q \in Seq(S), NEW e \in S, IsInjective(q), e \notin Range(q)
    PROVE  /\ IsInjective(Append(q, e))
           /\ Range(Append(q, e)) = Range(q) \cup {e}
<1>1. Len(q) \in Nat /\ DOMAIN q = 1 .. Len(q)
  OBVIOUS
<1>2. /\ DOMAIN Append(q, e) = 1 .. Len(q) + 1
      /\ \A i \in 1 .. Len(q) : Append(q, e)[i] = q[i]
      /\ Append(q, e)[Len(q) + 1] = e
  BY <1>1
<1>3. IsInjective(Append(q, e))
  BY <1>1, <1>2 DEF IsInjective, Range
<1>4. Range(Append(q, e)) = Range(q) \cup {e}
  BY <1>1, <1>2 DEF Range
<1> QED BY <1>3, <1>4

\* A walk reports every file once.
LEMMA ScanInjective ==
    ASSUME NEW S \in SUBSET Path, NEW q \in SetToSeqs(S)
    PROVE  IsInjective(q)
<1>1. IsFiniteSet(S) BY FS_Subset
<1>2. Cardinality(S) \in Nat BY <1>1, FS_CardinalityType
<1> QED BY <1>2 DEF SetToSeqs, IsInjective
-----------------------------------------------------------------------------
(***************************************************************************)
(* One owner                                                               *)
(***************************************************************************)

SorterHolds(s) == spc[s] \in {"find", "finding", "stat", "push"}

WorkerHolds(w) == wpc[w] \in {"copy", "copying"}

\* p is in none of the two deques and with no thread.
Unowned(p) ==
    /\ p \notin Range(IFilesSet) /\ p \notin Range(copyQueue)
    /\ \A s \in Sorters : SorterHolds(s) => sfile[s] # p
    /\ \A w \in Workers : WorkerHolds(w) => hand[w] # p

\* OneOwner in terms of membership.  A file whose copy failed is with nobody
\* any more, so that no second error is recorded for it.
Owned ==
    /\ IsInjective(IFilesSet) /\ IsInjective(copyQueue)
    /\ \A p \in Range(IFilesSet) : p \notin Range(copyQueue)
    /\ \A s \in Sorters : SorterHolds(s) =>
          /\ sfile[s] \notin Range(IFilesSet) /\ sfile[s] \notin Range(copyQueue)
          /\ \A r \in Sorters : SorterHolds(r) /\ sfile[r] = sfile[s] => r = s
          /\ \A w \in Workers : WorkerHolds(w) => hand[w] # sfile[s]
    /\ \A w \in Workers : WorkerHolds(w) =>
          /\ hand[w] \notin Range(IFilesSet) /\ hand[w] \notin Range(copyQueue)
          /\ \A v \in Workers : WorkerHolds(v) /\ hand[v] = hand[w] => v = w
    /\ \A p \in Path : <<"copy", p>> \in errors => Unowned(p)

\* Before the sorters are started nothing is queued and nothing has failed.
NotStarted ==
    phase \in {"scanIn", "scanOut", "dirs"} =>
        /\ \A s \in Sorters : spc[s] = "unborn"
        /\ \A w \in Workers : wpc[w] = "unborn"
        /\ copyQueue = <<>> /\ errors = {}

Ownership == Typed /\ NotStarted /\ Owned

\* What Owned is about.
ownedVars == <<IFilesSet, copyQueue, spc, sfile, wpc, hand, errors>>

\* Steps that change nothing of that.
LEMMA OwnedStutter == Owned /\ UNCHANGED ownedVars => Owned'
BY DEF Owned, ownedVars, Unowned, SorterHolds, WorkerHolds

\* At the start nothing is on its way.
LEMMA OwnershipInit == Init => Ownership
<1> SUFFICES ASSUME Init PROVE Ownership
  OBVIOUS
<1>1. NotStarted BY DEF Init, InitRun, NotStarted
<1>2. Owned
  BY EmptyDeque DEF Init, InitRun, Owned, SorterHolds, WorkerHolds
<1> QED BY <1>1, <1>2, TypedInit DEF Ownership

\* The thread that calls Copy: only the listing of the input tree concerns it.
LEMMA OwnershipMain == Ownership /\ Main => NotStarted' /\ Owned'
<1> SUFFICES ASSUME Ownership, Main PROVE NotStarted' /\ Owned'
  OBVIOUS
<1>1. UNCHANGED <<copyQueue, errors, sfile, hand>>
  BY DEF Main, mainFrame
<1> USE <1>1 DEF Ownership
<1>2. CASE ScanInput
  <2> USE <1>2 DEF ScanInput
  <2>1. NotStarted' BY DEF NotStarted
  <2>2. PICK S : IFilesSet' \in SetToSeqs(S \cap Files(inp))
    OBVIOUS
  <2>3. IsInjective(IFilesSet')
    BY <2>2, ScanInjective DEF Files
  <2>4. /\ copyQueue' = <<>> /\ errors' = {}
        /\ \A s \in Sorters : ~SorterHolds(s)'
        /\ \A w \in Workers : ~WorkerHolds(w)'
    BY DEF NotStarted, SorterHolds, WorkerHolds
  <2>5. Owned'
    BY <2>3, <2>4, EmptyDeque DEF Owned
  <2> QED BY <2>1, <2>5
<1>3. CASE Spawn
  <2> USE <1>3 DEF Spawn
  <2>1. NotStarted' BY DEF NotStarted
  <2>2. /\ \A s \in Sorters : ~SorterHolds(s)'
        /\ \A w \in Workers : ~WorkerHolds(w)'
    BY DEF SorterHolds, WorkerHolds
  <2>3. UNCHANGED IFilesSet BY DEF lists
  <2>4. Owned' BY <2>2, <2>3 DEF Owned, Unowned
  <2> QED BY <2>1, <2>4
<1>4. CASE ScanOutput
  BY <1>4, OwnedStutter DEF ScanOutput, NotStarted, ownedVars
<1>5. ASSUME NEW d \in Path, HandleDir(d) PROVE NotStarted' /\ Owned'
  BY <1>5, OwnedStutter DEF HandleDir, NotStarted, ownedVars
<1>6. CASE JoinSorters
  BY <1>6, OwnedStutter DEF JoinSorters, NotStarted, ownedVars
<1>7. ASSUME NEW f \in Path, QueueDelete(f) PROVE NotStarted' /\ Owned'
  BY <1>7, OwnedStutter DEF QueueDelete, NotStarted, ownedVars
<1>8. CASE SetDone \/ JoinWorkers \/ Finish
  BY <1>8, OwnedStutter
     DEF SetDone, JoinWorkers, Finish, NotStarted, ownedVars, lists
<1>9. ASSUME NEW d \in Path, RemoveDir(d) PROVE NotStarted' /\ Owned'
  BY <1>9, OwnedStutter DEF RemoveDir, NotStarted, ownedVars
<1> QED BY <1>2, <1>3, <1>4, <1>5, <1>6, <1>7, <1>8, <1>9 DEF Main

\* A sorter passes a file from IFilesSet through its hands to _copyQueue.
LEMMA OwnershipSorter ==
    ASSUME NEW s \in Sorters, Ownership, Sorter(s)
    PROVE  NotStarted' /\ Owned'
<1>1. UNCHANGED <<wpc, hand, errors, phase>>
  BY DEF Sorter, sorterFrame, working
<1>2. spc[s] # "unborn"
  BY DEF Sorter, SorterLoop, SorterPop, FindBegin, FindEnd, Compare, Push,
         Account, EraseBegin, EraseEnd
<1>3. NotStarted'
  BY <1>1, <1>2 DEF Ownership, NotStarted
<1>4. /\ spc \in [Sorters -> SorterPCs]
      /\ sfile \in [Sorters -> Path \cup {NoPath}]
      /\ IFilesSet \in Seq(Path) /\ copyQueue \in Seq(Path)
      /\ SorterHolds(s) => sfile[s] \in Path
  BY DEF Ownership, Typed, TypeOK, SortersOK, ListsOK, QueuesOK, HoldsPath,
         SorterHolds
<1>5. Owned
  BY DEF Ownership
<1>6. CASE SorterPop(s) /\ IFilesSet # <<>>
  <2> DEFINE f == Head(IFilesSet)
  <2>1. /\ f \in Range(IFilesSet)
        /\ IsInjective(Tail(IFilesSet))
        /\ Range(Tail(IFilesSet)) = Range(IFilesSet) \ {f}
    BY <1>4, <1>5, <1>6, PopFront DEF Owned
  <2>2. /\ IFilesSet' = Tail(IFilesSet) /\ UNCHANGED copyQueue
        /\ sfile' = [sfile EXCEPT ![s] = f]
        /\ spc' = [spc EXCEPT ![s] = "find"]
    BY <1>6 DEF SorterPop
  <2> HIDE DEF f
  <2> QED BY <1>1, <1>3, <1>4, <1>5, <2>1, <2>2
          DEF Owned, Unowned, SorterHolds, WorkerHolds
<1>7. CASE Push(s)
  <2>1. SorterHolds(s)
    BY <1>7 DEF Push, SorterHolds
  <2>2. sfile[s] \in Path /\ sfile[s] \notin Range(copyQueue)
    BY <1>4, <1>5, <2>1 DEF Owned
  <2>3. /\ IsInjective(copyQueue')
        /\ Range(copyQueue') = Range(copyQueue) \cup {sfile[s]}
    BY <1>4, <1>5, <1>7, <2>2, PushBack DEF Owned, Push
  <2>4. /\ UNCHANGED <<IFilesSet, sfile>>
        /\ spc' = [spc EXCEPT ![s] = "account"]
    BY <1>7 DEF Push
  <2> QED BY <1>1, <1>3, <1>4, <1>5, <2>1, <2>3, <2>4
          DEF Owned, Unowned, SorterHolds, WorkerHolds
<1>8. CASE ~(SorterPop(s) /\ IFilesSet # <<>>) /\ ~Push(s)
  <2>1. UNCHANGED <<IFilesSet, copyQueue, sfile>>
    BY <1>8 DEF Sorter, SorterLoop, SorterPop, FindBegin, FindEnd, Compare,
                Account, EraseBegin, EraseEnd
  <2>2. \E l \in SorterPCs :
            /\ spc' = [spc EXCEPT ![s] = l]
            /\ l \in {"find", "finding", "stat", "push"} => SorterHolds(s)
    BY <1>8 DEF Sorter, SorterLoop, SorterPop, FindBegin, FindEnd, Compare,
                Account, EraseBegin, EraseEnd, SorterPCs, SorterHolds
  <2>3. \A r \in Sorters : SorterHolds(r)' => SorterHolds(r)
    BY <1>4, <2>2 DEF SorterHolds
  <2> QED BY <1>1, <1>3, <1>5, <2>1, <2>3 DEF Owned, Unowned, WorkerHolds
<1> QED BY <1>3, <1>6, <1>7, <1>8

(***************************************************************************)
(* The steps of a worker, by what they do to the place a file is in.       *)
(***************************************************************************)

\* It takes a file from _copyQueue,
Takes(w) ==
    /\ ~WorkerHolds(w) /\ wpc[w] # "count" /\ copyQueue # <<>>
    /\ hand' = [hand EXCEPT ![w] = Head(copyQueue)]
    /\ copyQueue' = Tail(copyQueue)
    /\ wpc' = [wpc EXCEPT ![w] = "copy"]
    /\ UNCHANGED <<errors, filesCopied>>

\* gives it up with an error,
Fails(w) ==
    /\ WorkerHolds(w)
    /\ errors' = errors \cup {<<"copy", hand[w]>>}
    /\ wpc' = [wpc EXCEPT ![w] = "popDel"]
    /\ UNCHANGED <<copyQueue, hand, filesCopied>>

\* writes it,
Writes(w) ==
    /\ WorkerHolds(w)
    /\ \E l \in {"copying", "count"} : wpc' = [wpc EXCEPT ![w] = l]
    /\ UNCHANGED <<copyQueue, hand, errors, filesCopied>>

\* counts it,
Counts(w) ==
    /\ wpc[w] = "count"
    /\ filesCopied' = filesCopied + 1
    /\ wpc' = [wpc EXCEPT ![w] = "popDel"]
    /\ UNCHANGED <<copyQueue, hand, errors>>

\* or goes on without one, deleting at most.
GoesOn(w) ==
    /\ ~WorkerHolds(w) /\ wpc[w] # "count"
    /\ \A v \in Workers : v # w => hand'[v] = hand[v]
    /\ \E l \in WorkerPCs \ {"copy", "copying", "count"} :
           wpc' = [wpc EXCEPT ![w] = l]
    /\ errors' = errors \/ errors' = errors \cup {<<"delete", hand[w]>>}
    /\ UNCHANGED <<copyQueue, filesCopied>>

\* There is no other step.
LEMMA WorkerMoves ==
    ASSUME NEW w \in Workers, Typed, Worker(w)
    PROVE  Takes(w) \/ Fails(w) \/ Writes(w) \/ Counts(w) \/ GoesOn(w)
<1>1. wpc \in [Workers -> WorkerPCs] /\ hand \in [Workers -> Seq(Name)]
  BY DEF Typed, TypeOK, WorkersOK
<1>2. CASE WorkerLoop(w) \/ WorkerCheckCopy(w) \/ WorkerCheckDelete(w)
  BY <1>2 DEF WorkerLoop, WorkerCheckCopy, WorkerCheckDelete, GoesOn,
              WorkerHolds, WorkerPCs, queues
<1>3. CASE PopCopy(w)
  BY <1>3 DEF PopCopy, Takes, GoesOn, WorkerHolds, WorkerPCs
<1>4. CASE Rename(w) \/ CopyBegin(w) \/ CopyEnd(w)
  BY <1>4 DEF Rename, CopyBegin, CopyEnd, CopyError, Fails, Writes, WorkerHolds,
              queues
<1>5. CASE Count(w)
  BY <1>5 DEF Count, Counts, queues
<1>6. CASE PopDelete(w)
  BY <1>1, <1>6 DEF PopDelete, GoesOn, WorkerHolds, WorkerPCs
<1>7. CASE RemoveFile(w)
  BY <1>7 DEF RemoveFile, GoesOn, WorkerHolds, WorkerPCs, queues
<1> QED BY <1>2, <1>3, <1>4, <1>5, <1>6, <1>7 DEF Worker

\* A worker takes a file from _copyQueue, and lets it go when it is written or
\* has failed.
LEMMA OwnershipWorker ==
    ASSUME NEW w \in Workers, Ownership, Worker(w)
    PROVE  NotStarted' /\ Owned'
<1>1. UNCHANGED <<IFilesSet, spc, sfile, phase>>
  BY DEF Worker, workerFrame, lists, sorting
<1>2. wpc[w] # "unborn"
  BY DEF Worker, WorkerLoop, WorkerCheckCopy, WorkerCheckDelete, PopCopy, Rename,
         CopyBegin, CopyEnd, Count, PopDelete, RemoveFile
<1>3. NotStarted'
  BY <1>1, <1>2 DEF Ownership, NotStarted
<1>4. /\ wpc \in [Workers -> WorkerPCs] /\ hand \in [Workers -> Seq(Name)]
      /\ copyQueue \in Seq(Path)
  BY DEF Ownership, Typed, TypeOK, WorkersOK, QueuesOK
<1>5. Owned
  BY DEF Ownership
<1>6. CASE Takes(w)
  <2> DEFINE f == Head(copyQueue)
  <2>1. /\ f \in Range(copyQueue)
        /\ IsInjective(Tail(copyQueue))
        /\ Range(Tail(copyQueue)) = Range(copyQueue) \ {f}
    BY <1>4, <1>5, <1>6, PopFront DEF Owned, Takes
  <2>2. /\ copyQueue' = Tail(copyQueue) /\ UNCHANGED errors
        /\ hand' = [hand EXCEPT ![w] = f]
        /\ wpc' = [wpc EXCEPT ![w] = "copy"]
    BY <1>6 DEF Takes
  <2> HIDE DEF f
  <2> QED BY <1>1, <1>3, <1>4, <1>5, <2>1, <2>2
          DEF Owned, Unowned, SorterHolds, WorkerHolds
<1>7. CASE Fails(w)
  <2>1. Unowned(hand[w])'
    BY <1>1, <1>4, <1>5, <1>7 DEF Fails, Owned, Unowned, SorterHolds, WorkerHolds
  <2>2. \A p : <<"copy", p>> \in errors' => p = hand[w] \/ <<"copy", p>> \in errors
    BY <1>7 DEF Fails
  <2>3. \A v \in Workers : WorkerHolds(v)' => WorkerHolds(v)
    BY <1>4, <1>7 DEF Fails, WorkerHolds
  <2>4. UNCHANGED <<copyQueue, hand>>
    BY <1>7 DEF Fails
  <2> QED BY <1>1, <1>3, <1>5, <2>1, <2>2, <2>3, <2>4
          DEF Owned, Unowned, SorterHolds
<1>8. CASE Writes(w) \/ Counts(w)
  <2>1. \A v \in Workers : WorkerHolds(v)' => WorkerHolds(v)
    BY <1>4, <1>8 DEF Writes, Counts, WorkerHolds
  <2>2. UNCHANGED <<copyQueue, hand, errors>>
    BY <1>8 DEF Writes, Counts
  <2> QED BY <1>1, <1>3, <1>5, <2>1, <2>2 DEF Owned, Unowned, SorterHolds
<1>9. CASE GoesOn(w)
  <2>1. \A v \in Workers : WorkerHolds(v)' => WorkerHolds(v) /\ hand'[v] = hand[v]
    BY <1>4, <1>9 DEF GoesOn, WorkerHolds
  <2>2. \A p : <<"copy", p>> \in errors' => <<"copy", p>> \in errors
    BY <1>9 DEF GoesOn
  <2>3. UNCHANGED copyQueue
    BY <1>9 DEF GoesOn
  <2> QED BY <1>1, <1>3, <1>5, <2>1, <2>2, <2>3 DEF Owned, Unowned, SorterHolds
<1>10. Typed
  BY DEF Ownership
<1> QED BY <1>6, <1>7, <1>8, <1>9, <1>10, WorkerMoves

\* Every step of the program keeps one owner for each file.
LEMMA OwnershipNext == Ownership /\ [Next]_vars => Ownership'
<1> SUFFICES ASSUME Ownership, [Next]_vars PROVE Ownership'
  OBVIOUS
<1>1. Typed'
  BY TypedNext DEF Ownership
<1>2. NotStarted' /\ Owned'
  <2>1. CASE Main BY <2>1, OwnershipMain
  <2>2. ASSUME NEW s \in Sorters, Sorter(s) PROVE NotStarted' /\ Owned'
    BY <2>2, OwnershipSorter
  <2>3. ASSUME NEW w \in Workers, Worker(w) PROVE NotStarted' /\ Owned'
    BY <2>3, OwnershipWorker
  <2>4. CASE Kill \/ Rerun
    BY <2>4, EmptyDeque DEF Kill, Rerun, Restart, NotStarted, Owned, SorterHolds,
                            WorkerHolds
  <2>5. CASE UNCHANGED vars
    BY <2>5, OwnedStutter DEF vars, lists, queues, sorting, working, ownedVars,
                              Ownership, NotStarted
  <2>6. CASE Terminated BY <2>5, <2>6 DEF Terminated
  <2> QED BY <2>1, <2>2, <2>3, <2>4, <2>5, <2>6 DEF Next
<1> QED BY <1>1, <1>2 DEF Ownership

\* A set all of whose elements are equal has at most one.
LEMMA AtMostOne ==
    ASSUME NEW S, \A x, y \in S : x = y
    PROVE  /\ Cardinality(S) \in {0, 1}
           /\ S = {} => Cardinality(S) = 0
<1>1. CASE S = {} BY <1>1, FS_EmptySet
<1>2. CASE S # {}
  <2>1. PICK x : x \in S BY <1>2
  <2>2. S = {x} BY <2>1
  <2> QED BY <2>2, FS_Singleton
<1> QED BY <1>1, <1>2

\* For any number of threads every input file is in one place, and no two
\* workers write the same output file.
THEOREM OneOwnerAlways == Spec => []OneOwner
<1>1. Ownership => OneOwner
  <2> SUFFICES ASSUME Ownership, NEW p \in Path
               PROVE  Cardinality(InList(p)) + Cardinality(InQueue(p)) +
                      Cardinality(Sorting(p)) + Cardinality(Copying(p)) <= 1
    BY DEF OneOwner
  <2> USE DEF Ownership, Owned
  <2>1. /\ \A i, j \in InList(p) : i = j
        /\ InList(p) # {} => p \in Range(IFilesSet)
    BY DEF InList, IsInjective, Range
  <2>2. /\ \A i, j \in InQueue(p) : i = j
        /\ InQueue(p) # {} => p \in Range(copyQueue)
    BY DEF InQueue, IsInjective, Range
  <2>3. \A s, r \in Sorting(p) : s = r
    BY DEF Sorting, SorterHolds
  <2>4. \A v, w \in Copying(p) : v = w
    BY DEF Copying, WorkerHolds
  <2>5. /\ InList(p) # {} => InQueue(p) = {} /\ Sorting(p) = {} /\ Copying(p) = {}
        /\ InQueue(p) # {} => Sorting(p) = {} /\ Copying(p) = {}
        /\ Sorting(p) # {} => Copying(p) = {}
    BY <2>1, <2>2 DEF Sorting, Copying, SorterHolds, WorkerHolds
  <2> QED BY <2>1, <2>2, <2>3, <2>4, <2>5, AtMostOne
<1> QED BY <1>1, OwnershipInit, OwnershipNext, PTL DEF Spec
-----------------------------------------------------------------------------
(***************************************************************************)
(* The numbers balance                                                     *)
(***************************************************************************)

Balance == IsFiniteSet(errors) /\ Conservation

\* The sets that Conservation counts are finite.
LEMMA CountedFinite ==
    ASSUME IsFiniteSet(errors)
    PROVE  /\ IsFiniteSet(Accounting) /\ Cardinality(Accounting) \in Nat
           /\ IsFiniteSet(Writing) /\ Cardinality(Writing) \in Nat
           /\ IsFiniteSet(CopyErrors) /\ Cardinality(CopyErrors) \in Nat
<1>1. Accounting \subseteq Sorters /\ Writing \subseteq Workers
      /\ CopyErrors \subseteq errors
  BY DEF Accounting, Writing, CopyErrors
<1>2. IsFiniteSet(Accounting) /\ IsFiniteSet(Writing) /\ IsFiniteSet(CopyErrors)
  BY <1>1, FS_Subset, ThreadAssumption
<1> QED BY <1>2, FS_CardinalityType

\* Steps that leave all that is counted alone.
LEMMA BalanceStutter ==
    ASSUME Balance, UNCHANGED <<errors, copyQueue, filesToCopy, filesCopied>>,
           Accounting' = Accounting, Writing' = Writing
    PROVE  Balance'
<1>1. CopyErrors' = CopyErrors BY DEF CopyErrors
<1> QED BY <1>1 DEF Balance, Conservation

\* The thread that calls Copy starts threads that hold nothing yet.
LEMMA BalanceMain == Ownership /\ Balance /\ Main => Balance'
<1> SUFFICES ASSUME Ownership, Balance, Main PROVE Balance'
  OBVIOUS
<1>1. UNCHANGED <<errors, copyQueue, filesToCopy, filesCopied>>
  BY DEF Main, mainFrame, counters
<1>2. CASE Spawn
  <2>1. /\ \A s \in Sorters : spc[s] = "unborn" /\ spc'[s] = "loop"
        /\ \A w \in Workers : wpc[w] = "unborn" /\ wpc'[w] = "loop"
    BY <1>2 DEF Spawn, Ownership, NotStarted
  <2>2. Accounting' = Accounting /\ Writing' = Writing
    BY <2>1 DEF Accounting, Writing
  <2> QED BY <1>1, <2>2, BalanceStutter
<1>3. CASE ~Spawn
  <2>1. UNCHANGED <<spc, wpc>>
    BY <1>3 DEF Main, ScanInput, ScanOutput, HandleDir, JoinSorters, QueueDelete,
                SetDone, JoinWorkers, RemoveDir, Finish
  <2>2. Accounting' = Accounting /\ Writing' = Writing
    BY <2>1 DEF Accounting, Writing
  <2> QED BY <1>1, <2>2, BalanceStutter
<1> QED BY <1>2, <1>3

\* A sorter first queues a file and then announces it.
LEMMA BalanceSorter ==
    ASSUME NEW s \in Sorters, Typed, Balance, Sorter(s)
    PROVE  Balance'
<1>1. /\ UNCHANGED <<errors, filesCopied>>
      /\ Writing' = Writing /\ CopyErrors' = CopyErrors
  BY DEF Sorter, sorterFrame, working, Writing, CopyErrors
<1>2. /\ spc \in [Sorters -> SorterPCs] /\ copyQueue \in Seq(Path)
      /\ filesToCopy \in Nat
      /\ filesCopied \in Nat
  BY DEF Typed, TypeOK, SortersOK, QueuesOK, CountersOK
<1>3. IsFiniteSet(errors) BY DEF Balance
<1>4. CASE Push(s)
  <2>1. sfile[s] \in Path BY <1>4 DEF Push, Typed, TypeOK, HoldsPath
  <2>2. /\ Len(copyQueue) \in Nat /\ Len(copyQueue') = Len(copyQueue) + 1
        /\ UNCHANGED filesToCopy
    BY <1>2, <1>4, <2>1 DEF Push
  <2>3. Accounting' = Accounting \cup {s} /\ s \notin Accounting
    BY <1>2, <1>4 DEF Push, Accounting
  <2>4. Cardinality(Accounting') = Cardinality(Accounting) + 1
    BY <1>3, <2>3, CountedFinite, FS_AddElement
  <2>5. /\ Cardinality(Accounting) \in Nat /\ Cardinality(Writing) \in Nat
        /\ Cardinality(CopyErrors) \in Nat
    BY <1>3, CountedFinite
  <2>6. filesToCopy \in Nat /\ filesCopied \in Nat
    BY <1>2
  <2>7. filesToCopy + (Cardinality(Accounting) + 1) =
            (Len(copyQueue) + 1) + Cardinality(Writing) + filesCopied
            + Cardinality(CopyErrors)
    BY <2>2, <2>5, <2>6 DEF Balance, Conservation
  <2>8. Conservation'
    BY <1>1, <2>2, <2>4, <2>7 DEF Conservation
  <2> QED BY <1>1, <1>3, <2>8 DEF Balance
<1>5. CASE Account(s)
  <2>1. filesToCopy' = filesToCopy + 1 /\ UNCHANGED copyQueue
    BY <1>5 DEF Account
  <2>2. Accounting' = Accounting \ {s} /\ s \in Accounting
    BY <1>2, <1>5 DEF Account, Accounting
  <2>3. Cardinality(Accounting') = Cardinality(Accounting) - 1
    BY <1>3, <2>2, CountedFinite, FS_RemoveElement
  <2> QED BY <1>1, <1>2, <1>3, <2>1, <2>3, CountedFinite DEF Balance, Conservation
<1>6. CASE ~Push(s) /\ ~Account(s)
  <2>1. UNCHANGED <<copyQueue, filesToCopy>>
    BY <1>6 DEF Sorter, SorterLoop, SorterPop, FindBegin, FindEnd, Compare,
                EraseBegin, EraseEnd
  <2>2. spc[s] # "account" /\ \E l \in SorterPCs \ {"account"} :
            spc' = [spc EXCEPT ![s] = l]
    BY <1>6 DEF Sorter, SorterLoop, SorterPop, FindBegin, FindEnd, Compare,
                EraseBegin, EraseEnd, SorterPCs
  <2>3. Accounting' = Accounting
    BY <1>2, <2>2 DEF Accounting
  <2> QED BY <1>1, <2>1, <2>3, BalanceStutter
<1> QED BY <1>4, <1>5, <1>6

\* One file less in hand and one more counted leave the sum as it is.
LEMMA OneCounted ==
    ASSUME Len(copyQueue) \in Nat, Cardinality(Writing) \in Nat, filesCopied \in Nat,
           Cardinality(CopyErrors) \in Nat, Cardinality(Accounting) \in Nat,
           Conservation, UNCHANGED filesToCopy,
           Cardinality(Accounting') = Cardinality(Accounting),
           Len(copyQueue') = Len(copyQueue), filesCopied' = filesCopied + 1,
           Cardinality(Writing') = Cardinality(Writing) - 1,
           Cardinality(CopyErrors') = Cardinality(CopyErrors)
    PROVE  Conservation'
BY DEF Conservation

\* A worker takes a file from _copyQueue and counts it, in _filesCopied or in
\* errors; the error is a new one because no one else had the file.
LEMMA BalanceWorker ==
    ASSUME NEW w \in Workers, Ownership, Balance, Worker(w)
    PROVE  Balance'
<1>1. UNCHANGED filesToCopy /\ Accounting' = Accounting
  BY DEF Worker, workerFrame, sorting, Accounting
<1>2. /\ wpc \in [Workers -> WorkerPCs] /\ copyQueue \in Seq(Path)
      /\ hand \in [Workers -> Seq(Name)]
      /\ filesToCopy \in Nat /\ filesCopied \in Nat
  BY DEF Ownership, Typed, TypeOK, WorkersOK, QueuesOK, CountersOK
<1>3. IsFiniteSet(errors) BY DEF Balance
<1> USE DEF Balance, Conservation
<1>4. CASE Takes(w)
  <2>1. Len(copyQueue') = Len(copyQueue) - 1 /\ Len(copyQueue) \in Nat
    BY <1>2, <1>4 DEF Takes
  <2>2. Writing' = Writing \cup {w} /\ w \notin Writing
    BY <1>2, <1>4 DEF Takes, Writing, WorkerHolds
  <2>3. Cardinality(Writing') = Cardinality(Writing) + 1
    BY <1>3, <2>2, CountedFinite, FS_AddElement
  <2>4. CopyErrors' = CopyErrors /\ UNCHANGED <<errors, filesCopied>>
    BY <1>4 DEF Takes, CopyErrors
  <2> QED BY <1>1, <1>2, <1>3, <2>1, <2>3, <2>4, CountedFinite
<1>5. CASE Fails(w)
  <2>1. <<"copy", hand[w]>> \notin errors
    BY <1>5 DEF Fails, Ownership, Typed, TypeOK, HoldsPath, Owned, Unowned, WorkerHolds
  <2>2. /\ CopyErrors' = CopyErrors \cup {<<"copy", hand[w]>>}
        /\ <<"copy", hand[w]>> \notin CopyErrors
    BY <1>5, <2>1 DEF Fails, CopyErrors
  <2>3. Cardinality(CopyErrors') = Cardinality(CopyErrors) + 1
    BY <1>3, <2>2, CountedFinite, FS_AddElement
  <2>4. Writing' = Writing \ {w} /\ w \in Writing
    BY <1>2, <1>5 DEF Fails, Writing, WorkerHolds
  <2>5. Cardinality(Writing') = Cardinality(Writing) - 1
    BY <1>3, <2>4, CountedFinite, FS_RemoveElement
  <2>6. IsFiniteSet(errors') /\ UNCHANGED <<copyQueue, filesCopied>>
    BY <1>3, <1>5, FS_AddElement DEF Fails
  <2> QED BY <1>1, <1>2, <1>3, <2>3, <2>5, <2>6, CountedFinite
<1>6. CASE Writes(w)
  <2>1. Writing' = Writing
    BY <1>2, <1>6 DEF Writes, Writing, WorkerHolds
  <2> QED BY <1>1, <1>6, <2>1, BalanceStutter DEF Writes
<1>7. CASE Counts(w)
  <2>1. Writing' = Writing \ {w} /\ w \in Writing
    BY <1>2, <1>7 DEF Counts, Writing
  <2>2. Cardinality(Writing') = Cardinality(Writing) - 1
    BY <1>3, <2>1, CountedFinite, FS_RemoveElement
  <2>3. /\ CopyErrors' = CopyErrors /\ filesCopied' = filesCopied + 1
        /\ UNCHANGED <<errors, copyQueue>>
    BY <1>7 DEF Counts, CopyErrors
  <2>4. /\ Cardinality(Writing) \in Nat /\ Cardinality(Accounting) \in Nat
        /\ Cardinality(CopyErrors) \in Nat /\ Len(copyQueue) \in Nat
    BY <1>2, <1>3, CountedFinite
  <2> HIDE DEF Conservation
  <2>5. Conservation /\ IsFiniteSet(errors') BY <2>3
  <2>6. Conservation' BY <1>1, <1>2, <2>2, <2>3, <2>4, <2>5, OneCounted
  <2> QED BY <2>5, <2>6
<1>8. CASE GoesOn(w)
  <2>1. Writing' = Writing
    BY <1>2, <1>8 DEF GoesOn, Writing, WorkerHolds
  <2>2. CopyErrors' = CopyErrors
    BY <1>8 DEF GoesOn, CopyErrors
  <2>3. IsFiniteSet(errors') /\ UNCHANGED <<copyQueue, filesCopied>>
    <3>1. IsFiniteSet(errors \cup {<<"delete", hand[w]>>})
      BY <1>3, FS_AddElement
    <3> QED BY <1>3, <1>8, <3>1 DEF GoesOn
  <2> QED BY <1>1, <2>1, <2>2, <2>3
<1>9. Typed
  BY DEF Ownership
<1> QED BY <1>4, <1>5, <1>6, <1>7, <1>8, <1>9, WorkerMoves

\* Nothing is counted when a process starts.
LEMMA BalanceStart ==
    ASSUME errors = {}, copyQueue = <<>>, filesToCopy = 0, filesCopied = 0,
           \A s \in Sorters : spc[s] = "unborn", \A w \in Workers : wpc[w] = "unborn"
    PROVE  Balance
<1>1. Accounting = {} /\ Writing = {} /\ CopyErrors = {}
  BY DEF Accounting, Writing, CopyErrors
<1> QED BY <1>1, FS_EmptySet DEF Balance, Conservation

\* Nor when it is started again.
LEMMA BalanceRestart == Restart => Balance'
<1> SUFFICES ASSUME Restart PROVE Balance'
  OBVIOUS
<1>1. Accounting' = {} /\ Writing' = {} /\ CopyErrors' = {}
  BY DEF Restart, Accounting, Writing, CopyErrors
<1> QED BY <1>1, FS_EmptySet DEF Restart, Balance, Conservation

\* Every step keeps the numbers balanced.
LEMMA BalanceNext == Ownership /\ Balance /\ [Next]_vars => Balance'
<1> SUFFICES ASSUME Ownership, Balance, [Next]_vars PROVE Balance'
  OBVIOUS
<1>1. CASE Main BY <1>1, BalanceMain
<1>2. ASSUME NEW s \in Sorters, Sorter(s) PROVE Balance'
  BY <1>2, BalanceSorter DEF Ownership
<1>3. ASSUME NEW w \in Workers, Worker(w) PROVE Balance'
  BY <1>3, BalanceWorker
<1>4. CASE Kill \/ Rerun BY <1>4, BalanceRestart DEF Kill, Rerun
<1>5. CASE UNCHANGED vars
  BY <1>5, BalanceStutter DEF vars, queues, counters, sorting, working,
                              Accounting, Writing
<1>6. CASE Terminated BY <1>5, <1>6 DEF Terminated
<1> QED BY <1>1, <1>2, <1>3, <1>4, <1>5, <1>6 DEF Next

\* Announced, queued, being written, copied and failed files balance at every
\* moment, whatever the threads do.
THEOREM NumbersBalance == Spec => []Conservation
<1>1. Init => Balance
  BY BalanceStart DEF Init, InitRun
<1>2. Balance => Conservation
  BY DEF Balance
<1> QED BY <1>1, <1>2, OwnershipInit, OwnershipNext, BalanceNext, PTL DEF Spec
-----------------------------------------------------------------------------
(***************************************************************************)
(* What the monitor reports at the end                                     *)
(***************************************************************************)

\* Copy goes on to remove directories only when all workers have returned.
Joined == phase \in {"rmDirs", "finished"} => WorkersJoined

\* Every step keeps that order.
LEMMA JoinedNext == Typed /\ Joined /\ [Next]_vars => Joined'
<1> SUFFICES ASSUME Typed, Joined, [Next]_vars PROVE Joined'
  OBVIOUS
<1> USE DEF Joined, WorkersJoined
<1>1. CASE Main
  BY <1>1 DEF Main, ScanInput, ScanOutput, HandleDir, Spawn, JoinSorters,
              QueueDelete, SetDone, JoinWorkers, RemoveDir, Finish
<1>2. ASSUME NEW s \in Sorters, Sorter(s) PROVE Joined'
  BY <1>2 DEF Sorter, sorterFrame, working
<1>3. ASSUME NEW w \in Workers, Worker(w) PROVE Joined'
  <2>1. wpc[w] # "done" /\ UNCHANGED phase
    BY <1>3 DEF Worker, workerFrame, WorkerLoop, WorkerCheckCopy,
                WorkerCheckDelete, PopCopy, Rename, CopyBegin, CopyEnd, Count,
                PopDelete, RemoveFile
  <2> QED BY <2>1
<1>4. CASE Kill \/ Rerun BY <1>4 DEF Kill, Rerun, Restart
<1>5. CASE UNCHANGED vars BY <1>5 DEF vars, working
<1>6. CASE Terminated BY <1>5, <1>6 DEF Terminated
<1> QED BY <1>1, <1>2, <1>3, <1>4, <1>5, <1>6 DEF Next

\* When Copy returns and no copy has failed, as many files are reported copied
\* as were announced.
FilesAgree ==
    phase = "finished" /\ Workers # {} /\ CopyErrors = {} => filesCopied = filesToCopy

\* The first half of TotalsAgree, here also for -m and after a race.
THEOREM FileTotalsAgree == Spec => []FilesAgree
<1>1. Init => Balance /\ Protocol /\ Joined
  BY BalanceStart DEF Init, InitRun, Protocol, Joined
<1>2. Typed /\ Balance /\ Protocol /\ Joined => FilesAgree
  <2> SUFFICES ASSUME Typed, Balance, Protocol, Joined, phase = "finished",
                      Workers # {}, CopyErrors = {}
               PROVE  filesCopied = filesToCopy
    BY DEF FilesAgree
  <2>1. Accounting = {}
    BY DEF Accounting, Protocol
  <2>2. Writing = {}
    BY DEF Writing, Joined, WorkersJoined
  <2>3. copyQueue = <<>>
    BY DEF Protocol, Joined, WorkersJoined
  <2>4. filesCopied \in Nat /\ filesToCopy \in Nat
    BY DEF Typed, TypeOK, CountersOK
  <2> QED BY <2>1, <2>2, <2>3, <2>4, FS_EmptySet DEF Balance, Conservation
<1> QED BY <1>1, <1>2, TypedInit, TypedNext, OwnershipInit, OwnershipNext,
           BalanceNext, ProtocolNext, JoinedNext, PTL DEF Spec
=============================================================================
