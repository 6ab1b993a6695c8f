------------------------------- MODULE Driver -------------------------------
(***************************************************************************)
(* main of src/src/main.cpp: the options, the choice between searching,    *)
(* removing, reconstituting and copying, and the thread that copies as     *)
(* main sees it (SyncCopy has its inside, Reconstitute that of the other). *)
(*                                                                         *)
(* An argument is a record: what the user means by it (an option or        *)
(* "path"), the option texts that occur anywhere in it, the number after   *)
(* "-p" (NoNumber if std::stoi throws), the node of the disk it names and, *)
(* as a name to search for, whether it can be widened and what it matches. *)
(***************************************************************************)
EXTENDS TimeFormat, Sequences, FiniteSets

CONSTANTS Argv,       \* the command lines
          Node,       \* paths on disk
          Inside,     \* Inside[n]: the paths in the directory n, at any depth
          NoNode, NoNumber,
          Disks,      \* what is on disk at the start
          NFiles,     \* the number of files to copy
          Sizes,      \* the size of each of them, in bytes
          Times       \* how long a phase of Copy may take

Option == {"--debug", "-reconstitutesymlinks", "-rm", "-d", "-s", "-f", "-o",
           "-m", "-p"}

Argument == [means: Option \cup {"path"}, has: SUBSET Option, num: Int \cup {NoNumber},
             node: Node \cup {NoNode}, wide: BOOLEAN, finds: SUBSET Node]

ASSUME DriverAssumption ==
    /\ Disks \subseteq [Node -> {"none", "file", "dir"}]
    /\ Inside \in [Node -> SUBSET Node]
    /\ \A n \in Node : n \notin Inside[n] /\ \A k \in Inside[n] : Inside[k] \subseteq Inside[n]
    /\ NoNode \notin Node /\ NoNumber \notin Int
    /\ NFiles \in Nat /\ Sizes \subseteq Nat /\ Times \subseteq Nat
    /\ \A a \in Argv : a \in Seq(Argument)

\* An argument that is meant as an option has the text of that option in it, and
\* of no other, but for the "-d" in "--debug".
ASSUME OptionAssumption ==
    \A a \in Argv : \A k \in 1..Len(a) :
        a[k].means # "path" =>
            a[k].has = {a[k].means} \cup (IF a[k].means = "--debug" THEN {"-d"} ELSE {})

VARIABLES
    argv, disk,
    pc,        \* where main is
    i,         \* the next argument, then the next path
    set,       \* the option variables that are true
    processors,
    sinodes,   \* the arguments that are no options
    rfiles, rdirs,
    asked,     \* history: the paths that existed when they were told apart, the
               \* disk when the user answered, and whether the answer was yes
    found,     \* search: inputs; todo: entries the walk has not reached
    todo,
    err,       \* an error message has been printed
    copy,      \* the thread that copies: at (where it is), left (files the
               \* sorters have not taken), queued (in _copyQueue), late (pushed
               \* and not yet announced), toCopy, copied and failed (files), size
               \* (bytes of each), odd (a file_size failed, and its -1 is in the
               \* bytes), undeleted (an error of a delete is in errors), active
               \* (_activeCopy), time (printed last)
    finished,  \* what main last read of _finished
    shown      \* the last line of totals

args == <<argv, i, set, processors, sinodes>>
removing == <<rfiles, rdirs, asked>>
searching == <<found, todo>>
vars == <<args, disk, pc, removing, searching, err, copy, finished, shown>>

Init ==
    /\ argv \in Argv /\ disk \in Disks
    /\ pc = "start" /\ i = 1
    /\ set = {} /\ processors = 1 /\ sinodes = <<>>
    /\ rfiles = <<>> /\ rdirs = <<>> /\ asked = [listed |-> {}, disk |-> disk, yes |-> FALSE]
    /\ found = {} /\ todo = {} /\ err = FALSE
    /\ \E n \in Sizes :
          copy = [at |-> "none", left |-> NFiles, queued |-> 0, late |-> 0,
                  toCopy |-> 0, copied |-> 0, failed |-> 0, size |-> n,
                  odd |-> FALSE, undeleted |-> FALSE, active |-> FALSE, time |-> 0]
    /\ finished = FALSE
    /\ shown = [copied |-> 0, toCopy |-> 0, percent |-> 0]

Below(n) == IF n \in Node THEN {n} \cup Inside[n] ELSE {}
Exists(n) == n # NoNode /\ disk[n] # "none"

\* The tests of the option loop, in their order.
Order == <<"--debug", "-reconstitutesymlinks", "-rm", "-d", "-s", "-f", "-o",
           "-m", "-p">>

-----------------------------------------------------------------------------
(* Plausible mistakes; no action uses these.                               *)

\* Taken: "-d" is tested before "--debug".
TakenDeleteFirst(w) ==
    IF "-d" \in w.has THEN "-d"
    ELSE IF w.has = {} THEN "path" ELSE CHOOSE o \in w.has : TRUE

\* Confirmed: everything but a no.
ConfirmedUnlessNo(a) == a # "n"

\* RemoveError: the message is not printed.
RemoveErrorQuiet == pc' = "exit" /\ UNCHANGED err

\* Visited: directories are not compared.
VisitedFilesOnly(n, w) == IF disk[n] = "file" /\ n \in w.finds THEN {n} ELSE {}

\* CopyJoined: the workers are not joined.
CopyJoinedEarly ==
    /\ copy.at = "active" /\ copy.left = 0 /\ copy.late = 0
    /\ copy' = [copy EXCEPT !.at = "joined", !.active = FALSE]
    /\ UNCHANGED pc

\* CopyEnd: _finished is not set.
CopyEndUnfinished == copy.at = "joined" /\ copy' = [copy EXCEPT !.at = "stopped"]

-----------------------------------------------------------------------------
(* Options.                                                                *)

Last == argv[Len(argv)]
Input == argv[Len(argv) - 1]

Usage ==
    /\ pc = "start"
    /\ pc' = IF Len(argv) < 2 THEN "exit" ELSE "parse"
    /\ UNCHANGED <<args, disk, removing, searching, err, copy, finished, shown>>

\* What the loop takes an argument for: option.find finds the text anywhere.
Taken(w) ==
    IF w.has = {} THEN "path"
    ELSE LET k == CHOOSE k \in 1..Len(Order) :
                     Order[k] \in w.has /\ \A j \in 1..k - 1 : Order[j] \notin w.has
         IN  Order[k]

Parse ==
    /\ pc = "parse" /\ i <= Len(argv)
    /\ LET w == argv[i]
           o == Taken(w)
       IN  /\ set' = set \cup ({o} \ {"path"})
           /\ processors' = IF o = "-p" /\ w.num # NoNumber THEN w.num ELSE processors
           /\ sinodes' = IF o = "path" THEN Append(sinodes, w.node) ELSE sinodes
    /\ i' = i + 1
    /\ UNCHANGED <<argv, disk, pc, removing, searching, err, copy, finished, shown>>

\* After the last argument: -f implies -o.
ParseEnd ==
    /\ pc = "parse" /\ i > Len(argv)
    /\ set' = IF "-f" \in set THEN set \cup {"-o"} ELSE set
    /\ i' = 1
    /\ pc' = "classify"
    /\ UNCHANGED <<argv, processors, sinodes, disk, removing, searching, err, copy,
                   finished, shown>>

\* exists or is_directory throws, and nothing catches it.
StatusThrows ==
    /\ pc \in {"search", "copy"} \/ (pc = "classify" /\ i <= Len(sinodes))
    /\ pc' = "terminated"
    /\ UNCHANGED <<args, disk, removing, searching, err, copy, finished, shown>>

\* One path after the other, if it exists, is told to be a folder or a file.
Classify ==
    /\ pc = "classify" /\ i <= Len(sinodes)
    /\ LET n == sinodes[i]
       IN  \/ /\ Exists(n)
              /\ \/ disk[n] = "dir" /\ rdirs' = Append(rdirs, n) /\ UNCHANGED rfiles
                 \/ disk[n] # "dir" /\ rfiles' = Append(rfiles, n) /\ UNCHANGED rdirs
              /\ asked' = [asked EXCEPT !.listed = @ \cup {n}]
           \/ ~Exists(n) /\ UNCHANGED removing
    /\ i' = i + 1
    /\ UNCHANGED <<argv, set, processors, sinodes, disk, pc, searching, err, copy,
                   finished, shown>>

\* The list of paths is cleared, and main does what the options ask for; the
\* search comes first, then the removal.
Dispatch ==
    /\ pc = "classify" /\ i > Len(sinodes)
    /\ sinodes' = <<>>
    /\ pc' = CASE "-s" \in set                    -> "search"
               [] "-s" \notin set /\ "-rm" \in set -> "confirm"
               [] {"-s", "-rm"} \cap set = {} /\ "-reconstitutesymlinks" \in set
                                                 -> "reconstitute"
               [] OTHER                           -> "copy"
    /\ UNCHANGED <<argv, i, set, processors, disk, removing, searching, err, copy,
                   finished, shown>>

-----------------------------------------------------------------------------
(* Search and removal.                                                     *)

\* A missing input path ends the program; a file, or a name that cannot be
\* widened (an empty one), throws outside the try block.
SearchStart ==
    /\ pc = "search"
    /\ pc' = IF ~Exists(Input.node) THEN "exit"
             ELSE IF disk[Input.node] = "dir" /\ Last.wide THEN "walk" ELSE "terminated"
    /\ todo' = IF Exists(Input.node) THEN {n \in Inside[Input.node] : disk[n] # "none"} ELSE {}
    /\ UNCHANGED <<args, disk, removing, found, err, copy, finished, shown>>

\* What an entry adds to inputs: its lower-case name contains the name.
Visited(n, w) == IF n \in w.finds THEN {n} ELSE {}

SearchStep(n) ==
    /\ pc = "walk" /\ n \in todo
    /\ found' = found \cup Visited(n, Last)
    /\ todo' = todo \ {n}
    /\ UNCHANGED <<args, disk, pc, removing, err, copy, finished, shown>>

\* The walk ends, or an error of it is printed and what was found is shown.
SearchEnd ==
    /\ pc = "walk"
    /\ (todo = {} /\ UNCHANGED err) \/ (todo # {} /\ err' = TRUE)
    /\ pc' = "exit"
    /\ UNCHANGED <<args, disk, removing, searching, copy, finished, shown>>

\* While the question is on the screen other programs go on: a path goes,
\* comes, or becomes a directory or a file.
Disturb(n) ==
    /\ pc = "confirm"
    /\ \A k \in Inside[n] : disk[k] = "none"
    /\ \A k \in Node : n \in Inside[k] => disk[k] = "dir"
    /\ \E k \in {"none", "file", "dir"} : disk' = [disk EXCEPT ![n] = k]
    /\ asked' = [asked EXCEPT !.disk = disk']
    /\ UNCHANGED <<args, pc, rfiles, rdirs, searching, err, copy, finished, shown>>

\* ToLower(resp) != "y"
Confirmed(a) == a \in {"y", "Y"}

Confirm(a) ==
    /\ pc = "confirm"
    /\ asked' = [asked EXCEPT !.yes = a \in {"y", "Y"}]
    /\ pc' = IF Confirmed(a) THEN "remove" ELSE "exit"
    /\ UNCHANGED <<args, disk, rfiles, rdirs, searching, err, copy, finished, shown>>

\* An exception is printed and ends the removal, not the program.
RemoveError == pc' = "exit" /\ err' = TRUE

\* The files in order, then the folders with what is in them, before them.
\* remove fails on a directory that is not empty, and does nothing for a
\* missing path.
Remove ==
    /\ pc = "remove"
    /\ \/ /\ rfiles # <<>>
          /\ LET n == Head(rfiles)
             IN  \/ /\ disk[n] = "dir" => \A k \in Inside[n] : disk[k] = "none"
                    /\ disk' = [disk EXCEPT ![n] = "none"]
                    /\ rfiles' = Tail(rfiles)
                    /\ UNCHANGED <<pc, err>>
                 \/ RemoveError /\ UNCHANGED <<disk, rfiles>>
          /\ UNCHANGED rdirs
       \/ /\ rfiles = <<>> /\ rdirs # <<>>
          /\ LET B == Below(Head(rdirs))
             IN  \/ /\ disk' = [n \in Node |-> IF n \in B THEN "none" ELSE disk[n]]
                    /\ rdirs' = Tail(rdirs)
                    /\ UNCHANGED <<pc, err>>
                 \/ /\ \E P \in SUBSET (B \ {Head(rdirs)}) :
                          /\ \A n \in P : Inside[n] \subseteq P
                          /\ disk' = [n \in Node |-> IF n \in P THEN "none" ELSE disk[n]]
                    /\ RemoveError
                    /\ UNCHANGED rdirs
          /\ UNCHANGED rfiles
       \/ /\ rfiles = <<>> /\ rdirs = <<>>
          /\ pc' = "exit"
          /\ UNCHANGED <<disk, err, rfiles, rdirs>>
    /\ UNCHANGED <<args, asked, searching, copy, finished, shown>>

\* ReconstitueSymlinks runs in a thread (module Reconstitute), and nothing
\* catches what it throws; without a folder dirs[0] does not exist, and what
\* comes of that is not defined.
Reconstitute ==
    /\ pc = "reconstitute"
    /\ pc' \in {"exit", "terminated"}
    /\ UNCHANGED <<args, disk, removing, searching, err, copy, finished, shown>>

-----------------------------------------------------------------------------
(* Copying: the thread as far as main sees it, and the monitor.            *)

CopyStart ==
    /\ pc = "copy"
    /\ IF Exists(Input.node)
       THEN pc' = "monitor" /\ copy' = [copy EXCEPT !.at = "listing"]
       ELSE pc' = "exit" /\ UNCHANGED copy
    /\ UNCHANGED <<args, disk, removing, searching, err, finished, shown>>

\* The output path is created, the folders are listed; a failure to create
\* it ends the process.
CopyListing ==
    /\ copy.at = "listing"
    /\ \/ /\ \E t \in Times : copy' = [copy EXCEPT !.at = "active", !.active = TRUE,
                                                   !.time = t]
          /\ UNCHANGED pc
       \/ pc' = "terminated" /\ UNCHANGED copy

\* A sorter queues a file, and announces it afterwards; by then its size may
\* not be readable, with -m because a worker has moved it.
Sort ==
    /\ copy.at = "active"
    /\ \/ /\ copy.left > 0
          /\ copy' = [copy EXCEPT !.left = @ - 1, !.queued = @ + 1, !.late = @ + 1]
       \/ /\ copy.late > 0
          /\ \E o \in BOOLEAN :
                copy' = [copy EXCEPT !.late = @ - 1, !.toCopy = @ + 1, !.odd = @ \/ o]
    /\ UNCHANGED pc

\* One of the processors workers copies a file, or fails and notes an error.
Work ==
    /\ copy.at = "active" /\ copy.queued > 0
    /\ processors > 0
    /\ \/ \E o \in BOOLEAN :
             copy' = [copy EXCEPT !.queued = @ - 1, !.copied = @ + 1, !.odd = @ \/ o]
       \/ copy' = [copy EXCEPT !.queued = @ - 1, !.failed = @ + 1]
    /\ UNCHANGED pc

\* With -d the files without a match are queued after the sorters, and a
\* worker fails to delete one.
DeleteFails ==
    /\ copy.at = "active" /\ copy.left = 0 /\ copy.late = 0
    /\ "-d" \in set /\ processors > 0
    /\ copy' = [copy EXCEPT !.undeleted = TRUE]
    /\ UNCHANGED pc

\* The sorters and the workers, as many as there are, have been joined.
CopyJoined ==
    /\ copy.at = "active"
    /\ copy.left = 0 /\ copy.late = 0
    /\ processors > 0 => copy.queued = 0
    /\ copy' = [copy EXCEPT !.at = "joined", !.active = FALSE]
    /\ UNCHANGED pc

\* _finished = true, and the thread ends.
CopyEnd == copy.at = "joined" /\ copy' = [copy EXCEPT !.at = "finished"]

CopyThread ==
    /\ CopyListing \/ Sort \/ Work \/ DeleteFails \/ CopyJoined \/ (CopyEnd /\ UNCHANGED pc)
    /\ UNCHANGED <<args, disk, removing, searching, err, finished, shown>>

\* (int)(copied / toCopy * 100) of the bytes: undefined for 0 / 0 and n / 0,
\* and anything if one of them is off by a -1.
Percent == IF copy.odd \/ copy.toCopy * copy.size = 0 THEN NoNumber
           ELSE (copy.copied * copy.size * 100) \div (copy.toCopy * copy.size)

PrintTotals == shown' = [copied |-> copy.copied, toCopy |-> copy.toCopy, percent |-> Percent]

\* A turn of the loop: the flag is read first, then the totals are printed.
MonitorRead ==
    /\ pc = "monitor"
    /\ finished' = (copy.at = "finished")
    /\ pc' = "print"
    /\ UNCHANGED <<args, disk, removing, searching, err, copy, shown>>

MonitorPrint ==
    /\ pc = "print"
    /\ IF copy.active THEN PrintTotals ELSE UNCHANGED shown
    /\ pc' = IF finished THEN "join" ELSE "monitor"
    /\ UNCHANGED <<args, disk, removing, searching, err, copy, finished>>

\* th.join()
JoinCopy == pc = "join" /\ copy.at = "finished"

\* The totals, once more, and the errors.
FinalPrint ==
    /\ JoinCopy
    /\ PrintTotals
    /\ err' = (copy.failed > 0 \/ copy.undeleted)
    /\ pc' = "exit"
    /\ UNCHANGED <<args, disk, removing, searching, copy, finished>>

-----------------------------------------------------------------------------
Ended == pc \in {"exit", "terminated"}

Main ==
    \/ Usage \/ Parse \/ ParseEnd \/ StatusThrows \/ Classify \/ Dispatch
    \/ SearchStart \/ (\E n \in todo : SearchStep(n)) \/ SearchEnd
    \/ Remove \/ Reconstitute
    \/ CopyStart \/ MonitorRead \/ MonitorPrint \/ FinalPrint

\* The user and other programs.
World == (\E a \in {"y", "Y", "n", ""} : Confirm(a)) \/ (\E n \in Node : Disturb(n))

Next ==
    \/ Main \/ World
    \/ ~Ended /\ CopyThread
    \/ Ended /\ UNCHANGED vars

Spec == Init /\ [][Next]_vars

\* Both threads are scheduled; the user need not answer.
FairSpec == Spec /\ WF_vars(Main) /\ WF_vars(~Ended /\ CopyThread)

-----------------------------------------------------------------------------
(* Properties.                                                             *)

\* No path has the text of an option in it.
Plain == \A k \in 1..Len(argv) : argv[k].means = "path" => argv[k].has = {}

\* Where -p is given with a number.
Numbered == {k \in 1..Len(argv) : argv[k].means = "-p" /\ argv[k].num # NoNumber}

\* Options are what the user meant, wherever they stand among the arguments
\* ("--debug" is not "-d", the last good -p counts, -f includes -o), and the
\* other arguments are the paths, unless a path has the text of an option in
\* it: such a path switches the option on, -d or -m included.
ParsedAsMeant ==
    pc \notin {"start", "parse"} /\ Plain /\ Len(argv) >= 2 =>
        LET meant == {argv[k].means : k \in 1..Len(argv)} \ {"path"}
        IN  /\ set = meant \cup (IF "-f" \in meant THEN {"-o"} ELSE {})
            /\ Numbered = {} => processors = 1
            /\ \A k \in Numbered : (\A j \in Numbered : j <= k) => processors = argv[k].num
            /\ pc = "classify" =>
                  {n \in Node : \E k \in 1..Len(sinodes) : sinodes[k] = n}
                        = {n \in Node : \E k \in 1..Len(argv) :
                                           argv[k].means = "path" /\ argv[k].node = n}

\* What disappears after the question was answered with yes was named on the
\* command line or lies in a folder that was; after any other answer nothing
\* does, although files and folders are told apart before the question.
RemovesOnlyNamed ==
    \A n \in Node :
        disk[n] # asked.disk[n] =>
            asked.yes /\ \E k \in 1..Len(argv) : n \in Below(argv[k].node)

\* After a confirmed removal every path that was found is gone, whatever it
\* has become since, or an error was printed: one that could not be removed,
\* or a file that has become a directory with something in it, stops the rest
\* ("Deleted all files." is printed all the same).
RemovedOrReported ==
    pc = "exit" /\ asked.yes =>
        err \/ \A n \in asked.listed : disk[n] = "none"

\* A search that reports no error has found every match below the input path.
SearchComplete ==
    pc = "exit" /\ "-s" \in set /\ ~err /\ Exists(Input.node) =>
        found = {n \in Inside[Input.node] : disk[n] # "none"} \cap Last.finds

\* The totals printed last are final, and all that was announced was copied or
\* is among the errors, unless -p asked for no worker: then files stay behind
\* without an error.  If every size could be read, a complete copy ends at
\* 100 percent; a size read after the file was moved spoils that.
FinalReport ==
    pc = "exit" /\ copy.at # "none" =>
        /\ shown.copied = copy.copied /\ shown.toCopy = NFiles
        /\ shown.copied + copy.failed = NFiles \/ processors < 1
        /\ ~err => copy.failed = 0 /\ ~copy.undeleted
        /\ ~err /\ ~copy.odd /\ processors > 0 /\ NFiles * copy.size > 0 =>
              shown.percent = 100

\* The printed fields add up to the time measured, and a field reaches the
\* next unit only when the time is exactly on its boundary (the comparisons
\* are > where >= would print 1m instead of 60s).
TimeExact ==
    LET ns == FormatTimeNS(copy.time)
        us == FormatTime(copy.time \div Micro)
    IN  /\ TotalNS(ns) = copy.time
        /\ Total(us) = copy.time \div Micro
        /\ ns[2] * Second <= Minute /\ ns[3] * Milli <= Second
        /\ ns[4] * Micro <= Milli /\ ns[5] <= Micro
        /\ ns[2] * Second = Minute => ns[3] + ns[4] + ns[5] = 0

\* main ends, or waits for the answer to its question: it never waits for a
\* copy that has ended, and the copy ends with any number of workers.
MainEnds == <>[](Ended \/ pc = "confirm")
=============================================================================
