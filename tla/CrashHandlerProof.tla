-------------------------- MODULE CrashHandlerProof --------------------------
(***************************************************************************)
(* The crash handler for any number of threads, modules and words: COM is  *)
(* undone by every lookup that returns, a crash log is the work of one     *)
(* thread, and frames are printed with the modules they are in.            *)
(***************************************************************************)
EXTENDS CrashHandler, WellFoundedInduction, TLAPS

-----------------------------------------------------------------------------
(* COM.  A thread in a lookup holds the mutex, so that the count is that of *)
(* its lookup: 0 before CoInitializeEx, at most 1 after it, and one         *)
(* CoUninitialize undoes it.                                               *)

ComInv ==
    /\ com \in -1..1
    /\ at = [t \in Thread |-> at[t]]
    /\ pdb \in Thread \cup {None}
    /\ \A t \in Thread : at[t] # "idle" => pdb = t
    /\ \A t \in Thread : at[t] = "init" => com = 0
    /\ pdb # None => com \in 0..1
    /\ ComPaired

\* Every exit of pdb_details undoes the CoInitializeEx it made, except the
\* ones by an exception, which leave one at most.
LEMMA LookupKeepsCom ==
    ASSUME ComInv, NEW t \in Thread,
           Enter(t) \/ LookupStep(t) \/ ReleaseFaults(t) \/ LookupThrows(t)
    PROVE  ComInv'
<1> USE PdbAssumption
<1>0. ASSUME at[t] # "idle" PROVE pdb = t /\ com \in 0..1 /\ \A u \in Thread : u # t => at[u] = "idle"
  BY <1>0 DEF ComInv
<1>1. CASE Enter(t)
  <2>1. \A u \in Thread : at[u] = "idle" BY <1>1 DEF Enter, ComInv
  <2> QED BY <1>1, <2>1 DEF Enter, ComInv, ComPaired
<1>2. CASE ReleaseFaults(t) BY <1>0, <1>2 DEF ReleaseFaults, ComInv, ComPaired
<1>3. ASSUME at[t] # "idle", Leave(t) PROVE ComInv'
  BY <1>0, <1>3 DEF Leave, ComInv, ComPaired
<1>4. CASE CoInitializeEx(t) BY <1>0, <1>3, <1>4 DEF CoInitializeEx, ComInv, ComPaired
<1>5. CASE CreateSource(t) BY <1>0, <1>3, <1>5 DEF CreateSource, ComInv, ComPaired
<1>6. CASE LoadDataForExe(t) BY <1>0, <1>3, <1>6 DEF LoadDataForExe, ComInv, ComPaired
<1>7. CASE OpenSession(t) BY <1>0, <1>3, <1>7 DEF OpenSession, ComInv, ComPaired
<1>8. CASE FindSymbol(t) BY <1>3, <1>8 DEF FindSymbol
<1>9. CASE LookupThrows(t) BY <1>0, <1>9 DEF LookupThrows, ComInv, ComPaired
<1> QED BY <1>1, <1>2, <1>4, <1>5, <1>6, <1>7, <1>8, <1>9 DEF LookupStep

\* Every step of the handler is one of a lookup or leaves COM alone.
LEMMA OnlyLookups ==
    ASSUME Next
    PROVE  \/ UNCHANGED pdbVars
           \/ \E t \in Thread :
                 Enter(t) \/ LookupStep(t) \/ ReleaseFaults(t) \/ LookupThrows(t)
<1>1. ASSUME NEW t \in Thread, Filter(t) PROVE UNCHANGED pdbVars
  BY <1>1 DEF Filter, Lock, Relock, Enum, Create, OpenLog, Begin, Finish, Throws,
              SysinfoFaults, TerminateProcess, Analyse
<1>2. ASSUME NEW t \in Thread, Lookup(t) \/ LookupEscapes(t)
      PROVE  Enter(t) \/ LookupStep(t) \/ ReleaseFaults(t) \/ LookupThrows(t)
  BY <1>2 DEF Lookup, LookupEscapes
<1>3. ASSUME NEW t \in App, Crash(t) PROVE UNCHANGED pdbVars
  BY <1>3 DEF Crash
<1>4. ASSUME Install \/ LoadOrFree PROVE UNCHANGED pdbVars
  BY <1>4 DEF Install, LoadOrFree
<1> QED BY <1>1, <1>2, <1>3, <1>4 DEF Next, vars

\* No lookup that returns, of any thread and with any call failing, leaves COM
\* initialized behind, although the hr that decides whether to initialize is
\* shared; one that ends by a C++ exception leaves one initialization at most.
THEOREM ComUndone == Spec => []ComPaired
<1>1. CrashInit => ComInv BY DEF CrashInit, PdbInit, ComInv, ComPaired
<1>2. ComInv /\ [Next]_vars => ComInv'
  <2>1. ASSUME ComInv, UNCHANGED pdbVars PROVE ComInv'
    BY <2>1 DEF ComInv, ComPaired, pdbVars
  <2> QED BY <2>1, OnlyLookups, LookupKeepsCom DEF vars
<1>3. ComInv => ComPaired BY DEF ComInv
<1> QED BY <1>1, <1>2, <1>3, PTL DEF Spec

-----------------------------------------------------------------------------
(* Crash logs.  A thread prints only while it holds the mutex, and opens   *)
(* one log in its life: once it has one, it can be kept from the mutex     *)
(* only by itself.                                                         *)

Keys == Dirs \X (0..MaxNow)
Line == [by: Thread, sec: {Sections[i] : i \in 1..6}, words: Nat]
Places == {"run", "lock", "stuck", "enum", "create", "join", "log", "section",
           "analyse", "terminate"}
Owning == {"enum", "create", "join", "log", "section", "analyse"}
Printing == {"section", "analyse"}

LogType ==
    /\ pc \in [Thread -> Places]
    /\ sync \in Thread \cup {None}
    /\ sec \in [Thread -> 0..7]
    /\ opened = [t \in Thread |-> opened[t]]
    /\ logs \in [Keys -> Seq(Line)]
    /\ now \in 0..MaxNow
    /\ off \in Nat
    /\ stack \in Seq(STRING)

Owner == \A t \in Thread : pc[t] \in Owning => sync = t

\* A thread without a log, and one that may still come to open one.
Unopened ==
    \A t \in Thread :
        pc[t] \in {"run", "enum", "create", "join", "log"}
        \/ (pc[t] = "lock" /\ sync # t) => sec[t] = 0

\* The log of the thread that prints: its sections so far, all its own.
Current ==
    \A t \in Thread :
        pc[t] \in Printing =>
            /\ sec[t] \in 1..6
            /\ opened[t] \in Keys
            /\ Len(logs[opened[t]]) = sec[t] - 1
            /\ \A i \in 1..Len(logs[opened[t]]) : logs[opened[t]][i].by = t

Ordered ==
    \A k \in Keys : \A i \in 1..Len(logs[k]) :
        /\ logs[k][i].sec = Sections[i]
        /\ logs[k][i].by = logs[k][1].by
        /\ logs[k][i].words = Words(Sections[i])

Completed ==
    \A t \in Thread :
        sec[t] = 7 =>
            /\ opened[t] \in Keys
            /\ \/ Len(logs[opened[t]]) = 6 /\ logs[opened[t]][1].by = t
               \/ \E u \in Thread \ {t} : sec[u] > 0 /\ opened[u] = opened[t]

LogInv == LogType /\ Owner /\ Unopened /\ Current /\ Ordered /\ Completed

\* What a step that prints nothing may do to the place of a thread.
Moves(t) ==
    \/ pc'[t] = pc[t]
    \/ pc[t] = "run" /\ pc'[t] = "lock"
    \/ pc[t] = "lock" /\ sync = None /\ sync' = t /\ pc'[t] = "enum"
    \/ pc[t] = "lock" /\ sync = t /\ pc'[t] \in {"stuck", "terminate"}
    \/ pc[t] \in {"enum", "create"}
       /\ pc'[t] \in {"enum", "create", "log", "join", "lock"}
    \/ pc[t] \in Printing /\ pc'[t] \in Printing \cup {"lock"}

Quiet ==
    /\ UNCHANGED <<sec, opened, logs, now, stack>>
    /\ off' \in Nat
    /\ pc' \in [Thread -> Places]
    /\ \A t \in Thread : Moves(t)
    /\ sync' = sync \/ (sync = None /\ sync' \in Thread)

\* Steps that print nothing keep the logs in order.
LEMMA QuietKeepsLogs == LogInv /\ Quiet => LogInv'
<1> SUFFICES ASSUME LogInv, Quiet PROVE LogInv' OBVIOUS
<1> USE CrashAssumption, PdbAssumption
<1>1. LogType' BY DEF LogInv, LogType, Quiet
<1>2. Owner'
  BY DEF LogInv, LogType, Owner, Quiet, Moves, Owning, Printing
<1>3. Unopened'
  BY DEF LogInv, LogType, Owner, Unopened, Quiet, Moves, Owning, Printing
<1>4. Current' BY DEF LogInv, Current, Quiet, Moves, Printing
<1>5. Ordered' BY DEF LogInv, Ordered, Quiet, Words
<1>6. Completed' BY DEF LogInv, Completed, Quiet
<1> QED BY <1>1, <1>2, <1>3, <1>4, <1>5, <1>6 DEF LogInv

\* The steps that print nothing.
LEMMA QuietSteps ==
    ASSUME LogInv, NEW t \in Thread,
           \/ Crash(t) \/ Lock(t) \/ Relock(t) \/ Enum(t) \/ Create(t)
           \/ Begin(t) \/ Lookup(t) \/ TerminateProcess(t) \/ SysinfoFaults(t)
    PROVE  Quiet
<1> USE CrashAssumption, PdbAssumption
        DEF LogInv, LogType, Quiet, Moves, Places, Printing
<1>1. CASE Crash(t) BY <1>1 DEF Crash, logVars, workVars, envVars
<1>2. CASE Lock(t) BY <1>2 DEF Lock, logVars, workVars, envVars
<1>3. CASE Relock(t) BY <1>3 DEF Relock, logVars, workVars, envVars
<1>4. CASE Enum(t) BY <1>4 DEF Enum, logVars, workVars, envVars
<1>5. CASE Create(t)
  <2>1. /\ UNCHANGED <<sec, opened, logs, now, stack, sync, off>> /\ pc[t] = "create"
    BY <1>5 DEF Create, logVars, envVars
  <2>2. CASE pc' = [pc EXCEPT ![t] = "log"] BY <2>1, <2>2
  <2>3. CASE \E w \in {t} \cup {p \in Pool : pc[p] = "run"} :
                pc' = [pc EXCEPT ![t] = "join", ![w] = "lock"]
    BY <2>1, <2>3
  <2>4. CASE pc' = pc BY <2>1, <2>4
  <2> QED BY <1>5, <2>2, <2>3, <2>4 DEF Create
<1>6. CASE Begin(t) BY <1>6 DEF Begin, logVars, envVars
<1>7. CASE Lookup(t)
  <2>1. /\ UNCHANGED <<sec, opened, logs, now, stack, sync, off>>
        /\ pc[t] \in {"run", "analyse"}
        /\ pc' = pc \/ pc' = [pc EXCEPT ![t] = "lock"]
    BY <1>7, Zenon DEF Lookup, logVars, envVars
  <2> QED BY <2>1
<1>8. CASE TerminateProcess(t)
  BY <1>8 DEF TerminateProcess, logVars, workVars, envVars
<1>9. CASE SysinfoFaults(t)
  BY <1>9 DEF SysinfoFaults, logVars, workVars, envVars
<1> QED BY <1>1, <1>2, <1>3, <1>4, <1>5, <1>6, <1>7, <1>8, <1>9

\* Installing the handler and loading or freeing a module print nothing.
LEMMA OutsideQuiet ==
    ASSUME LogInv, Install \/ LoadOrFree \/ UNCHANGED vars
    PROVE  Quiet
<1> USE DEF LogInv, LogType, Quiet, Moves
<1>1. CASE Install BY <1>1 DEF Install, logVars, workVars
<1>2. CASE LoadOrFree BY <1>2 DEF LoadOrFree, logVars, workVars
<1>3. CASE UNCHANGED vars BY <1>3 DEF vars, logVars, workVars, envVars
<1> QED BY <1>1, <1>2, <1>3

\* Neither does a word handed out for analysis.
LEMMA AnalyseQuiet ==
    ASSUME LogInv, NEW t \in Thread, NEW w \in Thread, NEW i, Analyse(t, w, i)
    PROVE  Quiet
<1> USE CrashAssumption DEF LogInv, LogType
<1>1. UNCHANGED <<sec, opened, logs, now, stack, sync, off>> /\ pc[t] = "analyse"
  BY DEF Analyse, logVars, envVars
<1>2. w = t \/ pc[w] = "run" BY DEF Analyse, Workers
<1>3. pc' = pc \/ pc' = [pc EXCEPT ![w] = "lock"] BY DEF Analyse
<1> QED BY <1>1, <1>2, <1>3 DEF Quiet, Moves, Places, Printing

\* get_log: a fresh log, which cannot be that of the thread itself.
LEMMA OpenLogStep ==
    ASSUME LogInv, NEW t \in Thread, OpenLog(t)
    PROVE  LogInv'
<1> USE CrashAssumption, PdbAssumption
<1>0. /\ pc[t] = "log" /\ sync = t /\ sec[t] = 0 /\ now' \in 0..MaxNow
      /\ UNCHANGED <<stack, off>>
  BY DEF OpenLog, LogInv, LogType, Owner, Unopened, Owning, workVars
<1>1. CASE UNCHANGED <<pc, sync, sec, opened, logs>>
  <2>1. LogType' BY <1>0, <1>1 DEF LogInv, LogType
  <2>2. Ordered' BY <1>0, <1>1 DEF LogInv, Ordered, Words
  <2> QED BY <1>1, <2>1, <2>2 DEF LogInv, Owner, Unopened, Current, Completed
<1>2. CASE /\ pc' = [pc EXCEPT ![t] = "terminate"] /\ sync' = None
           /\ UNCHANGED <<sec, opened, logs>>
  <2>1. LogType' BY <1>0, <1>2 DEF LogInv, LogType, Places
  <2>2. Owner' BY <1>0, <1>2 DEF LogInv, LogType, Owner, Owning
  <2>3. Unopened' BY <1>0, <1>2 DEF LogInv, LogType, Unopened
  <2>4. Current' BY <1>0, <1>2 DEF LogInv, LogType, Current, Printing
  <2>5. Ordered' BY <1>0, <1>2 DEF LogInv, Ordered, Words
  <2>6. Completed' BY <1>2 DEF LogInv, Completed
  <2> QED BY <2>1, <2>2, <2>3, <2>4, <2>5, <2>6 DEF LogInv
<1>3. CASE \E k \in Keys : /\ logs' = [logs EXCEPT ![k] = <<>>]
                           /\ opened' = [opened EXCEPT ![t] = k]
                           /\ sec' = [sec EXCEPT ![t] = 1]
                           /\ pc' = [pc EXCEPT ![t] = "section"]
                           /\ UNCHANGED sync
  <2> PICK k \in Keys : /\ logs' = [logs EXCEPT ![k] = <<>>]
                        /\ opened' = [opened EXCEPT ![t] = k]
                        /\ sec' = [sec EXCEPT ![t] = 1]
                        /\ pc' = [pc EXCEPT ![t] = "section"]
                        /\ UNCHANGED sync
    BY <1>3
  <2>1. LogType'
    <3>1. <<>> \in Seq(Line) OBVIOUS
    <3>2. logs' \in [Keys -> Seq(Line)] BY <3>1 DEF LogInv, LogType
    <3>3. pc' \in [Thread -> Places] BY DEF LogInv, LogType, Places
    <3>4. sec' \in [Thread -> 0..7] BY DEF LogInv, LogType
    <3>5. opened' = [u \in Thread |-> opened'[u]] BY DEF LogInv, LogType
    <3> QED BY <1>0, <3>2, <3>3, <3>4, <3>5 DEF LogInv, LogType
  <2>2. Owner' BY <1>0 DEF LogInv, LogType, Owner, Owning
  <2>3. Unopened' BY <1>0 DEF LogInv, LogType, Unopened
  <2>4. Current'
    <3>1. \A u \in Thread : u # t => pc[u] \notin Printing
      BY <1>0 DEF LogInv, Owner, Owning, Printing
    <3>2. logs'[k] = <<>> BY DEF LogInv, LogType
    <3> QED BY <1>0, <3>1, <3>2 DEF LogInv, LogType, Current, Printing
  <2>5. Ordered' BY <1>0 DEF LogInv, LogType, Ordered, Words
  <2>6. Completed'
    <3> SUFFICES ASSUME NEW u \in Thread, sec'[u] = 7
                 PROVE  /\ opened'[u] \in Keys
                        /\ \/ Len(logs'[opened'[u]]) = 6 /\ logs'[opened'[u]][1].by = u
                           \/ \E v \in Thread \ {u} : sec'[v] > 0 /\ opened'[v] = opened'[u]
      BY DEF Completed
    <3>1. u # t /\ sec[u] = 7 /\ opened'[u] = opened[u] BY DEF LogInv, LogType
    <3>2. opened[u] \in Keys BY <3>1 DEF LogInv, Completed
    <3>3. CASE opened[u] = k BY <3>1, <3>2, <3>3 DEF LogInv, LogType
    <3>4. CASE opened[u] # k
      <4>1. logs'[opened[u]] = logs[opened[u]] BY <3>2, <3>4 DEF LogInv, LogType
      <4>2. \A v \in Thread : sec[v] > 0 => sec'[v] = sec[v] /\ opened'[v] = opened[v]
        BY <1>0 DEF LogInv, LogType
      <4> QED BY <3>1, <3>2, <4>1, <4>2 DEF LogInv, Completed
    <3> QED BY <3>3, <3>4
  <2> QED BY <2>1, <2>2, <2>3, <2>4, <2>5, <2>6 DEF LogInv
<1>4. <<IF inst = "crashPath" THEN "crashPath" ELSE "cwd", now'>> \in Keys
  BY <1>0 DEF Keys, Dirs
<1> QED BY <1>1, <1>2, <1>3, <1>4 DEF OpenLog

\* A section is appended to the log, by the only thread that prints.
LEMMA EndSectionStep ==
    ASSUME LogInv, NEW t \in Thread, pc[t] = "analyse", NEW n \in Nat,
           n = Words(Section(t)), EndSection(t, n),
           UNCHANGED <<opened, stack, now>>
    PROVE  LogInv'
<1> USE CrashAssumption, PdbAssumption
<1> DEFINE k == opened[t]
           line == [by |-> t, sec |-> Section(t), words |-> n]
<1>1. /\ sync = t /\ sec[t] \in 1..6 /\ k \in Keys /\ Len(logs[k]) = sec[t] - 1
      /\ \A i \in 1..Len(logs[k]) : logs[k][i].by = t
  BY DEF LogInv, Owner, Owning, Current, Printing
<1>2. /\ logs' = [logs EXCEPT ![k] = Append(@, line)]
      /\ sec' = [sec EXCEPT ![t] = @ + 1]
      /\ off' = 0
      /\ \/ sec[t] = 6 /\ pc' = [pc EXCEPT ![t] = "terminate"] /\ sync' = None
         \/ sec[t] # 6 /\ pc' = [pc EXCEPT ![t] = "section"] /\ sync' = sync
  BY DEF EndSection, Sections
<1>3. line \in Line
  <2>1. Section(t) \in {Sections[i] : i \in 1..6} BY <1>1 DEF Section
  <2> QED BY <2>1 DEF Line
<1>4. /\ logs[k] \in Seq(Line) /\ logs'[k] = Append(logs[k], line)
      /\ Len(logs'[k]) = sec[t]
      /\ \A i \in 1..Len(logs[k]) : logs'[k][i] = logs[k][i]
      /\ logs'[k][sec[t]] = line
  <2>1. logs[k] \in Seq(Line) BY <1>1 DEF LogInv, LogType
  <2>2. logs'[k] = Append(logs[k], line) BY <1>1, <1>2 DEF LogInv, LogType
  <2> HIDE DEF line, k
  <2> QED BY <1>1, <1>3, <2>1, <2>2
<1> line.by = t /\ line.sec = Section(t) /\ line.words = n OBVIOUS
<1> n = Words(Section(t)) /\ k = opened[t] OBVIOUS
<1> HIDE DEF line, k
<1>5. \A j \in Keys : j # k => logs'[j] = logs[j] BY <1>2 DEF LogInv, LogType
<1>6. \A u \in Thread : u # t => pc[u] \notin Owning BY <1>1 DEF LogInv, Owner
<1>7. \A i \in 1..Len(logs'[k]) : logs'[k][i].by = t
  <2> SUFFICES ASSUME NEW i \in 1..sec[t] PROVE logs'[k][i].by = t
    BY <1>4
  <2>1. CASE i = sec[t] BY <1>4, <2>1
  <2>2. CASE i \in 1..Len(logs[k]) BY <1>1, <1>4, <2>2
  <2> QED BY <1>1, <2>1, <2>2
<1>8. LogType'
  <2>1. logs' \in [Keys -> Seq(Line)]
    <3>1. Append(logs[k], line) \in Seq(Line) BY <1>3, <1>4
    <3> QED BY <1>2, <3>1 DEF LogInv, LogType
  <2>2. pc' \in [Thread -> Places] BY <1>2 DEF LogInv, LogType, Places
  <2>3. sec' \in [Thread -> 0..7] BY <1>1, <1>2 DEF LogInv, LogType
  <2> QED BY <1>2, <2>1, <2>2, <2>3 DEF LogInv, LogType
<1>9. Owner' BY <1>1, <1>2, <1>6 DEF LogInv, LogType, Owner, Owning
<1>10. Unopened' BY <1>1, <1>2 DEF LogInv, LogType, Unopened
<1>11. Current'
  <2>1. \A u \in Thread : u # t => pc'[u] \notin Printing
    BY <1>2, <1>6 DEF LogInv, LogType, Owning, Printing
  <2>2. pc'[t] \in Printing => sec'[t] = sec[t] + 1 /\ sec'[t] \in 1..6
    BY <1>1, <1>2 DEF LogInv, LogType, Printing
  <2> SUFFICES ASSUME NEW u \in Thread, pc'[u] \in Printing
               PROVE  /\ sec'[u] \in 1..6
                      /\ opened'[u] \in Keys
                      /\ Len(logs'[opened'[u]]) = sec'[u] - 1
                      /\ \A i \in 1..Len(logs'[opened'[u]]) : logs'[opened'[u]][i].by = u
    BY DEF Current
  <2>3. u = t /\ opened'[u] = k BY <2>1
  <2>4. Len(logs'[k]) = sec'[t] - 1 BY <1>1, <1>4, <2>2, <2>3
  <2> QED BY <1>1, <1>7, <2>2, <2>3, <2>4
<1>12. Ordered'
  <2>1. \A x : Words(x)' = Words(x) BY DEF Words
  <2>2. \A i \in 1..Len(logs'[k]) : /\ logs'[k][i].sec = Sections[i]
                                    /\ logs'[k][i].words = Words(Sections[i])
    <3> SUFFICES ASSUME NEW i \in 1..Len(logs'[k])
                 PROVE  /\ logs'[k][i].sec = Sections[i]
                        /\ logs'[k][i].words = Words(Sections[i])
      OBVIOUS
    <3>1. CASE i = sec[t] BY <1>4, <3>1 DEF Section
    <3>2. CASE i # sec[t]
      <4>1. i \in 1..Len(logs[k]) BY <1>1, <1>4, <3>2
      <4> QED BY <1>1, <1>4, <4>1 DEF LogInv, Ordered
    <3> QED BY <3>1, <3>2
  <2>3. \A i \in 1..Len(logs'[k]) : logs'[k][i].by = logs'[k][1].by
    <3>1. 1 \in 1..Len(logs'[k]) BY <1>1, <1>4
    <3> QED BY <1>7, <3>1
  <2> QED BY <1>5, <2>1, <2>2, <2>3 DEF LogInv, Ordered
<1>13. Completed'
  <2> SUFFICES ASSUME NEW u \in Thread, sec'[u] = 7
               PROVE  /\ opened[u] \in Keys
                      /\ \/ Len(logs'[opened[u]]) = 6 /\ logs'[opened[u]][1].by = u
                         \/ \E v \in Thread \ {u} : sec'[v] > 0 /\ opened[v] = opened[u]
    BY DEF Completed
  <2>0. \A v \in Thread : sec[v] > 0 => sec'[v] > 0
    BY <1>1, <1>2 DEF LogInv, LogType
  <2>1. CASE u = t
    <3>1. sec[t] = 6 BY <1>1, <1>2, <2>1 DEF LogInv, LogType
    <3>2. Len(logs'[k]) = 6 /\ logs'[k][1].by = t BY <1>4, <1>7, <3>1
    <3> QED BY <1>1, <2>1, <3>2
  <2>2. CASE u # t /\ opened[u] = k
    BY <1>1, <2>0, <2>2
  <2>3. CASE u # t /\ opened[u] # k
    <3>1. sec[u] = 7 BY <1>2, <2>3 DEF LogInv, LogType
    <3>2. opened[u] \in Keys /\ logs'[opened[u]] = logs[opened[u]]
      BY <1>5, <2>3, <3>1 DEF LogInv, Completed
    <3> QED BY <2>0, <3>1, <3>2 DEF LogInv, Completed
  <2> QED BY <2>1, <2>2, <2>3
<1> QED BY <1>8, <1>9, <1>10, <1>11, <1>12, <1>13 DEF LogInv

\* The results of a block or section are printed at once, by its owner.
LEMMA FinishStep ==
    ASSUME LogInv, NEW t \in Thread, Finish(t)
    PROVE  LogInv'
<1> USE CrashAssumption
<1>1. /\ pc[t] = "analyse" /\ UNCHANGED <<opened, stack, now>>
      /\ sec[t] \in 1..6
  BY DEF Finish, envVars, LogInv, Current, Printing
<1>2. Words(Section(t)) \in Nat BY DEF Words, LogInv, LogType
<1> DEFINE n == IF Section(t) = "stack" THEN Smaller(off + BlockSize, Len(stack))
                ELSE Words(Section(t))
<1>3. n \in Nat /\ n <= Words(Section(t))
  <2>1. Len(stack) \in Nat /\ off + BlockSize \in Nat BY DEF LogInv, LogType
  <2>2. CASE Section(t) = "stack" BY <2>1, <2>2 DEF Smaller, Words
  <2>3. CASE Section(t) # "stack" BY <1>2, <2>3
  <2> QED BY <2>2, <2>3
<1>4. \/ /\ n < Words(Section(t)) /\ off' = n
         /\ pc' = [pc EXCEPT ![t] = "section"] /\ UNCHANGED <<sync, sec, logs>>
      \/ ~(n < Words(Section(t))) /\ EndSection(t, n)
  BY DEF Finish
<1> HIDE DEF n
<1>5. CASE /\ off' = n /\ pc' = [pc EXCEPT ![t] = "section"]
           /\ UNCHANGED <<sync, sec, logs>>
  <2>1. Quiet
    BY <1>1, <1>3, <1>5 DEF Quiet, Moves, Places, Printing, LogInv, LogType
  <2> QED BY <2>1, QuietKeepsLogs
<1>6. CASE n = Words(Section(t)) /\ EndSection(t, n)
  BY <1>1, <1>3, <1>6, EndSectionStep
<1> QED BY <1>2, <1>3, <1>4, <1>5, <1>6

\* A C++ exception ends the section, or the process.
LEMMA EscapesStep ==
    ASSUME LogInv, NEW t \in Thread, Escapes(t), UNCHANGED <<opened, stack, now>>
    PROVE  LogInv'
<1>1. CASE pc[t] = "analyse" /\ Section(t) \notin {"registers", "stack"}
  <2>1. Words(Section(t)) = 0 BY <1>1 DEF Words
  <2>2. EndSection(t, 0) BY <1>1 DEF Escapes
  <2> QED BY <1>1, <2>1, <2>2, EndSectionStep
<1>2. CASE ~(pc[t] = "analyse" /\ Section(t) \notin {"registers", "stack"})
  <2>1. UNCHANGED <<pc, sync, off, sec, logs>> BY <1>2 DEF Escapes
  <2>2. Quiet BY <2>1 DEF Quiet, Moves, LogInv, LogType
  <2> QED BY <2>2, QuietKeepsLogs
<1> QED BY <1>1, <1>2

\* Outside a lookup or in one.
LEMMA ThrowsStep ==
    ASSUME LogInv, NEW t \in Thread, Throws(t) \/ LookupEscapes(t)
    PROVE  LogInv'
<1>1. UNCHANGED <<opened, stack, now>> BY DEF Throws, LookupEscapes, envVars
<1>2. \E w \in Thread : Escapes(w)
  <2>1. Workers(t) \subseteq Thread BY CrashAssumption DEF Workers
  <2> QED BY <2>1 DEF Throws, LookupEscapes
<1> QED BY <1>1, <1>2, EscapesStep

\* The logs are in order at every moment.
LEMMA LogInvariance == Spec => []LogInv
<1>1. CrashInit => LogInv
  <2> SUFFICES ASSUME CrashInit PROVE LogInv OBVIOUS
  <2> USE CrashAssumption, PdbAssumption
  <2>0. /\ \A t \in Thread : pc[t] = "run" /\ sec[t] = 0
        /\ \A k \in Keys : logs[k] = <<>>
    BY DEF CrashInit, Keys
  <2>1. LogType
    <3>1. <<>> \in Seq(Line) OBVIOUS
    <3>2. logs \in [Keys -> Seq(Line)] BY <3>1 DEF CrashInit, Keys
    <3>3. pc \in [Thread -> Places] BY DEF CrashInit, Places
    <3>4. sec \in [Thread -> 0..7] /\ opened = [t \in Thread |-> opened[t]]
      BY DEF CrashInit
    <3>5. stack \in Seq(STRING) BY DEF CrashInit
    <3>6. sync \in Thread \cup {None} /\ now \in 0..MaxNow /\ off \in Nat
      BY DEF CrashInit
    <3> QED BY <3>2, <3>3, <3>4, <3>5, <3>6 DEF LogType
  <2>2. Owner BY <2>0 DEF Owner, Owning
  <2>3. Unopened BY <2>0 DEF Unopened
  <2>4. Current BY <2>0 DEF Current, Printing
  <2>5. Ordered BY <2>0 DEF Ordered
  <2>6. Completed BY <2>0 DEF Completed
  <2> QED BY <2>1, <2>2, <2>3, <2>4, <2>5, <2>6 DEF LogInv
<1>2. LogInv /\ [Next]_vars => LogInv'
  <2> SUFFICES ASSUME LogInv, [Next]_vars PROVE LogInv' OBVIOUS
  <2>1. ASSUME NEW t \in Thread, Filter(t) PROVE LogInv'
    BY <2>1, QuietSteps, AnalyseQuiet, QuietKeepsLogs, OpenLogStep, FinishStep,
       ThrowsStep DEF Filter
  <2>2. ASSUME NEW t \in Thread, Crash(t) \/ Lookup(t) \/ LookupEscapes(t) PROVE LogInv'
    BY <2>2, QuietSteps, QuietKeepsLogs, ThrowsStep
  <2>3. CASE Install \/ LoadOrFree \/ UNCHANGED vars
    BY <2>3, OutsideQuiet, QuietKeepsLogs
  <2>4. App \subseteq Thread BY CrashAssumption
  <2> QED BY <2>1, <2>2, <2>3, <2>4 DEF Next
<1> QED BY <1>1, <1>2, PTL DEF Spec

\* For any number of threads that crash and any stack: a crash log is never a
\* mixture of two crashes, and the log of a crash that came to its end is
\* complete unless another crash reopened the file of the same second.
THEOREM LogsAreWhole == Spec => []LogOfOneCrash
<1>1. LogInv => LogOfOneCrash
  <2> SUFFICES ASSUME LogInv PROVE LogOfOneCrash OBVIOUS
  <2>1. Len(Sections) = 6 BY DEF Sections
  <2>2. \A k \in DOMAIN logs :
           k \in Keys /\ logs[k] \in Seq(Line) /\ DOMAIN logs[k] = 1..Len(logs[k])
    BY DEF LogInv, LogType
  <2>3. \A k \in DOMAIN logs : \A i \in DOMAIN logs[k] :
          /\ logs[k][i].sec = Sections[i]
          /\ logs[k][i].by = logs[k][1].by
          /\ logs[k][i].words = Words(Sections[i])
    BY <2>2 DEF LogInv, Ordered
  <2>4. \A t \in Thread : sec[t] > Len(Sections) => sec[t] = 7
    BY <2>1 DEF LogInv, LogType
  <2> QED BY <2>1, <2>3, <2>4 DEF LogOfOneCrash, LogInv, Completed
<1> QED BY <1>1, LogInvariance, PTL


-----------------------------------------------------------------------------
(* Frames.  The list of modules that is searched holds, in the order of    *)
(* their addresses, every module that has been loaded ever since the mutex *)
(* was taken.                                                              *)

\* A set of positions has a last one.
LEMMA LastPosition ==
    ASSUME NEW n \in Nat, NEW T, T \subseteq 1..n, T # {}
    PROVE  \E x \in T : \A y \in T : y <= x
<1> DEFINE R == OpToRel(<, Nat)
           D == {n - i : i \in T}
<1>1. IsWellFoundedOn(R, Nat) BY NatLessThanWellFounded
<1>2. \A x, y \in Nat : y < x => <<y, x>> \in R BY DEF OpToRel
<1>3. D \subseteq Nat /\ D # {}
  <2>1. \A i \in T : n - i \in Nat OBVIOUS
  <2>2. PICK i \in T : TRUE OBVIOUS
  <2>3. n - i \in D OBVIOUS
  <2> QED BY <2>1, <2>3
<1> HIDE DEF R
<1>4. PICK d \in D : \A e \in D : ~(<<e, d>> \in R)
  <2> HIDE DEF D
  <2> QED BY <1>1, <1>3, WFMin
<1>5. PICK x \in T : d = n - x OBVIOUS
<1>6. ASSUME NEW y \in T PROVE y <= x
  <2>1. n - y \in D /\ n - y \in Nat /\ d \in Nat BY <1>3
  <2>2. ~(n - y < d) BY <1>2, <1>4, <2>1
  <2> QED BY <1>5, <2>1, <2>2
<1> QED BY <1>6

ByAddress(ms) ==
    \A i, j \in 1..Len(ms) : i < j => Base[ms[i]] <= Base[ms[j]]

\* get_module_for_pointer finds the module in a list by address that a
\* pointer is in, except by a pointer to its first byte.
LEMMA ModuleFound ==
    ASSUME NEW ms \in Seq(Module), ByAddress(ms), NEW p \in Nat,
           NEW m \in ToSet(ms), InRange(m, p), p # Base[m]
    PROVE  GetModuleForPointer(p, ms) = m
<1>0. DOMAIN ms = 1..Len(ms) /\ Len(ms) \in Nat OBVIOUS
<1>1. PICK k \in 1..Len(ms) : ms[k] = m BY <1>0 DEF ToSet
<1>2. \A i \in 1..Len(ms) : ms[i] \in Module /\ Base[ms[i]] \in Nat /\ Size[ms[i]] \in Nat \ {0}
  BY ModuleAssumption
<1> DEFINE T == {i \in 1..Len(ms) : Base[ms[i]] < p}
<1>3. k \in T BY <1>1, <1>2 DEF InRange
<1>4. PICK l \in T : \A i \in T : i <= l
  <2>1. T \subseteq 1..Len(ms) /\ T # {} BY <1>3
  <2> HIDE DEF T
  <2> QED BY <1>0, <2>1, LastPosition
<1>5. l \in 1..Len(ms) /\ Base[ms[l]] < p OBVIOUS
<1>6. ms[l] = m
  <2>1. Base[m] <= Base[ms[l]]
    <3>1. k < l \/ k = l BY <1>3, <1>4
    <3> QED BY <1>1, <1>2, <1>5, <3>1 DEF ByAddress
  <2>2. /\ p < Base[m] + Size[m] /\ Base[m] \in Nat /\ Size[m] \in Nat \ {0}
    BY <1>1, <1>2 DEF InRange
  <2>3. ms[l] # m => \/ Base[m] + Size[m] <= Base[ms[l]]
                     \/ Base[ms[l]] + Size[ms[l]] <= Base[m]
    BY <1>1, <1>2, <1>5, ModuleAssumption
  <2> QED BY <1>2, <1>5, <2>1, <2>2, <2>3
<1> DEFINE before == {i \in DOMAIN ms : Base[ms[i]] < p /\
                         \A j \in i + 1..Len(ms) : Base[ms[j]] >= p}
<1>7. l \in before
  <2>1. ASSUME NEW j \in l + 1..Len(ms) PROVE Base[ms[j]] >= p
    <3>1. j \in 1..Len(ms) /\ ~(j <= l) BY <1>5
    <3> QED BY <1>2, <1>4, <3>1
  <2> QED BY <1>0, <1>5, <2>1
<1>8. \A i \in before : i = l
  <2> SUFFICES ASSUME NEW i \in before, i # l PROVE FALSE
    OBVIOUS
  <2>1. i \in T BY <1>0
  <2>2. l \in i + 1..Len(ms) BY <1>4, <1>5, <2>1
  <2> QED BY <1>2, <1>5, <2>2
<1>9. before = {l} BY <1>7, <1>8
<1>10. GetModuleForPointer(p, ms) = IF \E i \in before : InRange(ms[i], p)
                                    THEN ms[CHOOSE i \in before : InRange(ms[i], p)]
                                    ELSE None
  BY DEF GetModuleForPointer
<1> HIDE DEF before
<1>11. (CHOOSE i \in before : InRange(ms[i], p)) = l BY <1>6, <1>9
<1> QED BY <1>6, <1>9, <1>10, <1>11

\* It finds no module that the pointer is not in.
LEMMA ModuleFits ==
    ASSUME NEW p, NEW ms, GetModuleForPointer(p, ms) # None
    PROVE  InRange(GetModuleForPointer(p, ms), p)
BY DEF GetModuleForPointer

ListInv ==
    /\ loaded \in Seq(Module) /\ needed \in Nat
    /\ modules \in Seq(Module \cup {None})
    /\ list \in Seq(Module) /\ ByAddress(list)
    /\ kept \subseteq ToSet(loaded)
    /\ \A t \in Thread : pc[t] = "create" => kept \subseteq ToSet(modules)
    /\ \A t \in Thread : pc[t] \in {"log", "section", "analyse"} => kept \subseteq ToSet(list)

\* One turn of the loop reads every module once there is room for all.
LEMMA EnumLists ==
    ASSUME LogInv, ListInv, NEW t \in Thread, Enum(t)
    PROVE  ListInv' /\ kept' \subseteq kept
<1>1. /\ pc[t] = "enum" /\ sync = t
      /\ \/ modules' = Enumerated(needed) /\ needed' = Len(loaded) /\ kept' = kept
         \/ modules' = Resized(needed) /\ needed' = needed /\ kept' = {}
      /\ pc' = [pc EXCEPT ![t] = IF needed < needed' THEN "enum" ELSE "create"]
      /\ UNCHANGED <<loaded, list>>
  BY DEF Enum, EnumAgain, LogInv, Owner, Owning, envVars
<1>2. \A u \in Thread : u # t => pc[u] # "create" BY <1>1 DEF LogInv, Owner, Owning
<1>3. modules' \in Seq(Module \cup {None})
  <2>1. \A i \in 1..needed : Resized(needed)[i] \in Module \cup {None}
    BY DEF Resized, ListInv
  <2>2. Resized(needed) \in [1..needed -> Module \cup {None}] BY <2>1 DEF Resized
  <2>3. \A i \in 1..needed : Enumerated(needed)[i] \in Module \cup {None}
    BY <2>1 DEF Enumerated, ListInv
  <2>4. Enumerated(needed) \in [1..needed -> Module \cup {None}]
    BY <2>3 DEF Enumerated
  <2>5. needed \in Nat BY DEF ListInv
  <2> HIDE DEF Enumerated, Resized
  <2> QED BY <1>1, <2>2, <2>4, <2>5
<1>4. ~(needed < needed') => kept' \subseteq ToSet(modules')
  <2> SUFFICES ASSUME ~(needed < needed'), NEW m \in kept' PROVE m \in ToSet(modules')
    OBVIOUS
  <2>0. modules' = Enumerated(needed) /\ needed' = Len(loaded) /\ m \in kept BY <1>1
  <2>1. PICK i \in 1..Len(loaded) : loaded[i] = m BY <2>0 DEF ListInv, ToSet
  <2>2. i \in 1..needed BY <2>0, <2>1 DEF ListInv
  <2>3. modules'[i] = m /\ i \in DOMAIN modules' BY <2>0, <2>1, <2>2 DEF Enumerated
  <2> QED BY <2>3 DEF ToSet
<1>5. needed' \in Nat BY <1>1 DEF ListInv
<1>6. kept' \subseteq kept BY <1>1
<1> QED BY <1>1, <1>2, <1>3, <1>4, <1>5, <1>6 DEF ListInv, LogInv, LogType, ByAddress

\* The sort keeps them all.
LEMMA CreateSorts ==
    ASSUME LogInv, ListInv, NEW t \in Thread, Create(t)
    PROVE  ListInv'
<1>1. /\ pc[t] = "create" /\ sync = t /\ UNCHANGED <<loaded, modules, needed, kept>>
  BY DEF Create, LogInv, Owner, Owning, envVars
<1>2. \A u \in Thread : u # t => pc[u] \notin Owning BY <1>1 DEF LogInv, Owner
<1>3. CASE /\ Readable(modules) /\ list' \in SortedByAddress(modules)
           /\ pc' = [pc EXCEPT ![t] = "log"]
  <2>1. PICK p \in Bijection(DOMAIN modules, DOMAIN modules) :
            list' = [i \in DOMAIN modules |-> modules[p[i]]]
    BY <1>3 DEF SortedByAddress
  <2>2. \A i, j \in DOMAIN modules : i < j => Base[list'[i]] <= Base[list'[j]]
    BY <1>3 DEF SortedByAddress
  <2>3. /\ \A i \in DOMAIN modules : p[i] \in DOMAIN modules
        /\ \A j \in DOMAIN modules : \E i \in DOMAIN modules : p[i] = j
    BY <2>1 DEF Bijection, Injection, Surjection
  <2>4. DOMAIN modules = 1..Len(modules) /\ Len(modules) \in Nat BY DEF ListInv
  <2>5. \A i \in DOMAIN modules : modules[i] \in Module
    BY <1>3 DEF Readable, ToSet, ListInv
  <2>6. list' \in Seq(Module) /\ DOMAIN list' = DOMAIN modules /\ Len(list') = Len(modules)
    BY <2>1, <2>3, <2>4, <2>5
  <2>7. ByAddress(list') BY <2>2, <2>4, <2>6 DEF ByAddress
  <2>8. ToSet(modules) \subseteq ToSet(list')
    BY <2>1, <2>3, <2>6 DEF ToSet
  <2>9. ByAddress(list)' BY <2>7 DEF ByAddress
  <2> QED BY <1>1, <1>2, <1>3, <2>6, <2>8, <2>9 DEF ListInv, LogInv, LogType, Owning
<1>4. CASE /\ UNCHANGED list
           /\ \E w \in {t} \cup {q \in Pool : pc[q] = "run"} :
                 pc' = [pc EXCEPT ![t] = "join", ![w] = "lock"]
  <2>1. \A u \in Thread : pc'[u] = pc[u] \/ pc'[u] \in {"join", "lock"}
    BY <1>4, CrashAssumption DEF LogInv, LogType
  <2> QED BY <1>1, <1>4, <2>1 DEF ListInv, ByAddress
<1>5. CASE UNCHANGED <<pc, list>> BY <1>1, <1>5 DEF ListInv, ByAddress
<1> QED BY <1>3, <1>4, <1>5 DEF Create

\* What the rest of the process does to the modules.
LEMMA LoadOrFreeKeeps ==
    ASSUME LogInv, ListInv, LoadOrFree
    PROVE  ListInv' /\ kept' \subseteq kept
<1>1. UNCHANGED <<pc, modules, needed, list>> BY DEF LoadOrFree, modVars
<1>2. CASE \E m \in Module \ ToSet(loaded) : loaded' = Append(loaded, m) /\ UNCHANGED kept
  <2>1. PICK m \in Module : loaded' = Append(loaded, m) /\ UNCHANGED kept BY <1>2
  <2>2. loaded' \in Seq(Module) BY <2>1 DEF ListInv
  <2>3. \A i \in DOMAIN loaded : i \in DOMAIN loaded' /\ loaded'[i] = loaded[i]
    BY <2>1 DEF ListInv
  <2>4. ToSet(loaded) \subseteq ToSet(loaded') BY <2>3 DEF ToSet
  <2> QED BY <1>1, <2>1, <2>2, <2>4 DEF ListInv, ByAddress
<1>3. CASE \E i \in DOMAIN loaded :
              loaded' = RemoveAt(loaded, i) /\ kept' = kept \ {loaded[i]}
  <2>1. PICK i \in 1..Len(loaded) : loaded' = RemoveAt(loaded, i) /\ kept' = kept \ {loaded[i]}
    BY <1>3 DEF ListInv
  <2> DEFINE a == SubSeq(loaded, 1, i - 1)
             b == SubSeq(loaded, i + 1, Len(loaded))
  <2>2. /\ a \in Seq(Module) /\ Len(a) = i - 1 /\ \A k \in 1..i - 1 : a[k] = loaded[k]
        /\ b \in Seq(Module) /\ Len(b) = Len(loaded) - i
        /\ \A k \in 1..Len(loaded) - i : b[k] = loaded[i + k]
    BY <2>1 DEF ListInv
  <2>3. loaded' = a \o b BY <2>1 DEF RemoveAt
  <2> HIDE DEF a, b
  <2>4. loaded' \in Seq(Module) BY <2>2, <2>3
  <2>5. ASSUME NEW k \in 1..Len(loaded), k # i PROVE loaded[k] \in ToSet(loaded')
    <3>0. Len(loaded) \in Nat BY DEF ListInv
    <3>1. CASE k < i
      <4>1. k \in 1..Len(a) /\ a[k] = loaded[k] BY <2>2, <3>0, <3>1
      <4>2. k \in DOMAIN loaded' /\ loaded'[k] = a[k] BY <2>2, <2>3, <4>1
      <4> QED BY <4>1, <4>2 DEF ToSet
    <3>2. CASE k > i
      <4>1. k - i \in 1..Len(b) /\ b[k - i] = loaded[k] BY <2>2, <3>0, <3>2
      <4>2. k - 1 \in DOMAIN loaded' /\ loaded'[k - 1] = b[k - i]
        BY <2>1, <2>2, <2>3, <3>0, <4>1
      <4> QED BY <4>1, <4>2 DEF ToSet
    <3> QED BY <2>5, <3>0, <3>1, <3>2
  <2>6. kept' \subseteq ToSet(loaded')
    <3> SUFFICES ASSUME NEW m \in kept, m # loaded[i] PROVE m \in ToSet(loaded')
      BY <2>1
    <3>1. PICK k \in 1..Len(loaded) : loaded[k] = m BY DEF ListInv, ToSet
    <3> QED BY <2>5, <3>1
  <2> QED BY <1>1, <2>1, <2>4, <2>6 DEF ListInv, ByAddress
<1> QED BY <1>2, <1>3 DEF LoadOrFree


\* The mutex is taken: what is loaded now counts as kept.
LEMMA LockKeeps ==
    ASSUME LogInv, ListInv, NEW t \in Thread, Lock(t)
    PROVE  ListInv' /\ shown' = <<>>
<1>1. /\ sync = None /\ UNCHANGED <<loaded, list>> /\ modules' = <<>> /\ needed' = 0
      /\ kept' = ToSet(loaded) /\ pc' = [pc EXCEPT ![t] = "enum"] /\ shown' = <<>>
  BY DEF Lock, envVars
<1>2. \A u \in Thread : pc[u] \notin Owning BY <1>1, PdbAssumption DEF LogInv, Owner
<1>3. \A u \in Thread : pc'[u] \notin {"create", "log", "section", "analyse"}
  BY <1>1, <1>2 DEF LogInv, LogType, Owning
<1>4. <<>> \in Seq(Module \cup {None}) OBVIOUS
<1> QED BY <1>1, <1>3, <1>4 DEF ListInv, ByAddress

\* The other steps leave the modules alone, and no thread comes by one of
\* them to a place where it needs the list.
LEMMA OtherKeeps ==
    ASSUME LogInv, ListInv, UNCHANGED <<loaded, modules, needed, list, kept>>,
           \A u \in Thread : \/ pc'[u] = pc[u]
                             \/ pc'[u] \notin {"create", "log", "section", "analyse"}
                             \/ /\ pc[u] \in {"log", "section", "analyse"}
                                /\ pc'[u] \in {"section", "analyse"}
    PROVE  ListInv'
BY DEF ListInv, ByAddress

\* The steps of a thread that neither reads the modules nor takes the mutex.
LEMMA OtherFilter ==
    ASSUME LogInv, ListInv, NEW t \in Thread,
           \/ Crash(t) \/ Relock(t) \/ OpenLog(t) \/ Begin(t) \/ Lookup(t) \/ Finish(t)
           \/ Throws(t) \/ LookupEscapes(t) \/ SysinfoFaults(t) \/ TerminateProcess(t)
    PROVE  ListInv' /\ kept' = kept /\ (shown' = shown \/ Begin(t))
<1> DEFINE Keeps == UNCHANGED <<loaded, modules, needed, list, kept>>
           Goes(S, T) == /\ pc[t] \in S
                         /\ \/ pc' = pc
                            \/ \E x \in T : pc' = [pc EXCEPT ![t] = x]
<1>0. ASSUME Keeps, \/ Goes({"run", "lock", "analyse", "terminate"}, {"lock", "stuck", "terminate"})
                    \/ Goes({"log", "section", "analyse"}, {"section", "analyse", "terminate"})
      PROVE  ListInv'
  <2>1. \A u \in Thread : \/ pc'[u] = pc[u]
                          \/ pc'[u] \notin {"create", "log", "section", "analyse"}
                          \/ /\ pc[u] \in {"log", "section", "analyse"}
                             /\ pc'[u] \in {"section", "analyse"}
    BY <1>0 DEF LogInv, LogType
  <2> QED BY <1>0, <2>1, OtherKeeps
<1>1. CASE Crash(t)
  BY <1>0, <1>1 DEF Crash, envVars, modVars, histVars
<1>2. CASE Relock(t)
  BY <1>0, <1>2 DEF Relock, envVars, modVars, histVars
<1>3. CASE OpenLog(t)
  <2>1. Keeps /\ UNCHANGED shown BY <1>3 DEF OpenLog, modVars, histVars
  <2>2. Goes({"log", "section", "analyse"}, {"section", "analyse", "terminate"})
    BY <1>3 DEF OpenLog
  <2> QED BY <1>0, <2>1, <2>2
<1>4. CASE Begin(t)
  BY <1>0, <1>4 DEF Begin, envVars, modVars
<1>5. CASE Lookup(t)
  <2>1. Keeps /\ UNCHANGED shown BY <1>5 DEF Lookup, envVars, modVars
  <2>2. Goes({"run", "lock", "analyse", "terminate"}, {"lock", "stuck", "terminate"})
    <3>1. pc[t] \in {"run", "analyse"} /\ (pc' = pc \/ pc' = [pc EXCEPT ![t] = "lock"])
      BY <1>5, Zenon DEF Lookup
    <3> QED BY <3>1
  <2> QED BY <1>0, <2>1, <2>2
<1>6. CASE Finish(t)
  <2>1. Keeps /\ UNCHANGED shown BY <1>6 DEF Finish, envVars, modVars
  <2>2. Goes({"log", "section", "analyse"}, {"section", "analyse", "terminate"})
    BY <1>6 DEF Finish, EndSection
  <2> QED BY <1>0, <2>1, <2>2
<1>7. CASE Throws(t) \/ LookupEscapes(t)
  <2>1. Keeps /\ UNCHANGED shown BY <1>7 DEF Throws, LookupEscapes, envVars, modVars
  <2>2. PICK w \in Thread : Escapes(w)
    <3>1. Workers(t) \subseteq Thread BY CrashAssumption DEF Workers
    <3> QED BY <1>7, <3>1 DEF Throws, LookupEscapes
  <2>3. \/ pc' = pc
        \/ /\ pc[w] = "analyse"
           /\ \E x \in {"section", "terminate"} : pc' = [pc EXCEPT ![w] = x]
    BY <2>2 DEF Escapes, EndSection
  <2>4. \A u \in Thread : \/ pc'[u] = pc[u]
                          \/ pc'[u] = "terminate"
                          \/ pc[u] = "analyse" /\ pc'[u] = "section"
    BY <2>3 DEF LogInv, LogType
  <2> QED BY <2>1, <2>4, OtherKeeps
<1>8. CASE SysinfoFaults(t)
  BY <1>0, <1>8 DEF SysinfoFaults, envVars, modVars
<1>9. CASE TerminateProcess(t)
  BY <1>0, <1>9 DEF TerminateProcess, envVars, modVars, histVars
<1> QED BY <1>1, <1>2, <1>3, <1>4, <1>5, <1>6, <1>7, <1>8, <1>9

\* A word or frame that is analysed.
LEMMA AnalyseKeeps ==
    ASSUME LogInv, ListInv, NEW t \in Thread, NEW w \in Thread, NEW i, Analyse(t, w, i)
    PROVE  ListInv' /\ UNCHANGED <<kept, shown>>
<1>1. UNCHANGED <<loaded, modules, needed, list, kept, shown>>
  BY DEF Analyse, envVars, modVars
<1>2. pc' = pc \/ pc' = [pc EXCEPT ![w] = "lock"] BY DEF Analyse
<1>3. \A u \in Thread : pc'[u] = pc[u] \/ pc'[u] = "lock" BY <1>2 DEF LogInv, LogType
<1> QED BY <1>1, <1>3, OtherKeeps

\* The call stack is printed from the list.
LEMMA BeginShows ==
    ASSUME LogInv, ListInv, FramesAttributed, NEW t \in Thread, Begin(t)
    PROVE  FramesAttributed'
<1>1. /\ pc[t] = "section" /\ UNCHANGED kept
      /\ shown' = shown \/ shown' = [i \in DOMAIN Frames |-> GetModuleForPointer(Frames[i], list)]
  BY DEF Begin
<1>2. CASE shown' = shown BY <1>1, <1>2 DEF FramesAttributed
<1>3. CASE shown' = [i \in DOMAIN Frames |-> GetModuleForPointer(Frames[i], list)]
  <2> SUFFICES ASSUME NEW i \in DOMAIN shown'
               PROVE  /\ shown'[i] # None => InRange(shown'[i], Frames[i])
                      /\ \A m \in kept : InRange(m, Frames[i]) /\ Frames[i] # Base[m]
                                            => shown'[i] = m
    BY <1>1 DEF FramesAttributed
  <2>1. shown'[i] = GetModuleForPointer(Frames[i], list) /\ Frames[i] \in Nat
    BY <1>3, ModuleAssumption
  <2>2. kept \subseteq ToSet(list) /\ list \in Seq(Module) /\ ByAddress(list)
    BY <1>1 DEF ListInv
  <2> QED BY <2>1, <2>2, ModuleFound, ModuleFits
<1> QED BY <1>1, <1>2, <1>3

\* Frames are printed with the modules they are in: with a module that stayed
\* loaded always, unless EnumProcessModules failed or the frame is at the
\* module's first byte, and with another never wrongly; for any modules, in any
\* order, and whatever is loaded or freed while the handler runs.
THEOREM FramesInModules == Spec => []FramesAttributed
<1>1. CrashInit => ListInv /\ FramesAttributed
  <2> SUFFICES ASSUME CrashInit PROVE ListInv /\ FramesAttributed OBVIOUS
  <2>1. /\ loaded = Start /\ needed = 0 /\ modules = <<>> /\ list = <<>> /\ kept = {}
        /\ shown = <<>> /\ \A t \in Thread : pc[t] = "run"
    BY DEF CrashInit
  <2>2. <<>> \in Seq(Module) /\ <<>> \in Seq(Module \cup {None}) OBVIOUS
  <2> QED BY <2>1, <2>2, ModuleAssumption DEF ListInv, ByAddress, FramesAttributed
<1>2. LogInv /\ ListInv /\ FramesAttributed /\ [Next]_vars => ListInv' /\ FramesAttributed'
  <2> SUFFICES ASSUME LogInv, ListInv, FramesAttributed, [Next]_vars
               PROVE  ListInv' /\ FramesAttributed'
    OBVIOUS
  <2>1. ASSUME kept' \subseteq kept, UNCHANGED shown PROVE FramesAttributed'
    BY <2>1 DEF FramesAttributed
  <2>2. ASSUME NEW t \in Thread,
               \/ Crash(t) \/ Relock(t) \/ OpenLog(t) \/ Begin(t) \/ Lookup(t) \/ Finish(t)
               \/ Throws(t) \/ LookupEscapes(t) \/ SysinfoFaults(t) \/ TerminateProcess(t)
        PROVE  ListInv' /\ FramesAttributed'
    BY <2>1, <2>2, OtherFilter, BeginShows
  <2>3. ASSUME NEW t \in Thread, Lock(t) PROVE ListInv' /\ FramesAttributed'
    BY <2>3, LockKeeps DEF FramesAttributed
  <2>4. ASSUME NEW t \in Thread, Enum(t) PROVE ListInv' /\ FramesAttributed'
    <3>1. UNCHANGED shown BY <2>4 DEF Enum
    <3> QED BY <2>1, <2>4, <3>1, EnumLists
  <2>5. ASSUME NEW t \in Thread, Create(t) PROVE ListInv' /\ FramesAttributed'
    <3>1. UNCHANGED <<kept, shown>> BY <2>5 DEF Create
    <3> QED BY <2>1, <2>5, <3>1, CreateSorts
  <2>6. ASSUME NEW t \in Thread, \E w \in Thread, i \in todo : Analyse(t, w, i)
        PROVE  ListInv' /\ FramesAttributed'
    BY <2>1, <2>6, AnalyseKeeps
  <2>7. CASE LoadOrFree
    <3>1. UNCHANGED shown BY <2>7 DEF LoadOrFree
    <3> QED BY <2>1, <2>7, <3>1, LoadOrFreeKeeps
  <2>8. CASE Install \/ UNCHANGED vars
    <3>1. UNCHANGED <<pc, loaded, modules, needed, list, kept, shown>>
      BY <2>8 DEF Install, vars, envVars, modVars, histVars
    <3> QED BY <2>1, <3>1, OtherKeeps
  <2>9. App \subseteq Thread BY CrashAssumption
  <2> QED BY <2>2, <2>3, <2>4, <2>5, <2>6, <2>7, <2>8, <2>9 DEF Next, Filter
<1> QED BY <1>1, <1>2, LogInvariance, PTL DEF Spec
=============================================================================
