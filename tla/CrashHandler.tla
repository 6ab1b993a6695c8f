----------------------------- MODULE CrashHandler -----------------------------
(***************************************************************************)
(* The crash handler of src/CrashHandler: Install, the filter that writes  *)
(* a crash log under a mutex, the list of loaded modules, and the analysis *)
(* of registers and stack by a pool of threads (par_unseq), each pointer   *)
(* into a module with a lookup of PdbLookup.                               *)
(*                                                                         *)
(* An access violation inside the handler is not a C++ exception (the code *)
(* is built with /EHsc): catch (...) does not see it, and the thread that  *)
(* raises it, the handler's own or one of the pool, enters the filter too. *)
(***************************************************************************)
EXTENDS PdbLookup, SequencesExt

CONSTANTS App, Pool,           \* the threads: the program's, and par_unseq's
          Module, Base, Size,  \* images: first address and length
          Frames,              \* the call stack: addresses, the first the
                               \* exception's
          Registers, Stacks,   \* kinds of words; Stacks a set of sequences
          BlockSize,           \* print_stack analyses so many words at a time
          Start,               \* the modules loaded first, in their order
          MaxNow, MaxLoads     \* bounds: seconds; modules loaded or freed

Dirs == {"cwd", "crashPath"}

ASSUME CrashAssumption ==
    /\ Thread = App \cup Pool
    /\ App \cap Pool = {}
    /\ BlockSize \in Nat \ {0}
    /\ MaxNow \in Nat
    /\ Registers \in Seq(STRING) /\ Stacks \subseteq Seq(STRING)

\* Images do not overlap.
ASSUME ModuleAssumption ==
    /\ Start \in Seq(Module) /\ Frames \in Seq(Nat)
    /\ Base \in [Module -> Nat] /\ Size \in [Module -> Nat \ {0}]
    /\ \A m, n \in Module : m # n => Base[m] + Size[m] <= Base[n]
                                     \/ Base[n] + Size[n] <= Base[m]

VARIABLES
    proc,     \* the process: "up" or "ended"
    inst,     \* how far Install has come
    stack,    \* the words of the crashed thread's stack
    loaded,   \* the modules of the process, in the order they are listed
    loads,    \* loads and frees so far
    now,      \* the second the clock was last read at
    pc,       \* each thread: where it is in the filter
    sync,     \* the thread that holds the mutex of the filter, or None
    modules,  \* the handles read so far, None where none was read
    needed,   \* how many EnumProcessModules asked for
    list,     \* get_loaded_modules: the modules, by address
    sec,      \* each thread: the number of the section it prints
    opened,   \* each thread: the log it opened, <<>> if none
    logs,     \* the crash logs by directory and second
    todo,     \* the words or addresses of the section that wait for analysis
    busy,     \* each thread: the one it analyses, 0 if none
    off,      \* the words of the section printed so far
    faulted,  \* there was an access violation inside the handler
    kept,     \* the modules loaded ever since the mutex was taken; none after
              \* a call of EnumProcessModules has failed
    shown     \* the module printed for each frame

envVars  == <<inst, stack, loaded, loads, now>>
modVars  == <<modules, needed, list>>
logVars  == <<sec, opened, logs>>
workVars == <<todo, busy, off>>
histVars == <<faulted, kept, shown>>
vars == <<proc, pc, sync, envVars, modVars, logVars, workVars, histVars, pdbVars>>

Sections == <<"exception", "sysinfo", "callstack", "registers", "stack",
              "modules">>

Section(t) == Sections[sec[t]]

-----------------------------------------------------------------------------
(* Plausible mistakes; no action uses these.                               *)

\* SortedByAddress: the trailing sort is forgotten.
AsEnumerated(ms) == {ms}

\* EnumAgain: off by one.
EnumAgainEqual(n, need) == n <= need

\* Lock: the filter does not wait for the mutex.
LockAnyway(t) ==
    /\ pc[t] = "lock"
    /\ sync' = t
    /\ pc' = [pc EXCEPT ![t] = "enum"]
    /\ modules' = <<>>
    /\ needed' = 0
    /\ kept' = ToSet(loaded)
    /\ shown' = <<>>
    /\ UNCHANGED <<proc, list, faulted, envVars, logVars, workVars,
                   pdbVars>>

-----------------------------------------------------------------------------
(* The pure parts.                                                         *)

\* in_range
InRange(m, p) == Base[m] <= p /\ p < Base[m] + Size[m]

\* What std::sort by the base address may leave.
SortedByAddress(ms) ==
    {s \in {[i \in DOMAIN ms |-> ms[p[i]]] : p \in Bijection(DOMAIN ms, DOMAIN ms)} :
        \A i, j \in DOMAIN ms : i < j => Base[s[i]] <= Base[s[j]]}

\* lower_bound from the back by >=: the last module that begins before p.
\* (A pointer to the first byte of a module is therefore in none.)
GetModuleForPointer(p, ms) ==
    LET before == {i \in DOMAIN ms : Base[ms[i]] < p /\
                       \A j \in i + 1..Len(ms) : Base[ms[j]] >= p}
    IN  IF \E i \in before : InRange(ms[i], p)
        THEN ms[CHOOSE i \in before : InRange(ms[i], p)]
        ELSE None

EnumAgain(n, need) == n < need

Smaller(a, b) == IF a < b THEN a ELSE b

\* modules.resize(n)
Resized(n) == [i \in 1..n |-> IF i <= Len(modules) THEN modules[i] ELSE None]

\* resize, and what EnumProcessModules writes into so many handles.
Enumerated(n) ==
    [i \in 1..n |-> IF i <= Len(loaded) THEN loaded[i] ELSE Resized(n)[i]]

\* The frames that a section looks up; the exception's address is the first.
FrameBlock(s) ==
    IF s = "exception" THEN {1} \cap DOMAIN Frames
    ELSE IF s = "callstack" THEN DOMAIN Frames ELSE {}

\* The words, or frames, of the block or section that begins after o.
Block(s, o) ==
    CASE s = "registers" -> DOMAIN Registers
      [] s = "stack"     -> {i \in DOMAIN stack : o < i /\ i <= o + BlockSize}
      [] OTHER           -> FrameBlock(s)

Words(s) == IF s = "stack" THEN Len(stack)
            ELSE IF s = "registers" THEN Len(Registers) ELSE 0

-----------------------------------------------------------------------------
CrashInit ==
    /\ PdbInit
    /\ proc = "up"
    /\ inst = "none"
    /\ stack \in Stacks
    /\ loaded = Start
    /\ loads = 0
    /\ now = 0
    /\ pc = [t \in Thread |-> "run"]
    /\ sync = None
    /\ modules = <<>>
    /\ needed = 0
    /\ list = <<>>
    /\ sec = [t \in Thread |-> 0]
    /\ opened = [t \in Thread |-> <<>>]
    /\ logs = [k \in Dirs \X (0..MaxNow) |-> <<>>]
    /\ todo = {}
    /\ busy = [t \in Thread |-> 0]
    /\ off = 0
    /\ faulted = FALSE
    /\ kept = {}
    /\ shown = <<>>

\* report_and_fail
ReportAndFail == proc' = "ended"

\* AddVectoredExceptionHandler, or its failure; then crashPath is set.
Install ==
    /\ \/ inst = "none" /\ inst' = "handler" /\ UNCHANGED proc
       \/ inst = "none" /\ ReportAndFail /\ UNCHANGED inst
       \/ inst = "handler" /\ inst' = "crashPath" /\ UNCHANGED proc
    /\ UNCHANGED <<stack, loaded, loads, now, pc, sync, modVars, logVars,
                   workVars, histVars, pdbVars>>

\* VectoredExceptions sets the filter; the system calls it.  Before Install
\* the process just ends.
Crash(t) ==
    /\ pc[t] = "run"
    /\ IF inst = "none" THEN proc' = "ended" /\ UNCHANGED pc
       ELSE pc' = [pc EXCEPT ![t] = "lock"] /\ UNCHANGED proc
    /\ UNCHANGED <<sync, envVars, modVars, logVars, workVars, histVars,
                   pdbVars>>

\* The rest of the process loads or frees a module.  Only what happens from
\* the first call of EnumProcessModules to the call stack is ever noticed.
LoadOrFree ==
    /\ loads < MaxLoads
    /\ sync # None
    /\ sec[sync] <= 3
    /\ loads' = loads + 1
    /\ \/ \E m \in Module \ ToSet(loaded) :
             loaded' = Append(loaded, m) /\ UNCHANGED kept
       \/ \E i \in DOMAIN loaded :
             loaded' = RemoveAt(loaded, i) /\ kept' = kept \ {loaded[i]}
    /\ UNCHANGED <<proc, pc, sync, inst, stack, now, faulted, shown, modVars,
                   logVars, workVars, pdbVars>>

-----------------------------------------------------------------------------
(* The filter.                                                             *)

Lock(t) ==
    /\ pc[t] = "lock"
    /\ sync = None
    /\ sync' = t
    /\ pc' = [pc EXCEPT ![t] = "enum"]
    /\ modules' = <<>>
    /\ needed' = 0
    /\ kept' = ToSet(loaded)
    /\ shown' = <<>>
    /\ UNCHANGED <<proc, list, faulted, envVars, logVars, workVars,
                   pdbVars>>

\* A thread that holds the mutex locks it again, which is undefined: it
\* blocks for ever, or lock throws and the process is terminated.
Relock(t) ==
    /\ pc[t] = "lock"
    /\ sync = t
    /\ pc' \in {[pc EXCEPT ![t] = p] : p \in {"stuck", "terminate"}}
    /\ UNCHANGED <<proc, sync, envVars, modVars, logVars, workVars, histVars,
                   pdbVars>>

\* One turn of the loop of get_loaded_modules.  Whether the call succeeded is
\* not asked: if it failed nothing is written and the loop ends.
Enum(t) ==
    /\ pc[t] = "enum"
    /\ \/ /\ modules' = Enumerated(needed)
          /\ needed' = Len(loaded)
          /\ UNCHANGED kept
       \/ /\ modules' = Resized(needed)
          /\ UNCHANGED needed
          /\ kept' = {}
    /\ pc' = [pc EXCEPT ![t] = IF EnumAgain(needed, needed') THEN "enum" ELSE "create"]
    /\ UNCHANGED <<proc, sync, list, faulted, shown, envVars, logVars, workVars,
                   pdbVars>>

\* Factory::create reads the headers of an image, which must still be there
\* (and are not at a handle that was never written).
Readable(ms) == ToSet(ms) \subseteq ToSet(loaded)

\* It is called in the pool for every handle; a name that cannot be converted
\* throws, which ends the process.  Then the sort.
Create(t) ==
    /\ pc[t] = "create"
    /\ \/ /\ Readable(modules)
          /\ list' \in SortedByAddress(modules)
          /\ pc' = [pc EXCEPT ![t] = "log"]
          /\ UNCHANGED <<proc, busy, faulted>>
       \/ /\ ~Readable(modules)
          /\ faulted' = TRUE
          /\ \E w \in {t} \cup {p \in Pool : pc[p] = "run"} :
                /\ pc' = [pc EXCEPT ![t] = "join", ![w] = "lock"]
                /\ busy' = [busy EXCEPT ![w] = 1]
          /\ UNCHANGED <<proc, list>>
       \/ proc' = "ended" /\ UNCHANGED <<pc, list, busy, faulted>>
    /\ UNCHANGED <<sync, modules, needed, todo, off, kept, shown, envVars,
                   logVars, pdbVars>>

\* get_log: the file of this second is truncated; gmtime_s may fail, and a
\* file that cannot be opened throws past the sections.
OpenLog(t) ==
    /\ pc[t] = "log"
    /\ now' \in now..MaxNow
    /\ LET k == <<IF inst = "crashPath" THEN "crashPath" ELSE "cwd", now'>>
       IN  \/ /\ logs' = [logs EXCEPT ![k] = <<>>]
              /\ opened' = [opened EXCEPT ![t] = k]
              /\ sec' = [sec EXCEPT ![t] = 1]
              /\ pc' = [pc EXCEPT ![t] = "section"]
              /\ UNCHANGED <<proc, sync>>
           \/ /\ pc' = [pc EXCEPT ![t] = "terminate"]
              /\ sync' = None
              /\ UNCHANGED <<proc, sec, opened, logs>>
           \/ /\ ReportAndFail
              /\ UNCHANGED <<pc, sync, sec, opened, logs>>
    /\ UNCHANGED <<inst, stack, loaded, loads, modVars, workVars, histVars, pdbVars>>

\* A section begins, or print_stack comes to its next block.
Begin(t) ==
    /\ pc[t] = "section"
    /\ todo' = Block(Section(t), off)
    /\ shown' = IF Section(t) = "callstack"
                THEN [i \in DOMAIN Frames |-> GetModuleForPointer(Frames[i], list)]
                ELSE shown
    /\ pc' = [pc EXCEPT ![t] = "analyse"]
    /\ UNCHANGED <<proc, sync, busy, off, faulted, kept, envVars, modVars,
                   logVars, pdbVars>>

\* The threads that work on the section of t: all of the pool on a for_each.
Workers(t) ==
    {t} \cup IF Section(t) \in {"registers", "stack"}
             THEN {p \in Pool : pc[p] = "run"} ELSE {}

\* What printing frame i takes: nothing outside all modules, a lookup, or an
\* access violation when assembly reads an image that is gone.
FrameOutcome(i) ==
    LET m == GetModuleForPointer(Frames[i], list)
    IN  IF m = None THEN "none"
        ELSE IF m \in ToSet(loaded) THEN "lookup" ELSE "fault"

\* What analysing a word comes to is the word's kind: nothing that matters
\* ("none": zero, a string, a pointer into no module), a lookup, or an access
\* violation (an unreadable address).
Outcome(s, i) ==
    IF s = "stack" THEN stack[i]
    ELSE IF s = "registers" THEN Registers[i] ELSE FrameOutcome(i)

Analyse(t, w, i) ==
    /\ pc[t] = "analyse"
    /\ w \in Workers(t)
    /\ busy[w] = 0
    /\ i \in todo
    /\ todo' = todo \ {i}
    /\ LET o == Outcome(Section(t), i)
       IN  /\ busy' = [busy EXCEPT ![w] = IF o = "none" THEN 0 ELSE i]
           /\ pc' = IF o = "fault" THEN [pc EXCEPT ![w] = "lock"] ELSE pc
           /\ faulted' = (faulted \/ o = "fault")
    /\ UNCHANGED <<proc, sync, off, kept, shown, envVars, modVars, logVars, pdbVars>>

\* A thread that looks a pointer up: the mutex, the calls, the return.
Lookup(w) ==
    /\ busy[w] # 0
    /\ pc[w] \in {"run", "analyse"}
    /\ \/ /\ Enter(w) \/ LookupStep(w)
          /\ busy' = [busy EXCEPT ![w] = IF at'[w] = "idle" THEN 0 ELSE @]
          /\ UNCHANGED <<pc, faulted>>
       \/ /\ ReleaseFaults(w)
          /\ pc' = [pc EXCEPT ![w] = "lock"]
          /\ faulted' = TRUE
          /\ UNCHANGED busy
    /\ UNCHANGED <<proc, sync, todo, off, kept, shown, envVars, modVars, logVars>>

\* flush, and on to the next section; after the last the mutex is released
\* and only then the process terminated.
EndSection(t, n) ==
    /\ logs' = [logs EXCEPT ![opened[t]] =
                   Append(@, [by |-> t, sec |-> Section(t), words |-> n])]
    /\ sec' = [sec EXCEPT ![t] = @ + 1]
    /\ off' = 0
    /\ IF sec[t] = Len(Sections)
       THEN pc' = [pc EXCEPT ![t] = "terminate"] /\ sync' = None
       ELSE pc' = [pc EXCEPT ![t] = "section"] /\ UNCHANGED sync

\* The threads of the for_each are done: the words are printed.
Finish(t) ==
    /\ pc[t] = "analyse"
    /\ todo = {}
    /\ \A w \in Thread : busy[w] = 0
    /\ LET n == IF Section(t) = "stack" THEN Smaller(off + BlockSize, Len(stack))
                ELSE Words(Section(t))
       IN  IF n < Words(Section(t))
           THEN /\ off' = n
                /\ pc' = [pc EXCEPT ![t] = "section"]
                /\ UNCHANGED <<sync, sec, logs>>
           ELSE EndSection(t, n)
    /\ UNCHANGED <<proc, todo, busy, opened, faulted, kept, shown, envVars,
                   modVars, pdbVars>>

\* A C++ exception in thread w: the section's handler prints it, but one that
\* leaves a function that par_unseq runs ends the process.
Escapes(w) ==
    IF pc[w] = "analyse" /\ Section(w) \notin {"registers", "stack"}
    THEN EndSection(w, 0) /\ todo' = {} /\ UNCHANGED proc
    ELSE proc' = "ended" /\ UNCHANGED <<pc, sync, off, sec, logs, todo>>

\* Outside a lookup.
Throws(t) ==
    /\ pc[t] = "analyse"
    /\ \E w \in Workers(t) : busy[w] = 0 /\ Escapes(w)
    /\ UNCHANGED <<busy, opened, faulted, kept, shown, envVars, modVars, pdbVars>>

\* In a lookup.
LookupEscapes(w) ==
    /\ busy[w] # 0
    /\ pc[w] \in {"run", "analyse"}
    /\ LookupThrows(w)
    /\ Escapes(w)
    /\ busy' = [busy EXCEPT ![w] = 0]
    /\ UNCHANGED <<opened, faulted, kept, shown, envVars, modVars>>

\* print_sysinfo uses the DXGI interfaces without asking whether it got them.
SysinfoFaults(t) ==
    /\ pc[t] = "analyse"
    /\ Section(t) = "sysinfo"
    /\ pc' = [pc EXCEPT ![t] = "lock"]
    /\ faulted' = TRUE
    /\ UNCHANGED <<proc, sync, kept, shown, workVars, envVars, modVars, logVars,
                   pdbVars>>

TerminateProcess(t) ==
    /\ pc[t] = "terminate"
    /\ proc' = "ended"
    /\ UNCHANGED <<pc, sync, workVars, histVars, envVars, modVars, logVars, pdbVars>>

-----------------------------------------------------------------------------
\* The steps of a thread that has crashed, or works for one that has.
Filter(t) ==
    \/ Lock(t) \/ Relock(t) \/ Enum(t) \/ Create(t) \/ OpenLog(t) \/ Begin(t)
    \/ Finish(t) \/ Throws(t) \/ SysinfoFaults(t) \/ TerminateProcess(t)
    \/ \E w \in Thread, i \in todo : Analyse(t, w, i)

Next ==
    \/ /\ proc = "up"
       /\ \/ Install \/ LoadOrFree
          \/ \E t \in App : Crash(t)
          \/ \E t \in Thread : Filter(t) \/ Lookup(t) \/ LookupEscapes(t)
    \/ proc = "ended" /\ UNCHANGED vars

Spec == CrashInit /\ [][Next]_vars

\* A thread in the handler is scheduled; nothing else needs to happen.
FairSpec ==
    /\ Spec
    /\ \A t \in Thread : WF_vars(proc = "up" /\ Filter(t))
                         /\ WF_vars(proc = "up" /\ Lookup(t))

-----------------------------------------------------------------------------
\* A crash log holds the sections of one crash, in their order, although
\* several threads crash; and the thread that comes to the end of the
\* sections leaves a complete log, every word of the stack printed, unless
\* another crash has reopened the file of that second.
LogOfOneCrash ==
    /\ \A k \in DOMAIN logs : \A i \in DOMAIN logs[k] :
          /\ logs[k][i].sec = Sections[i]
          /\ logs[k][i].by = logs[k][1].by
          /\ logs[k][i].words = Words(Sections[i])
    /\ \A t \in Thread :
          sec[t] > Len(Sections) =>
              \/ /\ Len(logs[opened[t]]) = Len(Sections)
                 /\ logs[opened[t]][1].by = t
              \/ \E u \in Thread \ {t} : opened[u] = opened[t]

\* A frame inside a module that stayed loaded is printed with that module,
\* whatever order the modules were listed in and although others were loaded
\* or freed meanwhile, if every call of EnumProcessModules succeeded (after
\* one that failed the list is empty, or is not made at all) and the frame is
\* not at the first byte of an image; and no frame is ever printed with a
\* module that it is not in, whatever failed.
FramesAttributed ==
    \A i \in DOMAIN shown :
        /\ shown[i] # None => InRange(shown[i], Frames[i])
        /\ \A m \in kept : InRange(m, Frames[i]) /\ Frames[i] # Base[m]
                              => shown[i] = m

\* After a crash the process ends, with or without a log, unless there is an
\* access violation inside the handler.
CrashEnds ==
    (\E t \in App : pc[t] # "run") ~> (proc = "ended" \/ faulted)
=============================================================================
