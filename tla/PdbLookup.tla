------------------------------ MODULE PdbLookup ------------------------------
(***************************************************************************)
(* pdb_details of src/CrashHandler/PDB/PdbHandler.cpp: the lookup of one   *)
(* address, through COM and the DIA interfaces, under a mutex and with the *)
(* result of the last call in a variable that all threads share.           *)
(***************************************************************************)
EXTENDS Integers

CONSTANTS Thread, None,
          SymCache     \* Debug::symcache names a directory

ASSUME PdbAssumption == None \notin Thread /\ SymCache \in BOOLEAN

VARIABLES
    hr,      \* the static hr: SUCCEEDED(hr)
    pdb,     \* the thread that holds the mutex of pdb_details, or None
    at,      \* each thread: the call it is about to make
    tried,   \* the search paths loadDataForExe has been given
    com,     \* CoInitializeEx less CoUninitialize, in the lookup under way or,
             \* if the mutex is free, in the last one
    threw    \* the last lookup ended by a C++ exception

pdbVars == <<hr, pdb, at, tried, com, threw>>

PdbInit ==
    /\ hr = FALSE
    /\ pdb = None
    /\ at = [t \in Thread |-> "idle"]
    /\ tried = 0
    /\ com = 0
    /\ threw = FALSE

\* searchPaths: the plugin path and, if it is valid, the symbol cache.
SearchPaths == IF SymCache THEN 2 ELSE 1

-----------------------------------------------------------------------------
\* Plausible mistake: a failure exit forgets CoUninitialize.
LeaveInitialized(t) ==
    /\ UNCHANGED <<com, threw>>
    /\ pdb' = None
    /\ at' = [at EXCEPT ![t] = "idle"]
    /\ tried' = 0

-----------------------------------------------------------------------------
\* CoUninitialize, whether or not this lookup has initialized COM; return.
Leave(t) ==
    /\ com' = com - 1
    /\ UNCHANGED threw
    /\ pdb' = None
    /\ at' = [at EXCEPT ![t] = "idle"]
    /\ tried' = 0

\* COM is initialized unless the last call of any thread succeeded.
Enter(t) ==
    /\ at[t] = "idle"
    /\ pdb = None
    /\ pdb' = t
    /\ at' = [at EXCEPT ![t] = IF hr THEN "source" ELSE "init"]
    /\ com' = 0
    /\ threw' = FALSE
    /\ UNCHANGED <<hr, tried>>

CoInitializeEx(t) ==
    /\ at[t] = "init"
    /\ \/ /\ hr' = TRUE
          /\ com' = com + 1
          /\ at' = [at EXCEPT ![t] = "source"]
          /\ UNCHANGED <<pdb, tried, threw>>
       \/ /\ hr' = FALSE
          /\ Leave(t)

\* NoRegCoCreate, then CoCreateInstance.
CreateSource(t) ==
    /\ at[t] = "source"
    /\ \/ /\ hr' = TRUE
          /\ at' = [at EXCEPT ![t] = "load"]
          /\ UNCHANGED <<com, pdb, tried, threw>>
       \/ /\ hr' = FALSE
          /\ Leave(t)

\* One turn of the loop over the search paths.
LoadDataForExe(t) ==
    /\ at[t] = "load"
    /\ \/ /\ hr' = TRUE
          /\ at' = [at EXCEPT ![t] = "session"]
          /\ UNCHANGED <<com, pdb, tried, threw>>
       \/ /\ hr' = FALSE
          /\ IF tried + 1 < SearchPaths
             THEN tried' = tried + 1 /\ UNCHANGED <<com, pdb, at, threw>>
             ELSE Leave(t)

\* openSession, get_globalScope, getEnumTables, getSymbolsByAddr: the first
\* that fails ends the lookup.
OpenSession(t) ==
    /\ at[t] = "session"
    /\ \/ /\ hr' = TRUE
          /\ at' = [at EXCEPT ![t] = "symbol"]
          /\ UNCHANGED <<com, pdb, tried, threw>>
       \/ /\ hr' = FALSE
          /\ Leave(t)

\* The symbol is found, or is not and publicSymbol, which nobody has set, is
\* released without harm.  hr is left alone.
FindSymbol(t) ==
    /\ at[t] = "symbol"
    /\ Leave(t)
    /\ UNCHANGED hr

\* publicSymbol is released although it points nowhere.
ReleaseFaults(t) ==
    /\ at[t] = "symbol"
    /\ at' = [at EXCEPT ![t] = "fault"]
    /\ UNCHANGED <<hr, com, threw, pdb, tried>>

\* A C++ exception (exists or is_directory on the symbol cache, a string, a
\* message that cannot be formatted), perhaps one about a call that failed:
\* the mutex is released and CoUninitialize is not called.
LookupThrows(t) ==
    /\ at[t] \notin {"idle", "fault"}
    /\ hr' \in IF at[t] = "symbol" THEN {hr} ELSE {hr, FALSE}
    /\ threw' = TRUE
    /\ pdb' = None
    /\ at' = [at EXCEPT ![t] = "idle"]
    /\ tried' = 0
    /\ UNCHANGED com

\* The steps by which a lookup goes on or returns.
LookupStep(t) ==
    \/ CoInitializeEx(t) \/ CreateSource(t) \/ LoadDataForExe(t)
    \/ OpenSession(t) \/ FindSymbol(t)

-----------------------------------------------------------------------------
\* A lookup that returns has undone its CoInitializeEx, whatever call failed,
\* however many threads look up and although the shared hr decides who
\* initializes; only one that ends by a C++ exception leaves COM initialized,
\* and not more than once.  (The converse fails: a lookup that did not
\* initialize, because hr was good from an earlier one or because
\* CoInitializeEx failed, calls CoUninitialize all the same, com = -1.)
ComPaired == pdb = None => com <= 0 \/ (threw /\ com = 1)
=============================================================================
