------------------------------ MODULE FileTree ------------------------------
(***************************************************************************)
(* The part of std::filesystem that SyncFiles relies on (external code,    *)
(* modelled from its use in src/src/Functions.cpp).                        *)
(*                                                                         *)
(* A tree maps every path, relative to the root of the tree, to a node.    *)
(* A path is the sequence of its components, so that joining a prefix and  *)
(* a path (_outputPrefix + file) is concatenation.  The root itself, <<>>, *)
(* always exists and is no member of Path.                                 *)
(*                                                                         *)
(* What a file holds is abstracted to where its bytes come from: "in" and  *)
(* "out" for what the input and the output tree held before the program    *)
(* started, "torn" for the truncated destination of an unfinished copy.    *)
(* Files are only ever copied to the same relative path, so the path need  *)
(* not be part of the tag.                                                 *)
(***************************************************************************)
EXTENDS Integers, SequencesExt

CONSTANTS Name,      \* path components
          Path,      \* the relative paths that may exist in a tree
          Now,       \* modification time of what is written during the runs
          SizeMod    \* file sizes are size_t: arithmetic modulo SizeMod

ASSUME PathAssumption == Path \subseteq Seq(Name)

ASSUME NowAssumption == Now \in Nat

ASSUME SizeModAssumption == SizeMod \in Nat \ {0}

Kind == {"absent", "dir", "file"}

Origin == {"none", "in", "out", "torn"}

Node == [kind: Kind, from: Origin, time: Nat, size: Nat]

Tree == [Path -> Node]

Absent == [kind |-> "absent", from |-> "none", time |-> 0, size |-> 0]

Dir == [kind |-> "dir", from |-> "none", time |-> 0, size |-> 0]

FileNode(from, time, size) ==
    [kind |-> "file", from |-> from, time |-> time, size |-> size]

Files(t) == {p \in Path : t[p].kind = "file"}

Dirs(t) == {p \in Path : t[p].kind = "dir"}

Entries(t) == Files(t) \cup Dirs(t)

Above(p) == {q \in Path : IsStrictPrefix(q, p)}

Below(p) == {q \in Path : IsStrictPrefix(p, q)}

\* A tree a directory walk can meet: whatever exists lies in directories.
WellFormed(t) == \A p \in Entries(t) : Above(p) \subseteq Dirs(t)

(***************************************************************************)
(* recursive_directory_iterator.  A directory is reported before what it   *)
(* holds.  An increment that fails throws and ends the walk; the entries   *)
(* reported so far are then any part of the tree closed under parents.     *)
(***************************************************************************)
PartialListings(t) ==
    {S \in SUBSET Entries(t) : \A p \in S : Above(p) \subseteq S}

\* file_size(p, err): the size, or static_cast<uintmax_t>(-1) on failure.
FileSize(t, p) ==
    IF t[p].kind = "file" THEN t[p].size % SizeMod ELSE SizeMod - 1

\* A file can be created or overwritten at p.
Writable(t, p) == Above(p) \subseteq Dirs(t) /\ t[p].kind # "dir"

\* create_directories(p) succeeds, leaving p and all its parents directories.
Creatable(t, p) == \A q \in Above(p) \cup {p} : t[q].kind # "file"

CreateDirectories(t, p) ==
    [q \in Path |-> IF q \in Above(p) \cup {p} THEN Dir ELSE t[q]]

\* What copy_file makes of its destination when it opens it.
Torn == FileNode("torn", Now, 0)

\* Removing a set of paths, as remove and remove_all do.
Without(t, S) == [q \in Path |-> IF q \in S THEN Absent ELSE t[q]]

\* remove(p) fails on a directory that is not empty.
Removable(t, p) == t[p].kind = "dir" => Below(p) \cap Entries(t) = {}

\* What remove_all(p) may have removed when it fails half way.
PartialRemovals(p) ==
    {S \in SUBSET (Below(p) \cup {p}) : \A q \in S : Below(q) \subseteq S}
=============================================================================
