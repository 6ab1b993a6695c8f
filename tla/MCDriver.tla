------------------------------ MODULE MCDriver ------------------------------
(***************************************************************************)
(* Command lines and disks for Driver.  The folder in holds a and sub, sub *)
(* holds deep, and deep holds b; f is a file, and x a path below it that   *)
(* exists when f becomes a directory; my-docs a folder with "-d" in its    *)
(* name.                                                                   *)
(***************************************************************************)
EXTENDS Driver, TLC

CONSTANTS in, a, sub, deep, b, f, x, docs

MCNode == {in, a, sub, deep, b, f, x, docs}

MCInside == [n \in MCNode |-> CASE n = in -> {a, sub, deep, b} [] n = sub -> {deep, b}
                                [] n = deep -> {b} [] n = f -> {x} [] OTHER -> {}]

MCDisks == {in :> "dir" @@ a :> "file" @@ sub :> "dir" @@ deep :> "dir" @@ b :> "file"
            @@ f :> "file" @@ x :> "none" @@ docs :> "dir"}

Word(means, has, num, node, wide, finds) ==
    [means |-> means, has |-> has, num |-> num, node |-> node, wide |-> wide,
     finds |-> finds]

Opt(o) == Word(o, {o}, NoNumber, NoNode, TRUE, {})
Debug == Word("--debug", {"--debug", "-d"}, NoNumber, NoNode, TRUE, {})
P(n) == Word("-p", {"-p"}, n, NoNode, TRUE, {})
At(n) == Word("path", {}, NoNumber, n, TRUE, {})
Missing == At(NoNode)
Docs == Word("path", {"-d"}, NoNumber, docs, TRUE, {})
Name == Word("path", {}, NoNumber, NoNode, TRUE, {deep, b, f})
Empty == Word("path", {}, NoNumber, NoNode, FALSE, {})

MCArgv ==
    {<<At(in)>>, <<At(in), Missing>>, <<Debug, At(in), Missing>>,
     <<Opt("-d"), P(2), At(in), At(docs)>>, <<Opt("-f"), P(0), At(in), Missing>>,
     <<P(2), P(NoNumber), Opt("-o"), Opt("-m"), At(in), Missing>>,
     <<Docs, Missing>>, <<Missing, At(in)>>,
     <<Opt("-s"), At(in), Name>>, <<Opt("-s"), Missing, Name>>,
     <<Opt("-s"), At(f), Name>>, <<Opt("-s"), At(in), Empty>>,
     <<Opt("-rm"), At(f), At(sub)>>, <<At(in), Opt("-rm"), At(f), At(a)>>,
     <<Opt("-rm"), Missing>>, <<Opt("-rm"), At(a), Docs>>,
     <<Opt("-reconstitutesymlinks"), At(in), At(docs)>>,
     <<Opt("-reconstitutesymlinks"), At(f), Missing>>}

MCTimes == {0, 1, 4, 5, 11, 12, 13, 16, 36, 37, 49, 107, 108, 109, 144, 160, 300}
=============================================================================
