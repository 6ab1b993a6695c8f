-------------------------- MODULE SyncResultProof ---------------------------
(***************************************************************************)
(* Proofs about what a run of Functions::Copy leaves and reports: newer    *)
(* files stay, errors have a cause, -d leaves no file without match, every *)
(* input file is accounted for, a second run finds nothing to copy, and    *)
(* the totals agree.                                                       *)
(***************************************************************************)
EXTENDS SyncTreeProof

-----------------------------------------------------------------------------
(***************************************************************************)
(* Sums of sizes, modulo SizeMod, over sets of files.  A sum is given by   *)
(* the order in which it is formed, so that a file can be added at the end *)
(* or dropped from the middle without recursion.                           *)
(***************************************************************************)

\* Addition of sizes, as size_t has it, and its inverse.
Plus(a, b) == IF a + b < SizeMod THEN a + b ELSE a + b - SizeMod
Minus(a, b) == IF b <= a THEN a - b ELSE a - b + SizeMod

\* The counters are added to in that way.
LEMMA ModPlus ==
    ASSUME NEW a \in 0 .. SizeMod - 1, NEW b \in 0 .. SizeMod - 1
    PROVE  (a + b) % SizeMod = Plus(a, b)
BY SizeModAssumption, Z3 DEF Plus

\* Sums can be taken in any order, and a size be taken off again.
LEMMA PlusMinus ==
    ASSUME NEW a \in 0 .. SizeMod - 1, NEW b \in 0 .. SizeMod - 1, NEW c \in 0 .. SizeMod - 1
    PROVE  /\ Plus(a, b) \in 0 .. SizeMod - 1 /\ Minus(a, b) \in 0 .. SizeMod - 1
           /\ Minus(Plus(a, b), b) = a
           /\ Minus(Plus(a, b), c) = Plus(Minus(a, c), b)
           /\ Minus(a, c) = Minus(b, c) => a = b
BY SizeModAssumption DEF Plus, Minus

Sizes == [Path -> 0 .. SizeMod - 1]

\* The sizes of the n files e[1] .. e[n], all those of A, add up to the
\* partial sums acc.
Chain(sz, A, n, e, acc) ==
    /\ n \in Nat /\ e \in [1 .. n -> Path] /\ acc \in [0 .. n -> 0 .. SizeMod - 1]
    /\ \A p \in Path : p \in A <=> \E i \in 1 .. n : e[i] = p
    /\ \A i, j \in 1 .. n : e[i] = e[j] => i = j
    /\ acc[0] = 0
    /\ \A i \in 1 .. n : acc[i] = Plus(acc[i - 1], sz[e[i]])

\* The sizes of the files of A add up to x.
IsSum(sz, A, x) == \E n \in Nat : \E e, acc : Chain(sz, A, n, e, acc) /\ acc[n] = x

\* No file, no bytes.
LEMMA EmptySum == ASSUME NEW sz PROVE IsSum(sz, {}, 0)
<1> DEFINE e == [i \in 1 .. 0 |-> <<>>]
           acc == [i \in 0 .. 0 |-> 0]
<1>1. 0 \in 0 .. SizeMod - 1 /\ 1 .. 0 = {} BY SizeModAssumption
<1>2. e \in [1 .. 0 -> Path] /\ acc \in [0 .. 0 -> 0 .. SizeMod - 1] /\ acc[0] = 0
  BY <1>1
<1> HIDE DEF e, acc
<1>3. Chain(sz, {}, 0, e, acc) BY <1>1, <1>2 DEF Chain
<1> QED BY <1>2, <1>3 DEF IsSum

\* One more file.
LEMMA SumAdds ==
    ASSUME NEW sz \in Sizes, NEW A, NEW x, IsSum(sz, A, x), NEW p \in Path, p \notin A
    PROVE  IsSum(sz, A \cup {p}, Plus(x, sz[p])) /\ x \in 0 .. SizeMod - 1
<1>1. PICK n \in Nat : \E e, acc : Chain(sz, A, n, e, acc) /\ acc[n] = x BY DEF IsSum
<1>2. PICK e, acc : Chain(sz, A, n, e, acc) /\ acc[n] = x BY <1>1
<1> DEFINE f == [i \in 1 .. n + 1 |-> IF i = n + 1 THEN p ELSE e[i]]
           sum == [i \in 0 .. n + 1 |-> IF i = n + 1 THEN Plus(x, sz[p]) ELSE acc[i]]
<1>3. x \in 0 .. SizeMod - 1 /\ sz[p] \in 0 .. SizeMod - 1 BY <1>2 DEF Chain, Sizes
<1>4. Plus(x, sz[p]) \in 0 .. SizeMod - 1 BY <1>3, PlusMinus
<1>5. n + 1 \in Nat /\ f \in [1 .. n + 1 -> Path] /\ sum \in [0 .. n + 1 -> 0 .. SizeMod - 1]
  BY <1>2, <1>4 DEF Chain
<1>6. /\ \A i \in 1 .. n : f[i] = e[i]
      /\ f[n + 1] = p
      /\ \A i \in 0 .. n : sum[i] = acc[i]
      /\ sum[n + 1] = Plus(x, sz[p])
  OBVIOUS
<1> HIDE DEF f, sum
<1>7. \A i \in 1 .. n + 1 : i \in 1 .. n \/ i = n + 1 OBVIOUS
<1>7a. \A i \in 1 .. n : i \in 1 .. n + 1 /\ e[i] \in A
  <2>1. \A i \in 1 .. n : e[i] \in Path BY <1>2 DEF Chain
  <2>2. \A i \in 1 .. n : e[i] \in A BY <1>2, <2>1 DEF Chain
  <2> QED BY <2>2
<1>8. ASSUME NEW q \in Path PROVE q \in A \cup {p} <=> \E i \in 1 .. n + 1 : f[i] = q
  <2>1. f[n + 1] = p /\ n + 1 \in 1 .. n + 1 BY <1>6
  <2>2. q \in A => \E i \in 1 .. n : e[i] = q BY <1>2 DEF Chain
  <2>3. q \in A => \E i \in 1 .. n + 1 : f[i] = q BY <1>6, <1>7a, <2>2
  <2>4. \A i \in 1 .. n + 1 : f[i] \in A \cup {p} BY <1>6, <1>7, <1>7a
  <2> QED BY <2>1, <2>3, <2>4
<1>9. ASSUME NEW i \in 1 .. n + 1, NEW j \in 1 .. n + 1, f[i] = f[j] PROVE i = j
  <2>1. \A a, b \in 1 .. n : e[a] = e[b] => a = b BY <1>2 DEF Chain
  <2> QED BY <1>6, <1>7, <1>7a, <1>9, <2>1
<1>10. ASSUME NEW i \in 1 .. n + 1 PROVE sum[i] = Plus(sum[i - 1], sz[f[i]])
  <2>1. CASE i = n + 1
    <3>1. i - 1 = n /\ n \in 0 .. n BY <2>1
    <3>2. sum[i - 1] = x /\ f[i] = p /\ sum[i] = Plus(x, sz[p])
      BY <1>2, <1>6, <2>1, <3>1
    <3> QED BY <3>2
  <2>2. CASE i \in 1 .. n
    <3>1. i \in 0 .. n /\ i - 1 \in 0 .. n BY <2>2
    <3>2. sum[i] = acc[i] /\ sum[i - 1] = acc[i - 1] /\ f[i] = e[i] BY <1>6, <2>2, <3>1
    <3> QED BY <1>2, <2>2, <3>2 DEF Chain
  <2> QED BY <1>7, <2>1, <2>2
<1>11. sum[0] = 0
  <2>1. 0 \in 0 .. n OBVIOUS
  <2> QED BY <1>2, <1>6, <2>1 DEF Chain
<1>12. Chain(sz, A \cup {p}, n + 1, f, sum)
  BY <1>5, <1>8, <1>9, <1>10, <1>11 DEF Chain
<1> QED BY <1>3, <1>5, <1>6, <1>12 DEF IsSum

\* The file at position k of a chain can be dropped, and its size taken off
\* the sum.
Drops(sz, A, n, e, acc, k) ==
    \E f, sum : /\ Chain(sz, A \ {e[k]}, n - 1, f, sum)
                /\ sum[n - 1] = Minus(acc[n], sz[e[k]])

\* One file less: it is taken out of the chain, and its size off the partial
\* sums behind it.
LEMMA ChainDrops ==
    ASSUME NEW sz \in Sizes, NEW A, NEW n \in Nat, NEW e, NEW acc,
           Chain(sz, A, n, e, acc), NEW k \in 1 .. n
    PROVE  Drops(sz, A, n, e, acc, k)
<1>0. n \in Nat /\ k \in Nat /\ 1 <= k /\ k <= n /\ n - 1 \in Nat BY DEF Chain
<1> DEFINE f == [i \in 1 .. n - 1 |-> IF i < k THEN e[i] ELSE e[i + 1]]
           sum == [i \in 0 .. n - 1 |-> IF i < k THEN acc[i] ELSE Minus(acc[i + 1], sz[e[k]])]
<1>1. \A i \in 1 .. n : e[i] \in Path /\ sz[e[i]] \in 0 .. SizeMod - 1 BY DEF Chain, Sizes
<1>2. \A i \in 0 .. n : acc[i] \in 0 .. SizeMod - 1 BY DEF Chain
<1>3. \A i \in 1 .. n - 1 : i \in 1 .. n /\ i + 1 \in 1 .. n /\ i \in 0 .. n - 1 /\ i - 1 \in 0 .. n - 1
  BY <1>0
<1>4. \A i \in 0 .. n - 1 : i \in 0 .. n /\ i + 1 \in 0 .. n BY <1>0
<1>5. f \in [1 .. n - 1 -> Path] BY <1>1, <1>3
<1>6. sum \in [0 .. n - 1 -> 0 .. SizeMod - 1]
  <2>1. \A i \in 0 .. n - 1 : Minus(acc[i + 1], sz[e[k]]) \in 0 .. SizeMod - 1
    BY <1>1, <1>2, <1>4, PlusMinus
  <2> QED BY <1>2, <1>4, <2>1
<1>7. /\ \A i \in 1 .. n - 1 : f[i] = IF i < k THEN e[i] ELSE e[i + 1]
      /\ \A i \in 0 .. n - 1 : sum[i] = IF i < k THEN acc[i] ELSE Minus(acc[i + 1], sz[e[k]])
  OBVIOUS
<1> HIDE DEF f, sum
<1>8. ASSUME NEW i \in 1 .. n - 1, NEW j \in 1 .. n - 1, f[i] = f[j] PROVE i = j
  <2>1. \A a, b \in 1 .. n : e[a] = e[b] => a = b BY DEF Chain
  <2> QED BY <1>0, <1>3, <1>7, <1>8, <2>1
<1>9. ASSUME NEW p \in Path PROVE p \in A \ {e[k]} <=> \E i \in 1 .. n - 1 : f[i] = p
  <2>1. ASSUME p \in A \ {e[k]} PROVE \E i \in 1 .. n - 1 : f[i] = p
    <3>1. PICK j \in 1 .. n : e[j] = p BY <2>1 DEF Chain
    <3>2. j # k BY <2>1, <3>1
    <3>3. CASE j < k
      <4>1. j \in 1 .. n - 1 BY <1>0, <3>3
      <4> QED BY <1>7, <3>1, <3>3, <4>1
    <3>4. CASE j > k
      <4>1. j - 1 \in 1 .. n - 1 /\ ~(j - 1 < k) /\ (j - 1) + 1 = j BY <1>0, <3>4
      <4> QED BY <1>7, <3>1, <4>1
    <3> QED BY <1>0, <3>2, <3>3, <3>4
  <2>2. ASSUME NEW i \in 1 .. n - 1, f[i] = p PROVE p \in A \ {e[k]}
    <3>1. PICK j \in 1 .. n : j # k /\ e[j] = p BY <1>0, <1>3, <1>7, <2>2
    <3> QED BY <3>1 DEF Chain
  <2> QED BY <2>1, <2>2
<1>10. ASSUME NEW i \in 1 .. n - 1 PROVE sum[i] = Plus(sum[i - 1], sz[f[i]])
  <2>0. /\ i \in 1 .. n /\ i + 1 \in 1 .. n /\ i \in 0 .. n - 1 /\ i - 1 \in 0 .. n - 1
        /\ (i - 1) + 1 = i /\ (i + 1) - 1 = i /\ i \in 0 .. n /\ i - 1 \in 0 .. n
    BY <1>0
  <2>1. acc[i] = Plus(acc[i - 1], sz[e[i]]) /\ acc[i + 1] = Plus(acc[i], sz[e[i + 1]])
    BY <2>0 DEF Chain
  <2>2. CASE i < k
    <3>1. i - 1 < k BY <1>0, <2>2
    <3> QED BY <1>7, <2>0, <2>1, <2>2, <3>1
  <2>3. CASE i = k
    <3>1. i - 1 < k BY <1>0, <2>3
    <3>2. sum[i] = Minus(acc[i + 1], sz[e[i]]) /\ sum[i - 1] = acc[i - 1] /\ f[i] = e[i + 1]
      BY <1>7, <2>0, <2>3, <3>1
    <3>3. Minus(acc[i + 1], sz[e[i]]) = Plus(Minus(acc[i], sz[e[i]]), sz[e[i + 1]])
      BY <1>1, <1>2, <2>0, <2>1, PlusMinus
    <3>4. Minus(acc[i], sz[e[i]]) = acc[i - 1] BY <1>1, <1>2, <2>0, <2>1, PlusMinus
    <3> QED BY <3>2, <3>3, <3>4
  <2>4. CASE i > k
    <3>1. ~(i - 1 < k) /\ ~(i < k) BY <1>0, <2>4
    <3>2. /\ sum[i] = Minus(acc[i + 1], sz[e[k]]) /\ sum[i - 1] = Minus(acc[i], sz[e[k]])
          /\ f[i] = e[i + 1]
      BY <1>7, <2>0, <3>1
    <3>3. Minus(acc[i + 1], sz[e[k]]) = Plus(Minus(acc[i], sz[e[k]]), sz[e[i + 1]])
      BY <1>1, <1>2, <2>0, <2>1, PlusMinus
    <3> QED BY <3>2, <3>3
  <2> QED BY <1>0, <2>2, <2>3, <2>4
<1>11. sum[0] = 0
  <2>1. 0 \in 0 .. n - 1 /\ 0 < k BY <1>0
  <2> QED BY <1>7, <2>1 DEF Chain
<1>12. Chain(sz, A \ {e[k]}, n - 1, f, sum)
  BY <1>0, <1>5, <1>6, <1>8, <1>9, <1>10, <1>11 DEF Chain
<1>13. sum[n - 1] = Minus(acc[n], sz[e[k]])
  <2>1. n - 1 \in 0 .. n - 1 /\ (n - 1) + 1 = n BY <1>0
  <2>2. CASE k < n
    <3>1. ~(n - 1 < k) BY <1>0, <2>2
    <3> QED BY <1>7, <2>1, <3>1
  <2>3. CASE k = n
    <3>1. n - 1 < k /\ n \in 1 .. n /\ n - 1 \in 0 .. n BY <1>0, <2>3
    <3>2. sum[n - 1] = acc[n - 1] BY <1>7, <2>1, <3>1
    <3>3. acc[n] = Plus(acc[n - 1], sz[e[n]]) BY <3>1 DEF Chain
    <3>4. Minus(acc[n], sz[e[n]]) = acc[n - 1] BY <1>1, <1>2, <3>1, <3>3, PlusMinus
    <3> QED BY <2>3, <3>2, <3>4
  <2> QED BY <1>0, <2>2, <2>3
<1> QED BY <1>12, <1>13 DEF Drops

\* The sum without the file p of A.
LEMMA SumDrops ==
    ASSUME NEW sz \in Sizes, NEW A, NEW x, IsSum(sz, A, x), NEW p \in A \cap Path
    PROVE  IsSum(sz, A \ {p}, Minus(x, sz[p]))
<1>1. PICK n \in Nat : \E e, acc : Chain(sz, A, n, e, acc) /\ acc[n] = x BY DEF IsSum
<1>2. PICK e, acc : Chain(sz, A, n, e, acc) /\ acc[n] = x BY <1>1
<1>3. PICK k \in 1 .. n : e[k] = p BY <1>2 DEF Chain
<1>4. Drops(sz, A, n, e, acc, k) BY <1>2, ChainDrops
<1>5. n - 1 \in Nat BY <1>3
<1> QED BY <1>2, <1>3, <1>4, <1>5 DEF Drops, IsSum

\* No file, no bytes, in whatever order.
LEMMA EmptySumOnly ==
    ASSUME NEW sz, NEW x, IsSum(sz, {}, x)
    PROVE  x = 0
<1>1. PICK n \in Nat : \E e, acc : Chain(sz, {}, n, e, acc) /\ acc[n] = x BY DEF IsSum
<1>2. PICK e, acc : Chain(sz, {}, n, e, acc) /\ acc[n] = x BY <1>1
<1>3. n = 0
  <2> SUFFICES ASSUME n # 0 PROVE FALSE
    OBVIOUS
  <2>1. 1 \in 1 .. n OBVIOUS
  <2> QED BY <1>2, <2>1 DEF Chain
<1> QED BY <1>2, <1>3 DEF Chain

\* A size added to both sides, and one that changes over from one summand to
\* the other.
LEMMA PlusLaws ==
    ASSUME NEW a \in 0 .. SizeMod - 1, NEW b \in 0 .. SizeMod - 1,
           NEW x \in 0 .. SizeMod - 1, NEW y \in 0 .. SizeMod - 1,
           NEW z \in 0 .. SizeMod - 1
    PROVE  /\ Plus(a, x) = Plus(b, y) => Plus(a, Plus(x, z)) = Plus(b, Plus(y, z))
           /\ Plus(Plus(a, z), Minus(x, z)) = Plus(a, x)
           /\ Plus(a, 0) = a
BY SizeModAssumption DEF Plus, Minus

-----------------------------------------------------------------------------
USE PathAssumption, NowAssumption, SizeModAssumption, InputAssumption, PlainPaths
    DEF CutSet, CutSeqs, Copyable, PlainPath

-----------------------------------------------------------------------------
(***************************************************************************)
(* Files that the comparison leaves alone                                  *)
(***************************************************************************)

\* Both trees hold p, and the times and sizes are no reason to copy it.
Current(p) ==
    /\ p \in Files(inp) \cap Files(out)
    /\ ~MustCopy(inp[p].time, out[p].time, p)

\* Such a file is nowhere on the way to be copied; a sorter that has yet to
\* look it up will find it in OFilesSet.
Skipped(p) ==
    /\ Current(p) /\ ~Pushed(p)
    /\ \A s \in Sorters : sfile[s] = p => spc[s] # "push"
    /\ phase \notin {"scanIn", "scanOut"} =>
          /\ p \in Range(IFilesSet) => p \in OFilesSet
          /\ \A s \in Sorters :
                sfile[s] = p /\ spc[s] \in {"find", "finding"} => p \in OFilesSet

\* A sorter finds it, and the comparison says that it stays.
LEMMA SkippedNotPushed ==
    ASSUME Picture, NEW s \in Sorters, Sorter(s), misled' = {}, misled = {},
           NEW p \in Path, Skipped(p), sfile'[s] = p, phase = "sort"
    PROVE  spc'[s] # "push"
<1>0. /\ Flow /\ inp \in [Path -> Node] /\ out \in [Path -> Node]
      /\ spc \in [Sorters -> SorterPCs] /\ sfile \in [Sorters -> Path \cup {NoPath}]
      /\ clash = {}
  BY DEF Picture, Flow, Ownership, Typed, TypeOK, TreesOK, Tree, SortersOK, NoClash
<1>1. CASE FindEnd(s)
  BY <1>0, <1>1 DEF FindEnd, Skipped
<1>2. CASE Compare(s)
  <2>1. PICK ITime \in WriteTimes(inp, p), OTime \in WriteTimes(out, p) :
            \/ /\ spc' = [spc EXCEPT ![s] =
                          IF MustCopy(ITime, OTime, p) THEN "push" ELSE "erase"]
               /\ MinTime \notin {ITime, OTime}
            \/ spc' = [spc EXCEPT ![s] = "loop"]
    BY <1>2 DEF Compare
  <2>2. CASE MinTime \notin {ITime, OTime}
    <3>1. ITime = inp[p].time /\ OTime = out[p].time
      BY <2>2 DEF WriteTimes
    <3>2. ~MustCopy(ITime, OTime, p) BY <3>1 DEF Skipped, Current
    <3> QED BY <1>0, <2>1, <3>2
  <2> QED BY <1>0, <2>1, <2>2
<1>3. CASE ~FindEnd(s) /\ ~Compare(s)
  BY <1>0, <1>3 DEF Sorter, SorterLoop, SorterPop, FindBegin, Push, Account,
                    EraseBegin, EraseEnd
<1> QED BY <1>1, <1>2, <1>3

\* OFilesSet keeps such a file until a sorter has found it.
LEMMA StaysListed ==
    ASSUME Flow, NEW s \in Sorters, Sorter(s), phase = "sort", NEW p \in Path,
           Skipped(p)
    PROVE  /\ p \in Range(IFilesSet') => p \in OFilesSet'
           /\ \A r \in Sorters :
                 sfile'[r] = p /\ spc'[r] \in {"find", "finding"} => p \in OFilesSet'
<1>0. /\ spc \in [Sorters -> SorterPCs] /\ sfile \in [Sorters -> Path \cup {NoPath}]
      /\ IFilesSet \in Seq(Path) /\ Owned
  BY DEF Flow, Ownership, Typed, TypeOK, SortersOK, ListsOK
<1>1. CASE EraseEnd(s)
  <2>1. p \in OFilesSet \ OFilesSet' => sfile[s] = p BY <1>1 DEF EraseEnd
  <2>2. sfile[s] = p => /\ p \notin Range(IFilesSet)
                        /\ \A r \in Sorters : sfile[r] = p => r = s
    BY DEF Flow, SortedOnce, NoPath
  <2>3. UNCHANGED <<IFilesSet, sfile>> /\ spc' = [spc EXCEPT ![s] = "loop"]
    BY <1>1 DEF EraseEnd
  <2> QED BY <1>0, <2>1, <2>2, <2>3 DEF Skipped
<1>2. CASE SorterPop(s) /\ IFilesSet # <<>>
  <2>1. /\ Head(IFilesSet) \in Range(IFilesSet)
        /\ Range(Tail(IFilesSet)) \subseteq Range(IFilesSet)
    BY <1>0, <1>2, PopFront DEF Owned
  <2> QED BY <1>0, <1>2, <2>1 DEF SorterPop, Skipped
<1>3. CASE ~EraseEnd(s) /\ ~(SorterPop(s) /\ IFilesSet # <<>>)
  <2>1. UNCHANGED <<IFilesSet, OFilesSet, sfile>>
    BY <1>2, <1>3 DEF Sorter, SorterLoop, SorterPop, FindBegin, FindEnd, Compare,
                      Push, Account, EraseBegin
  <2>2. \A r \in Sorters : spc'[r] \in {"find", "finding"} => spc[r] \in {"find", "finding"}
    BY <1>0, <1>3 DEF Sorter, SorterLoop, SorterPop, FindBegin, FindEnd, Compare,
                      Push, Account, EraseBegin
  <2> QED BY <2>1, <2>2 DEF Skipped
<1> QED BY <1>1, <1>2, <1>3

\* Within a run it stays skipped, and both nodes stay as they are.
LEMMA SkippedStep ==
    ASSUME Picture, [Next]_vars, ~(Kill \/ Rerun), Undisturbed, misled' = {},
           NEW p \in Path, Skipped(p)
    PROVE  Skipped(p)' /\ inp'[p] = inp[p] /\ out'[p] = out[p]
<1>0. /\ Flow /\ misled = {} /\ SafePrefix /\ p \in Files(inp) /\ p \in Files(out)
      /\ UNCHANGED <<in0, out0, opts>> /\ inp \in [Path -> Node]
  BY InputChanges DEF Picture, Flow, Ownership, Typed, TypeOK, TreesOK, Tree,
                      Undisturbed, Skipped, Current
<1>1. ~ \E w \in Workers : WritesTo(w, p)
  BY <1>0, WritesInput DEF Skipped, Pushed, WritesTo
<1>2. out'[p] = out[p] BY <1>0, <1>1, Spared
<1>3. inp'[p] = inp[p]
  <2>1. ASSUME NEW w \in Workers, Worker(w), Renames(w) PROVE inp'[p] = inp[p]
    BY <1>0, <1>1, <2>1 DEF Renames, WritesTo
  <2> QED BY <2>1, InputChanges
<1>4. ~Pushed(p)'
  <2>1. ~Pushed(p) /\ \A s \in Sorters : sfile[s] = p => spc[s] # "push"
    BY DEF Skipped
  <2>2. ASSUME Pushed(p)' PROVE FALSE
    <3>1. Pushed(p) \/ \E s \in Sorters : Push(s) /\ sfile[s] = p
      BY <1>0, <2>2, PushedBefore
    <3> QED BY <2>1, <3>1 DEF Push
  <2> QED BY <2>2
<1>5. Current(p)'
  BY <1>0, <1>2, <1>3 DEF Skipped, Current, Files, MustCopy, FileSize
<1>6. CASE Main
  <2>1. UNCHANGED sfile BY <1>6, MainKeeps
  <2>2. \A s \in Sorters : sfile'[s] = p => spc'[s] # "push"
    BY <1>6, <2>1, MainPhases DEF Spawn, Skipped
  <2>3. CASE ScanOutput
    <3>1. p \in OFilesSet'
      BY <1>0, <2>3, MisledGrows DEF ScanOutput, Entries
    <3> QED BY <1>2, <1>3, <1>4, <1>5, <2>2, <3>1 DEF Skipped
  <2>4. CASE ScanInput
    BY <1>2, <1>3, <1>4, <1>5, <2>2, <2>4 DEF Skipped, ScanInput
  <2>5. CASE ~ScanOutput /\ ~ScanInput
    <3>1. /\ UNCHANGED <<IFilesSet, OFilesSet>>
          /\ phase' \notin {"scanIn", "scanOut"} => phase \notin {"scanIn", "scanOut"}
      BY <1>6, <2>5 DEF Main, HandleDir, Spawn, JoinSorters, QueueDelete, SetDone,
                        JoinWorkers, RemoveDir, Finish, lists
    <3>2. \A s \in Sorters : spc'[s] \in {"find", "finding"} => spc[s] \in {"find", "finding"}
      BY <1>6, MainPhases DEF Spawn
    <3> QED BY <1>2, <1>3, <1>4, <1>5, <2>1, <2>2, <3>1, <3>2 DEF Skipped
  <2> QED BY <2>3, <2>4, <2>5
<1>7. ASSUME NEW s \in Sorters, Sorter(s) PROVE Skipped(p)'
  <2>1. phase = "sort" /\ UNCHANGED phase
    <3>1. spc[s] \notin {"unborn", "done"}
      BY <1>7 DEF Sorter, SorterLoop, SorterPop, FindBegin, FindEnd, Compare, Push,
                  Account, EraseBegin, EraseEnd
    <3>2. phase \in Phases
      BY <1>0 DEF Flow, Ownership, Typed, TypeOK, ControlOK
    <3> QED BY <1>0, <1>7, <3>1, <3>2, SorterKeeps
            DEF Flow, Ownership, NotStarted, SortersDrain, SortersJoined, Phases
  <2>2. \A r \in Sorters : sfile'[r] = p => spc'[r] # "push"
    <3>1. \A r \in Sorters \ {s} : sfile'[r] = sfile[r] /\ spc'[r] = spc[r]
      BY <1>0, <1>7
         DEF Flow, Ownership, Typed, TypeOK, SortersOK, Sorter, SorterLoop, SorterPop,
             FindBegin, FindEnd, Compare, Push, Account, EraseBegin, EraseEnd
    <3> QED BY <1>0, <1>7, <2>1, <3>1, SkippedNotPushed DEF Skipped
  <2> QED BY <1>0, <1>4, <1>5, <1>7, <2>1, <2>2, StaysListed DEF Skipped
<1>8. ASSUME NEW w \in Workers, Worker(w) PROVE Skipped(p)'
  BY <1>4, <1>5, <1>8, WorkerKeeps DEF Skipped
<1>9. CASE UNCHANGED vars \/ Terminated
  BY <1>4, <1>5, <1>9, StutterKeeps DEF Skipped
<1> QED BY <1>2, <1>3, <1>6, <1>7, <1>8, <1>9 DEF Next

\* A new run starts with it.
LEMMA SkippedRestart ==
    ASSUME Flow, Kill \/ Rerun, NEW p \in Path, Current(p)
    PROVE  Skipped(p)'
<1>1. Restart /\ UNCHANGED <<inp, out, in0, opts>> BY RestartKeeps
<1>2. ~Moved(p)
  BY DEF Current, Files, Flow, InputKept, Moved, Absent
<1>3. Current(p)' BY <1>1 DEF Current, Files, MustCopy, FileSize
<1> QED BY <1>1, <1>2, <1>3, EmptyDeque DEF Restart, Skipped, Pushed, WorkerHolds, Moved

-----------------------------------------------------------------------------
(***************************************************************************)
(* Newer output files                                                      *)
(***************************************************************************)

\* An output file that is newer than its input and not to be overwritten.
Newer(p) ==
    p \in Files(in0) \cap Files(out0) /\ in0[p].time < out0[p].time

\* It is as it was, so is its input, and it is skipped.
Untouched(p) == inp[p] = in0[p] /\ out[p] = out0[p] /\ Skipped(p)

NewerSafe == ~opts.force /\ Undisturbed => \A p \in Path : Newer(p) => Untouched(p)

\* Every step leaves newer output files untouched.
LEMMA NewerSafeNext == Picture /\ NewerSafe /\ [Next]_vars => NewerSafe'
<1> SUFFICES ASSUME Picture, NewerSafe, [Next]_vars, ~opts'.force, Undisturbed',
                    NEW p \in Path, Newer(p)'
             PROVE  Untouched(p)'
  BY DEF NewerSafe
<1>1. /\ ~opts.force /\ Undisturbed /\ misled' = {} /\ Newer(p) /\ Flow
      /\ UNCHANGED <<in0, out0>>
  BY InputChanges, MisledGrows DEF Undisturbed, SafePrefix, Newer, Files, Picture
<1>2. Untouched(p) BY <1>1 DEF NewerSafe
<1>3. CASE Kill \/ Rerun
  BY <1>1, <1>2, <1>3, RestartKeeps, SkippedRestart DEF Untouched, Skipped
<1> QED BY <1>1, <1>2, <1>3, SkippedStep DEF Untouched

\* Without -f no run overwrites an output file that is newer than its input.
THEOREM NewerFilesKept == Spec => []NewerKept
<1>1. Init => NewerSafe
  <2> SUFFICES ASSUME Init, ~opts.force, NEW p \in Path, Newer(p) PROVE Untouched(p)
    BY DEF NewerSafe
  <2>1. in0 \in [Path -> Node] /\ out0 \in [Path -> Node] BY DEF Init, Tree
  <2>2. in0[p].time \in Nat /\ out0[p].time \in Nat BY <2>1 DEF Node
  <2>3. Current(p) BY <2>2 DEF Init, Newer, Current, MustCopy, Files
  <2> QED BY <2>3, EmptyDeque DEF Init, InitRun, Untouched, Skipped, Pushed, WorkerHolds, Moved
<1>2. Picture /\ NewerSafe => NewerKept
  BY TreeAssumption
     DEF Picture, Flow, InputKept, NewerSafe, Newer, Untouched, NewerKept, Files
<1> QED BY <1>1, <1>2, PictureInit, PictureNext, NewerSafeNext, PTL DEF Spec

-----------------------------------------------------------------------------
(***************************************************************************)
(* Errors that need not be                                                 *)
(***************************************************************************)

\* The input and the output trees fit each other and directories can be made.
Fitting == Compatible /\ SafePrefix /\ "mkdir" \notin Faults

\* Then nothing stands in the way of a file: every directory and every file of
\* the output tree is one of the two trees there were, and the directories
\* above a file that is on its way are there or about to be created.
Layout ==
    /\ Dirs(out) \subseteq Dirs(out0) \cup Dirs(in0)
    /\ Files(out) \cup OFilesSet \subseteq Files(out0) \cup Files(in0)
    /\ IDirSet \subseteq Dirs(in0)
    /\ phase \notin {"scanIn", "rmDirs", "finished"} =>
          \A p \in Path : Unowned(p) \/ Above(p) \subseteq IDirSet \cup Dirs(out)

\* No file stands where a directory belongs and no directory where a file does.
LEMMA NothingInTheWay ==
    ASSUME Flow, Fitting, Layout
    PROVE  /\ Dirs(in0) \cap (Files(out) \cup OFilesSet) = {}
           /\ Dirs(out) \cap (Files(in0) \cup OFilesSet) = {}
           /\ Dirs(inp) = Dirs(in0) /\ Files(inp) \subseteq Files(in0)
<1>1. /\ Files(in0) \cap Dirs(in0) = {} /\ Files(out0) \cap Dirs(out0) = {}
      /\ Files(in0) \cap Dirs(out0) = {} /\ Dirs(in0) \cap Files(out0) = {}
  BY DEF Fitting, Compatible, Files, Dirs
<1>2. Dirs(inp) = Dirs(in0) /\ Files(inp) \subseteq Files(in0) BY InputParts
<1> QED BY <1>1, <1>2 DEF Layout

\* A directory of the input tree is found or created.
LEMMA DirArrives ==
    ASSUME Picture, Fitting, Layout, NEW d \in Path, HandleDir(d)
    PROVE  d \in Dirs(out)' /\ Dirs(out) \subseteq Dirs(out)'
<1>0. /\ Flow /\ out \in [Path -> Node] /\ d \in Dirs(in0) /\ phase = "dirs"
  BY DEF Picture, Flow, Ownership, Typed, TypeOK, TreesOK, Tree, Layout, HandleDir
<1>1. CASE d \in ODirSet
  <2>1. d \in Dirs(out) BY <1>0, <1>1 DEF Picture, DirsStay, Fitting
  <2>2. UNCHANGED out BY <1>1 DEF HandleDir
  <2> QED BY <2>1, <2>2 DEF Dirs
<1>2. CASE d \notin ODirSet
  <2>1. WellFormed(inp) /\ Dirs(inp) = Dirs(in0) BY <1>0, InputWellFormed, NothingInTheWay
  <2>2. Above(d) \cup {d} \subseteq Dirs(in0)
    BY <1>0, <2>1 DEF WellFormed, Entries
  <2>3. Creatable(out, d)
    BY <1>0, <2>2, NothingInTheWay DEF Creatable, Files, Above
  <2>4. out' = CreateDirectories(out, d)
    BY <1>2, <2>3 DEF HandleDir, Fitting
  <2> QED BY <2>4 DEF CreateDirectories, Dirs, Dir
<1> QED BY <1>1, <1>2

\* New directories are those of the input tree.
LEMMA DirsFromInput ==
    ASSUME Picture, Fitting, Layout, NEW d \in Path, HandleDir(d)
    PROVE  Dirs(out)' \subseteq Dirs(out) \cup Dirs(in0)
<1>0. Flow /\ d \in Dirs(in0) BY DEF Picture, Layout, HandleDir
<1>1. WellFormed(inp) /\ Dirs(inp) = Dirs(in0) BY <1>0, InputWellFormed, NothingInTheWay
<1>2. Above(d) \cup {d} \subseteq Dirs(in0) BY <1>0, <1>1 DEF WellFormed, Entries
<1>3. CASE UNCHANGED out BY <1>3 DEF Dirs
<1>4. CASE out' = CreateDirectories(out, d)
  BY <1>2, <1>4 DEF CreateDirectories, Dirs
<1> QED BY <1>3, <1>4 DEF HandleDir

\* Until directories are removed, none disappears.
LEMMA DirsRemain ==
    ASSUME Picture, Fitting, Layout, [Next]_vars, phase # "rmDirs", NEW p \in Dirs(out)
    PROVE  p \in Dirs(out)'
<1>0. Flow /\ Typed /\ p \in Path /\ out[p].kind = "dir"
  BY DEF Picture, Flow, Ownership, Dirs
<1>1. ASSUME NEW w \in Workers, WritesTo(w, p) PROVE FALSE
  BY <1>0, <1>1, WritesInput, NothingInTheWay
<1>2. ASSUME NEW w \in Workers, Removes(w), hand[w] = p PROVE FALSE
  BY <1>0, <1>2, RemovesUnmatched, NothingInTheWay DEF Removes, Fitting
<1>3. out'[p] = out[p] \/ out'[p] = Dir
  BY <1>0, <1>1, <1>2, OutputChanges
<1> QED BY <1>0, <1>3 DEF Dirs, Dir

\* The thread that calls Copy creates directories of the input tree only.
LEMMA LayoutMain ==
    ASSUME Picture, Fitting, Layout, Main
    PROVE  Layout'
<1>0. /\ Flow /\ Typed /\ [Next]_vars /\ UNCHANGED <<inp, in0, out0>>
      /\ inp \in [Path -> Node] /\ out \in [Path -> Node]
  BY MainKeeps DEF Picture, Flow, Ownership, Next, Typed, TypeOK, TreesOK, Tree
<1>1. CASE ScanInput
  <2>1. PICK S \in Listings(inp) : /\ IFilesSet' \in SetToSeqs(S \cap Files(inp))
                                   /\ IDirSet' = S \cap Dirs(inp)
    BY <1>1 DEF ScanInput
  <2>2. Range(IFilesSet') = S \cap Files(inp)
    <3>1. S \cap Files(inp) \in SUBSET Path BY DEF Files
    <3> QED BY <2>1, <3>1, ScanRange
  <2>3. ASSUME NEW p \in Path, ~Unowned(p)' PROVE Above(p) \subseteq IDirSet'
    <3>1. UNCHANGED <<copyQueue, spc, sfile, wpc, hand>> /\ copyQueue = <<>>
      BY <1>0, <1>1, MainKeeps DEF ScanInput, Flow, Ownership, NotStarted
    <3>2. /\ \A s \in Sorters : ~SorterHolds(s)
          /\ \A w \in Workers : ~WorkerHolds(w)
      BY <1>0, <1>1 DEF ScanInput, Flow, Ownership, NotStarted, SorterHolds, WorkerHolds
    <3>3. p \in Range(IFilesSet')
      BY <2>3, <3>1, <3>2, EmptyDeque DEF Unowned, SorterHolds, WorkerHolds
    <3> QED BY <1>0, <2>1, <2>2, <3>3, ListingClosed
  <2>4. UNCHANGED <<out, OFilesSet>> BY <1>1 DEF ScanInput
  <2> QED BY <1>0, <2>1, <2>3, <2>4, NothingInTheWay DEF Layout, Dirs, Files
<1>2. ASSUME ~ScanInput, NEW p \in Path, ~Unowned(p)',
             phase' \notin {"scanIn", "rmDirs", "finished"}
      PROVE  Above(p) \subseteq IDirSet' \cup Dirs(out)'
  <2>1. ~Unowned(p) BY <1>0, <1>2, NothingEnters DEF Flow
  <2>2. phase \notin {"scanIn", "rmDirs", "finished"}
    BY <1>2 DEF Main, ScanOutput, HandleDir, Spawn, JoinSorters, QueueDelete, SetDone,
                JoinWorkers, RemoveDir, Finish
  <2>3. Above(p) \subseteq IDirSet \cup Dirs(out) BY <2>1, <2>2 DEF Layout
  <2>4. Dirs(out) \subseteq Dirs(out)' BY <1>0, <2>2, DirsRemain
  <2>5. ASSUME NEW d \in IDirSet \ IDirSet' PROVE d \in Dirs(out)'
    <3>1. d \in Path BY <1>0 DEF Typed, TypeOK, ListsOK
    <3>2. HandleDir(d)
      BY <1>2, <2>5 DEF Main, ScanOutput, HandleDir, Spawn, JoinSorters, QueueDelete,
                        SetDone, JoinWorkers, RemoveDir, Finish, lists
    <3> QED BY <3>1, <3>2, DirArrives
  <2> QED BY <2>3, <2>4, <2>5
<1>3. CASE ScanOutput
  <2>1. /\ OFilesSet' \subseteq Files(out) /\ UNCHANGED <<out, IDirSet>>
    BY <1>3 DEF ScanOutput
  <2>2. ~ScanInput BY <1>3 DEF ScanInput, ScanOutput
  <2> QED BY <1>0, <1>2, <2>1, <2>2 DEF Layout, Dirs, Files
<1>4. CASE ~ScanInput /\ ~ScanOutput
  <2>1. UNCHANGED OFilesSet /\ IDirSet' \subseteq IDirSet
    BY <1>4 DEF Main, HandleDir, Spawn, JoinSorters, QueueDelete, SetDone,
                JoinWorkers, RemoveDir, Finish, lists
  <2>2. \A p \in Path : out'[p] = out[p] \/ out'[p] = Dir \/ out'[p] = Absent
    BY <1>0, MainTrees
  <2>3. Files(out)' \subseteq Files(out) BY <2>2 DEF Files, Dir, Absent
  <2>4. Dirs(out)' \subseteq Dirs(out) \cup Dirs(in0)
    <3>1. ASSUME NEW d \in Path, HandleDir(d) PROVE Dirs(out)' \subseteq Dirs(out) \cup Dirs(in0)
      BY <3>1, DirsFromInput
    <3>2. ASSUME NEW d \in Path, RemoveDir(d) PROVE Dirs(out)' \subseteq Dirs(out)
      BY <3>2 DEF RemoveDir, Without, Dirs, Absent
    <3>3. CASE UNCHANGED out BY <3>3 DEF Dirs
    <3> QED BY <1>4, <3>1, <3>2, <3>3
            DEF Main, Spawn, JoinSorters, QueueDelete, SetDone, JoinWorkers, Finish
  <2> QED BY <1>0, <1>2, <1>4, <2>1, <2>3, <2>4 DEF Layout, Dirs, Files
<1> QED BY <1>1, <1>3, <1>4

\* Every step keeps the trees fitting each other.
LEMMA LayoutNext == Picture /\ Fitting /\ Layout /\ [Next]_vars => Layout'
<1> SUFFICES ASSUME Picture, Fitting, Layout, [Next]_vars PROVE Layout'
  OBVIOUS
<1>0. Flow /\ Typed /\ Ownership /\ UNCHANGED <<in0, out0>>
  BY InputChanges DEF Picture, Flow, Ownership
<1>1. CASE Main BY <1>1, LayoutMain
<1>2. ASSUME UNCHANGED <<phase, IDirSet>>, OFilesSet' \subseteq OFilesSet, ~ScanInput,
             Files(out)' \subseteq Files(out) \cup Files(in0),
             Dirs(out)' \subseteq Dirs(out)
      PROVE  Layout'
  <2>1. phase \notin {"scanIn", "rmDirs", "finished"} =>
            \A p \in Path : Unowned(p)' \/ Above(p) \subseteq IDirSet \cup Dirs(out)'
    <3>1. \A p \in Path : Unowned(p) => Unowned(p)'
      BY <1>0, <1>2, NothingEnters
    <3>2. phase # "rmDirs" => Dirs(out) \subseteq Dirs(out)' BY DirsRemain
    <3> QED BY <3>1, <3>2 DEF Layout
  <2> QED BY <1>0, <1>2, <2>1 DEF Layout, Dirs, Files
<1>3. ASSUME NEW s \in Sorters, Sorter(s) PROVE Layout'
  <2>1. OFilesSet' \subseteq OFilesSet
    BY <1>3 DEF Sorter, SorterLoop, SorterPop, FindBegin, FindEnd, Compare, Push,
                Account, EraseBegin, EraseEnd
  <2>2. UNCHANGED <<phase, IDirSet, out>> BY <1>3, SorterKeeps
  <2>3. ~ScanInput BY <2>2 DEF ScanInput
  <2> QED BY <1>2, <2>1, <2>2, <2>3 DEF Dirs, Files
<1>4. ASSUME NEW w \in Workers, Worker(w) PROVE Layout'
  <2>1. UNCHANGED <<phase, IDirSet, OFilesSet>> BY <1>4, WorkerKeeps
  <2>2. ~ScanInput BY <2>1 DEF ScanInput
  <2>3. \A p \in Path : \/ out'[p] = out[p] \/ out'[p] = Absent
                        \/ p \in Files(in0) /\ out'[p].kind = "file"
    <3>1. phase # "dirs" /\ phase # "rmDirs"
      <4>1. wpc[w] # "unborn"
        BY <1>4 DEF Worker, WorkerLoop, WorkerCheckCopy, WorkerCheckDelete, PopCopy,
                    Rename, CopyBegin, CopyEnd, Count, PopDelete, RemoveFile
      <4> QED BY <1>0, <1>4, <4>1, WorksInTime DEF Ownership, NotStarted
    <3>2. ASSUME NEW p \in Path, NEW v \in Workers, WritesTo(v, p)
          PROVE  p \in Files(in0) /\ out'[p].kind = "file"
      BY <1>0, <3>2, WritesInput, WritesFile, NothingInTheWay
    <3> QED BY <1>0, <3>1, <3>2, OutputChanges
  <2>4. /\ Files(out)' \subseteq Files(out) \cup Files(in0)
        /\ Dirs(out)' \subseteq Dirs(out)
    BY <2>3 DEF Files, Dirs, Absent
  <2> QED BY <1>2, <2>1, <2>2, <2>4
<1>5. CASE Kill \/ Rerun
  BY <1>0, <1>5, RestartKeeps DEF Restart, Layout, Dirs, Files
<1>6. CASE UNCHANGED vars \/ Terminated
  BY <1>0, <1>6, StutterKeeps DEF Layout, Dirs, Files, Unowned, SorterHolds, WorkerHolds
<1> QED BY <1>1, <1>3, <1>4, <1>5, <1>6 DEF Next

\* A worker can write its file.
LEMMA CanWrite ==
    ASSUME Picture, Fitting, Layout, NEW w \in Workers, Worker(w), WorkerHolds(w)
    PROVE  Copyable(hand[w])
<1>0. Flow /\ Typed BY DEF Picture, Flow, Ownership
<1>1. hand[w] \in Path /\ ~Unowned(hand[w])
  BY <1>0 DEF Typed, TypeOK, HoldsPath, WorkerHolds, Unowned
<1>2. hand[w] \in Files(inp) BY <1>0, <1>1 DEF Flow, FilesHeld
<1>3. ~Preparing BY <1>0 DEF Flow, Ownership, NotStarted, Preparing, WorkerHolds
<1>4. Above(hand[w]) \subseteq Dirs(out)
  BY <1>0, <1>1, <1>3, WorksInTime DEF Layout, Picture, Shelter, Preparing
<1>5. out[hand[w]].kind # "dir"
  BY <1>0, <1>1, <1>2, NothingInTheWay DEF Dirs
<1> QED BY <1>2, <1>4, <1>5 DEF Writable

\* A worker can remove a file without match, which no other one writes.
LEMMA CanRemove ==
    ASSUME Picture, Fitting, Layout, "race" \notin misled, NEW w \in Workers,
           wpc[w] = "remove", hand[w] \in Path
    PROVE  Removable(out, hand[w]) /\ ~InUse(hand[w])
<1>0. Flow /\ Typed BY DEF Picture, Flow, Ownership
<1>1. hand[w] \in OFilesSet /\ ~Preparing /\ phase # "sort"
  BY RemovesUnmatched DEF Fitting
<1>2. out[hand[w]].kind # "dir" BY <1>0, <1>1, NothingInTheWay DEF Dirs
<1>3. SortersJoined
  BY <1>0, <1>1 DEF Flow, SortersDrain, Preparing, Typed, TypeOK, ControlOK, Phases
<1>4. ~Struck(hand[w]) BY <1>1, <1>3 DEF Struck, WillErase, SortersJoined
<1>5. ~InUse(hand[w]) BY <1>4 DEF InUse, Picture, Matching, Pushed, WorkerHolds
<1> QED BY <1>2, <1>5 DEF Removable

\* If nothing but listings and status calls fails and the trees fit each other,
\* the program reports no error, in any run.
THEOREM ErrorsHaveCauses == Spec => []NoSpuriousErrors
<1> DEFINE Inv == Picture /\ (Fitting => Layout) /\ NoSpuriousErrors
<1>1. Init => Inv
  BY PictureInit, EmptyDeque
     DEF Init, InitRun, Layout, NoSpuriousErrors, Unowned, SorterHolds, WorkerHolds
<1>2. Inv /\ [Next]_vars => Inv'
  <2> SUFFICES ASSUME Inv, [Next]_vars PROVE Inv'
    OBVIOUS
  <2>1. Picture' BY PictureNext
  <2>2. UNCHANGED <<in0, out0>> /\ (Fitting' <=> Fitting)
    BY InputChanges DEF Fitting, Compatible, SafePrefix, Files, Dirs
  <2>3. Fitting' => Layout' BY <2>2, LayoutNext
  <2>4. ASSUME Faults \cap {"mkdir", "copy", "remove"} = {}, Fitting,
               "race" \notin misled'
        PROVE  errors' = {}
    <3>1. Layout /\ "race" \notin misled /\ errors = {}
      BY <2>4, MisledGrows DEF Fitting, NoSpuriousErrors
    <3>2. ASSUME NEW w \in Workers, Worker(w) PROVE UNCHANGED errors
      <4>1. CASE Rename(w) \/ CopyBegin(w)
        BY <2>4, <3>1, <3>2, <4>1, CanWrite DEF Rename, CopyBegin, WorkerHolds
      <4>2. CASE CopyEnd(w) BY <2>4, <4>2 DEF CopyEnd
      <4>3. CASE RemoveFile(w)
        BY <2>4, <3>1, <4>3, CanRemove DEF RemoveFile
      <4> QED BY <3>2, <4>1, <4>2, <4>3
              DEF Worker, WorkerLoop, WorkerCheckCopy, WorkerCheckDelete, PopCopy,
                  Count, PopDelete
    <3>3. CASE Kill \/ Rerun BY <3>3, RestartKeeps DEF Restart
    <3> QED BY <3>1, <3>2, <3>3, MainKeeps, SorterKeeps, StutterKeeps DEF Next
  <2>5. NoSpuriousErrors'
    BY <2>2, <2>4 DEF NoSpuriousErrors, Fitting
  <2> QED BY <2>1, <2>3, <2>5
<1> QED BY <1>1, <1>2, PTL DEF Spec


-----------------------------------------------------------------------------
(***************************************************************************)
(* Output files without match                                              *)
(***************************************************************************)

Unmatched(p) == p \in Files(out0) \ Files(in0)

\* A sorter never has a file that the input tree did not hold.
SortsInput == \A s \in Sorters : sfile[s] # NoPath => sfile[s] \in Files(in0)

\* On its way to deletion: in OFilesSet as soon as the output tree is listed,
\* and, when the sorters are done, in toDelete, in _deleteQueue or with a worker.
Doomed(p) ==
    /\ phase \notin {"scanIn", "scanOut"} => p \in OFilesSet
    /\ phase \in {"queue", "joinWork", "rmDirs", "finished"} =>
          \/ p \in toDelete \/ p \in Range(deleteQueue)
          \/ \E w \in Workers : wpc[w] = "remove" /\ hand[w] = p

Deleted ==
    /\ SortsInput
    /\ phase \in {"joinWork", "rmDirs", "finished"} => toDelete = {}
    /\ misled = {} /\ "remove" \notin Faults /\ opts.deletewithoutmatch =>
          \A p \in Files(out) : Unmatched(p) => Doomed(p)

\* Sorters take what was listed in the input tree.
LEMMA SortsInputNext == Flow /\ SortsInput /\ [Next]_vars => SortsInput'
<1> SUFFICES ASSUME Flow, SortsInput, [Next]_vars PROVE SortsInput'
  OBVIOUS
<1>0. UNCHANGED in0 BY InputChanges
<1>1. CASE Main BY <1>0, <1>1, MainKeeps DEF SortsInput, Files
<1>2. ASSUME NEW s \in Sorters, Sorter(s) PROVE SortsInput'
  <2>1. CASE SorterPop(s) /\ IFilesSet # <<>>
    <3>1. IFilesSet \in Seq(Path) /\ sfile \in [Sorters -> Path \cup {NoPath}]
      BY DEF Flow, Ownership, Typed, TypeOK, ListsOK, SortersOK
    <3>2. Head(IFilesSet) \in Range(IFilesSet) /\ Head(IFilesSet) \in Path
      BY <2>1, <3>1, DequeRange
    <3>3. Head(IFilesSet) \in Files(inp)
      BY <3>2 DEF Flow, FilesHeld, Unowned
    <3>4. Head(IFilesSet) \in Files(in0)
      BY <3>2, <3>3 DEF Flow, InputKept, Files
    <3> QED BY <1>0, <2>1, <3>1, <3>4 DEF SorterPop, SortsInput, Files
  <2>2. CASE ~(SorterPop(s) /\ IFilesSet # <<>>)
    <3>1. UNCHANGED sfile
      BY <1>2, <2>2 DEF Sorter, SorterLoop, SorterPop, FindBegin, FindEnd, Compare, Push,
                        Account, EraseBegin, EraseEnd
    <3> QED BY <1>0, <3>1 DEF SortsInput, Files
  <2> QED BY <2>1, <2>2
<1>3. ASSUME NEW w \in Workers, Worker(w) PROVE SortsInput'
  BY <1>0, <1>3, WorkerKeeps DEF SortsInput, Files
<1>4. CASE Kill \/ Rerun BY <1>0, <1>4, RestartKeeps DEF Restart, SortsInput
<1>5. CASE UNCHANGED vars \/ Terminated
  BY <1>0, <1>5, StutterKeeps DEF SortsInput, Files
<1> QED BY <1>1, <1>2, <1>3, <1>4, <1>5 DEF Next

\* A file without match is not written; it stays as it is or goes.
LEMMA UnmatchedUnwritten ==
    ASSUME Flow, [Next]_vars, NEW p \in Path, p \in Files(out)', Unmatched(p)
    PROVE  out'[p] = out[p]
<1>1. Typed BY DEF Flow, Ownership
<1>2. ASSUME NEW w \in Workers, WritesTo(w, p) PROVE FALSE
  <2>1. p \in Files(inp) BY <1>2, WritesInput
  <2> QED BY <2>1 DEF Flow, InputKept, Files, Unmatched
<1> QED BY <1>1, <1>2, OutputChanges DEF Files, Dir, Absent

\* The thread that calls Copy keeps it on its way,
LEMMA DoomedMain ==
    ASSUME OutputPrefix = <<>>, Picture, Deleted, Main, misled' = {},
           opts.deletewithoutmatch, NEW p \in Files(out), Doomed(p)
    PROVE  Doomed(p)'
<1>0. /\ deleteQueue \in Seq(Seq(Name)) /\ p \in Path
      /\ toDelete \subseteq Path /\ UNCHANGED hand
  BY MainKeeps DEF Picture, Flow, Ownership, Typed, TypeOK, QueuesOK, ListsOK, Files
<1>1. CASE ScanInput BY <1>1 DEF ScanInput, Doomed
<1>2. CASE ScanOutput
  <2>1. Entries(out) \cap Files(out) = Files(out) BY DEF Entries
  <2>2. PICK S : OFilesSet' = S \cap Files(out) /\ misled' = misled \cup (IF S = Entries(out) THEN {} ELSE {"out"})
    BY <1>2 DEF ScanOutput
  <2>3. S = Entries(out) BY <2>2
  <2>4. p \in OFilesSet' /\ phase' = "dirs" BY <1>2, <2>1, <2>2, <2>3 DEF ScanOutput
  <2> QED BY <2>4 DEF Doomed
<1>3. CASE Spawn \/ \E d \in Path : HandleDir(d)
  BY <1>3 DEF Spawn, HandleDir, Doomed, lists
<1>4. CASE JoinSorters BY <1>4 DEF JoinSorters, Doomed
<1>5. ASSUME NEW f \in Path, QueueDelete(f) PROVE Doomed(p)'
  <2>1. DeleteEntry(f) = f /\ f \in Seq(Name) BY DEF DeleteEntry
  <2>2. Range(deleteQueue') = Range(deleteQueue) \cup {f}
    BY <1>0, <1>5, <2>1, DequeRange DEF QueueDelete
  <2> QED BY <1>0, <1>5, <2>2 DEF QueueDelete, Doomed
<1>6. CASE SetDone \/ JoinWorkers \/ Finish \/ \E d \in Path : RemoveDir(d)
  BY <1>0, <1>6 DEF SetDone, JoinWorkers, Finish, RemoveDir, Doomed, lists
<1> QED BY <1>1, <1>2, <1>3, <1>4, <1>5, <1>6 DEF Main

\* and so do the workers, until one has removed it.
LEMMA DoomedWorker ==
    ASSUME Picture, "remove" \notin Faults, NEW w \in Workers, Worker(w),
           NEW p \in Files(out), Unmatched(p), p \in Files(out)', Doomed(p)
    PROVE  Doomed(p)'
<1>0. /\ deleteQueue \in Seq(Seq(Name)) /\ p \in Path
      /\ wpc \in [Workers -> WorkerPCs] /\ hand \in [Workers -> Seq(Name)]
      /\ UNCHANGED <<phase, OFilesSet, toDelete>>
  BY WorkerKeeps DEF Picture, Flow, Ownership, Typed, TypeOK, QueuesOK, WorkersOK, Files
<1>1. CASE RemoveFile(w)
  <2>1. ASSUME hand[w] = p PROVE FALSE
    <3>1. Removable(out, p) BY DEF Removable, Files
    <3>2. ~InUse(p)
      <4>1. ASSUME NEW v \in Workers, wpc[v] = "copying", hand[v] = p PROVE FALSE
        <5>1. ~Unowned(p) BY <4>1 DEF Unowned, WorkerHolds
        <5>2. p \in Files(inp) BY <1>0, <5>1 DEF Picture, Flow, FilesHeld
        <5> QED BY <5>2 DEF Picture, Flow, InputKept, Files, Unmatched
      <4> QED BY <4>1 DEF InUse
    <3>3. out'[p] = Absent
      BY <1>0, <1>1, <2>1, <3>1, <3>2 DEF RemoveFile, Without
    <3> QED BY <3>3 DEF Files, Absent
  <2> QED BY <1>0, <1>1, <2>1 DEF RemoveFile, Doomed, queues
<1>2. CASE PopDelete(w)
  <2>1. CASE deleteQueue # <<>>
    <3>1. Range(deleteQueue) \ {Head(deleteQueue)} \subseteq Range(Tail(deleteQueue))
      BY <1>0, <2>1, DequeRange
    <3>2. /\ wpc[w] # "remove" /\ deleteQueue' = Tail(deleteQueue)
          /\ hand' = [hand EXCEPT ![w] = Head(deleteQueue)]
          /\ wpc' = [wpc EXCEPT ![w] = "remove"]
      BY <1>2, <2>1 DEF PopDelete
    <3> QED BY <1>0, <3>1, <3>2 DEF Doomed
  <2>2. CASE deleteQueue = <<>>
    BY <1>0, <1>2, <2>2 DEF PopDelete, Doomed
  <2> QED BY <2>1, <2>2
<1>3. CASE ~RemoveFile(w) /\ ~PopDelete(w)
  <2>1. /\ UNCHANGED deleteQueue /\ wpc[w] # "remove"
        /\ \A v \in Workers : v # w => wpc'[v] = wpc[v] /\ hand'[v] = hand[v]
    BY <1>0, <1>3
       DEF Worker, WorkerLoop, WorkerCheckCopy, WorkerCheckDelete, PopCopy, Rename,
           CopyBegin, CopyEnd, CopyError, Count, RemoveFile, PopDelete, queues
  <2> QED BY <1>0, <2>1 DEF Doomed
<1> QED BY <1>1, <1>2, <1>3

\* Every step keeps a file without match on its way to deletion.
LEMMA DeletedNext ==
    ASSUME OutputPrefix = <<>>
    PROVE  Picture /\ Deleted /\ [Next]_vars => Deleted'
<1> SUFFICES ASSUME Picture, Deleted, [Next]_vars PROVE Deleted'
  OBVIOUS
<1>0. Flow /\ UNCHANGED <<in0, out0, opts>> BY InputChanges DEF Picture
<1>1. SortsInput' BY <1>0, SortsInputNext DEF Deleted
<1>2. phase' \in {"joinWork", "rmDirs", "finished"} => toDelete' = {}
  <2>1. CASE Main
    BY <2>1 DEF Deleted, Main, ScanInput, ScanOutput, HandleDir, Spawn, JoinSorters,
                QueueDelete, SetDone, JoinWorkers, RemoveDir, Finish, lists
  <2>2. CASE Kill \/ Rerun BY <2>2, RestartKeeps DEF Restart
  <2> QED BY <2>1, <2>2, SorterKeeps, WorkerKeeps, StutterKeeps DEF Deleted, Next
<1>3. ASSUME misled' = {}, "remove" \notin Faults, opts.deletewithoutmatch,
             NEW p \in Files(out)', Unmatched(p)
      PROVE  Doomed(p)'
  <2>0. misled = {} /\ p \in Path BY <1>3, MisledGrows DEF Files
  <2>1. p \in Files(out) BY <1>0, <1>3, <2>0, UnmatchedUnwritten DEF Files
  <2>2. Doomed(p) BY <1>3, <2>0, <2>1 DEF Deleted
  <2>3. CASE Main BY <1>3, <2>1, <2>2, <2>3, DoomedMain
  <2>4. ASSUME NEW s \in Sorters, Sorter(s) PROVE Doomed(p)'
    <3>1. UNCHANGED <<phase, toDelete, deleteQueue, wpc, hand>> BY <2>4, SorterKeeps
    <3>2. OFilesSet \ {sfile[s]} \subseteq OFilesSet'
      BY <2>4 DEF Sorter, SorterLoop, SorterPop, FindBegin, FindEnd, Compare, Push,
                  Account, EraseBegin, EraseEnd
    <3>3. sfile[s] # p
      BY <1>3, <2>0 DEF Deleted, SortsInput, Unmatched, NoPath
    <3> QED BY <2>2, <3>1, <3>2, <3>3 DEF Doomed
  <2>5. ASSUME NEW w \in Workers, Worker(w) PROVE Doomed(p)'
    BY <1>3, <2>1, <2>2, <2>5, DoomedWorker
  <2>6. CASE Kill \/ Rerun BY <2>6, RestartKeeps DEF Restart, Doomed
  <2>7. CASE UNCHANGED vars \/ Terminated BY <2>2, <2>7, StutterKeeps DEF Doomed
  <2> QED BY <2>3, <2>4, <2>5, <2>6, <2>7 DEF Next
<1> QED BY <1>0, <1>1, <1>2, <1>3 DEF Deleted, Unmatched, Files

\* If the prefix is not put in front twice, -d leaves no file without match.
\* (With another prefix it may: the prefix of a deletion then stands twice.)
THEOREM UnmatchedFilesDeleted ==
    ASSUME OutputPrefix = <<>>
    PROVE  Spec => []UnmatchedDeleted
<1>1. Init => Deleted /\ Protocol
  BY DEF Init, InitRun, Deleted, SortsInput, Doomed, Protocol
<1>2. Picture /\ Deleted /\ Protocol => UnmatchedDeleted
  <2> SUFFICES ASSUME Picture, Deleted, Protocol, phase = "finished",
                      opts.deletewithoutmatch, misled = {}, Workers # {},
                      "remove" \notin Faults, NEW p \in Files(out), Unmatched(p)
               PROVE  FALSE
    BY DEF UnmatchedDeleted, Unmatched, Files
  <2>1. WorkersJoined /\ toDelete = {} BY DEF Picture, Flow, Joined, Deleted
  <2>2. deleteQueue = <<>> BY <2>1 DEF Protocol, WorkersJoined
  <2>3. Doomed(p) BY DEF Deleted
  <2> QED BY <2>1, <2>2, <2>3, EmptyDeque DEF Doomed, WorkersJoined
<1>3. Picture => Typed BY DEF Picture, Flow, Ownership
<1> QED BY <1>1, <1>2, <1>3, PictureInit, PictureNext, DeletedNext, ProtocolNext, PTL
        DEF Spec


-----------------------------------------------------------------------------
(***************************************************************************)
(* Every input directory arrives                                           *)
(***************************************************************************)

\* Nothing is listed, created or written that neither tree had.
Known ==
    /\ Files(out) \cup OFilesSet \subseteq Files(out0) \cup Files(in0)
    /\ IDirSet \subseteq Dirs(in0)
    /\ \A p \in Path : out[p].from = "in" =>
          p \in Files(in0) /\ out[p] \in {in0[p], Copied(in0[p])}

\* Every step lists, creates and writes only what one of the trees had.
LEMMA KnownNext == Picture /\ Known /\ [Next]_vars => Known'
<1> SUFFICES ASSUME Picture, Known, [Next]_vars PROVE Known'
  OBVIOUS
<1>0. /\ Flow /\ Typed /\ UNCHANGED <<in0, out0>> /\ in0 \in [Path -> Node]
  BY InputChanges DEF Picture, Flow, Ownership, Typed, TypeOK, TreesOK, Tree
<1>1. ASSUME NEW p \in Path
      PROVE  /\ p \in Files(out)' => p \in Files(out0) \cup Files(in0)
             /\ out'[p].from = "in" =>
                   p \in Files(in0) /\ out'[p] \in {in0[p], Copied(in0[p])}
  <2>1. CASE out'[p] = out[p] BY <2>1 DEF Known, Files
  <2>2. CASE out'[p] = Dir \/ out'[p] = Absent BY <2>2 DEF Dir, Absent, Files
  <2>3. ASSUME NEW w \in Workers, WritesTo(w, p)
        PROVE  p \in Files(in0) /\ (out'[p] = Torn \/ out'[p] \in {in0[p], Copied(in0[p])})
    BY <1>0, <2>3, WritesInput, InputParts
  <2> QED BY <1>0, <2>1, <2>2, <2>3, OutputChanges DEF Torn, FileNode
<1>2. OFilesSet' \subseteq OFilesSet \cup Files(out) /\ IDirSet' \subseteq Dirs(in0)
  <2>1. CASE Main
    <3>1. CASE ScanInput BY <1>0, <3>1, InputParts DEF ScanInput, Known
    <3>2. CASE ~ScanInput
      BY <2>1, <3>2 DEF Main, ScanOutput, HandleDir, Spawn, JoinSorters, QueueDelete,
                        SetDone, JoinWorkers, RemoveDir, Finish, lists, Known
    <3> QED BY <3>1, <3>2
  <2>2. ASSUME NEW s \in Sorters, Sorter(s)
        PROVE  OFilesSet' \subseteq OFilesSet /\ UNCHANGED IDirSet
    <3>1. OFilesSet' \subseteq OFilesSet
      BY <2>2 DEF Sorter, SorterLoop, SorterPop, FindBegin, FindEnd, Compare, Push,
                  Account, EraseBegin, EraseEnd
    <3> QED BY <2>2, <3>1, SorterKeeps
  <2>3. ASSUME NEW w \in Workers, Worker(w) PROVE UNCHANGED <<OFilesSet, IDirSet>>
    BY <2>3, WorkerKeeps
  <2>4. CASE Kill \/ Rerun BY <2>4, RestartKeeps DEF Restart
  <2>5. CASE UNCHANGED vars \/ Terminated BY <2>5, StutterKeeps DEF Known
  <2> QED BY <2>1, <2>2, <2>3, <2>4, <2>5 DEF Next, Known
<1>3. Files(out)' \subseteq Files(out0) \cup Files(in0) BY <1>1 DEF Files
<1> QED BY <1>0, <1>1, <1>2, <1>3 DEF Known, Files, Dirs

\* The directories above one of the input tree are directories of it, too, and
\* if no output file was in the way of one, none is ever.
LEMMA DirsAbove ==
    ASSUME Flow, NEW d \in Dirs(in0)
    PROVE  /\ d \in Path /\ Above(d) \subseteq Dirs(in0)
           /\ Known /\ Creatable(out0, d) => Creatable(out, d) /\ d \notin OFilesSet
<1>1. d \in Path /\ Above(d) \subseteq Dirs(in0)
  BY InputParts DEF WellFormed, Entries, Dirs
<1>2. ASSUME Known, Creatable(out0, d) PROVE Creatable(out, d) /\ d \notin OFilesSet
  <2>1. \A q \in Above(d) \cup {d} : q \in Path /\ q \notin Files(in0) /\ q \notin Files(out0)
    BY <1>1, <1>2 DEF Creatable, Dirs, Files
  <2> QED BY <1>2, <2>1 DEF Known, Creatable, Files
<1> QED BY <1>1, <1>2

\* When nothing went wrong, every directory of the input tree is matched, and
\* it is in the output tree or about to be created there.
DirsArrive ==
    misled = {} =>
        /\ phase = "scanOut" => Dirs(in0) \subseteq IDirSet
        /\ phase \notin {"scanIn", "scanOut"} => Dirs(in0) \cap ODirSet \subseteq IDirSet
        /\ SafePrefix /\ "mkdir" \notin Faults /\ phase # "scanIn" =>
              \A d \in Dirs(in0) : Creatable(out0, d) => d \in IDirSet \cup Dirs(out)

\* What has arrived stays.
LEMMA ArrivedStays ==
    ASSUME Picture, Known, DirsArrive, misled = {}, SafePrefix, [Next]_vars,
           NEW d \in Dirs(in0), Creatable(out0, d), d \in Dirs(out)
    PROVE  d \in Dirs(out)'
<1>0. Flow /\ Typed BY DEF Picture, Flow, Ownership
<1>1. d \in Path /\ Above(d) \subseteq Dirs(in0) /\ d \notin OFilesSet /\ d \notin Files(in0)
  BY <1>0, DirsAbove DEF Dirs, Files
<1>2. ASSUME NEW w \in Workers, WritesTo(w, d) PROVE FALSE
  BY <1>0, <1>1, <1>2, WritesInput, InputParts
<1>3. ASSUME NEW w \in Workers, Removes(w), hand[w] = d PROVE FALSE
  BY <1>1, <1>3, RemovesUnmatched DEF Removes
<1>4. ASSUME phase = "rmDirs", NEW e \in ODirSet, e = d \/ e \in Above(d) PROVE FALSE
  <2>1. IDirSet = {} BY <1>4 DEF Picture, Shelter, Preparing
  <2>2. e \in Dirs(in0) BY <1>1, <1>4
  <2> QED BY <1>4, <2>1, <2>2 DEF DirsArrive
<1>5. out'[d] = out[d] \/ out'[d] = Dir BY <1>0, <1>1, <1>2, <1>3, <1>4, OutputChanges
<1> QED BY <1>1, <1>5 DEF Dirs, Dir

\* Every step keeps input directories matched, and there or due.
LEMMA DirsArriveNext == Picture /\ Known /\ DirsArrive /\ [Next]_vars => DirsArrive'
<1> SUFFICES ASSUME Picture, Known, DirsArrive, [Next]_vars, misled' = {}
             PROVE  /\ phase' = "scanOut" => Dirs(in0)' \subseteq IDirSet'
                    /\ phase' \notin {"scanIn", "scanOut"} =>
                          Dirs(in0)' \cap ODirSet' \subseteq IDirSet'
                    /\ SafePrefix /\ "mkdir" \notin Faults /\ phase' # "scanIn" =>
                          \A d \in Dirs(in0)' : Creatable(out0, d)' =>
                              d \in IDirSet' \cup Dirs(out)'
  BY DEF DirsArrive, SafePrefix
<1>0. /\ Flow /\ misled = {} /\ UNCHANGED <<in0, out0>>
      /\ Dirs(in0)' = Dirs(in0) /\ \A d : Creatable(out0, d)' <=> Creatable(out0, d)
  BY InputChanges, MisledGrows DEF Picture, Dirs, Creatable
<1>1. CASE ScanInput
  <2>1. IDirSet' = Dirs(in0)
    <3>1. IDirSet' = Entries(inp) \cap Dirs(inp) BY <1>0, <1>1 DEF ScanInput
    <3> QED BY <1>0, <3>1, InputParts DEF Entries
  <2> QED BY <1>0, <1>1, <2>1 DEF ScanInput
<1>2. CASE ScanOutput
  BY <1>0, <1>2 DEF ScanOutput, DirsArrive
<1>3. ASSUME NEW d \in Path, HandleDir(d), SafePrefix, "mkdir" \notin Faults,
             Creatable(out0, d)
      PROVE  d \in Dirs(out)'
  <2>0. d \in Dirs(in0) /\ phase = "dirs" BY <1>3 DEF HandleDir, Known
  <2>1. CASE d \in ODirSet
    <3>1. d \in Dirs(out) BY <1>3, <2>0, <2>1 DEF Picture, DirsStay
    <3>2. UNCHANGED out BY <1>3, <2>1 DEF HandleDir
    <3> QED BY <3>1, <3>2 DEF Dirs
  <2>2. CASE d \notin ODirSet
    <3>1. Creatable(out, d) BY <1>0, <1>3, <2>0, DirsAbove
    <3>2. out' = CreateDirectories(out, d) BY <1>3, <2>2, <3>1 DEF HandleDir
    <3> QED BY <1>3, <3>2 DEF CreateDirectories, Dirs, Dir
  <2> QED BY <2>1, <2>2
<1>4. CASE Kill \/ Rerun BY <1>4, RestartKeeps DEF Restart
<1>5. CASE ~ScanInput /\ ~ScanOutput /\ ~(Kill \/ Rerun)
  <2>1. \/ UNCHANGED <<phase, IDirSet, ODirSet>>
        \/ \E d \in Path : HandleDir(d)
        \/ /\ phase \notin {"scanIn", "scanOut"} /\ phase' \notin {"scanIn", "scanOut"}
           /\ UNCHANGED IDirSet /\ ODirSet' \subseteq ODirSet
    <3>1. CASE Main
      BY <1>5, <3>1 DEF Main, ScanInput, ScanOutput, HandleDir, Spawn, JoinSorters,
                        QueueDelete, SetDone, JoinWorkers, RemoveDir, Finish, lists
    <3> QED BY <1>5, <3>1, SorterKeeps, WorkerKeeps, StutterKeeps DEF Next
  <2>2. phase' = "scanOut" => Dirs(in0) \subseteq IDirSet'
    BY <1>0, <2>1 DEF DirsArrive, HandleDir
  <2>3. phase' \notin {"scanIn", "scanOut"} => Dirs(in0) \cap ODirSet' \subseteq IDirSet'
    BY <1>0, <2>1 DEF DirsArrive, HandleDir
  <2>4. ASSUME SafePrefix, "mkdir" \notin Faults, phase' # "scanIn",
               NEW d \in Dirs(in0), Creatable(out0, d)
        PROVE  d \in IDirSet' \cup Dirs(out)'
    <3>1. d \in IDirSet \cup Dirs(out)
      BY <1>0, <1>5, <2>4, LeavesScanIn DEF DirsArrive
    <3>2. d \in Dirs(out) => d \in Dirs(out)' BY <1>0, <2>4, ArrivedStays
    <3>3. d \in IDirSet => d \in IDirSet' \/ HandleDir(d)
      BY <2>1 DEF HandleDir
    <3> QED BY <1>3, <2>4, <3>1, <3>2, <3>3 DEF Dirs
  <2> QED BY <1>0, <2>2, <2>3, <2>4
<1> QED BY <1>1, <1>2, <1>4, <1>5


-----------------------------------------------------------------------------
(***************************************************************************)
(* Every input file is accounted for                                       *)
(***************************************************************************)

\* The program takes p for a file of the output tree: it is listed there, about
\* to be compared, or open for writing.
TakenForFile(p) ==
    \/ p \in OFilesSet
    \/ \E s \in Sorters : spc[s] = "stat" /\ sfile[s] = p
    \/ \E w \in Workers : wpc[w] = "copying" /\ hand[w] = p

\* It is one.
Present ==
    Undisturbed => \A p \in Files(inp) : TakenForFile(p) => p \in Files(out)

\* A file of the output tree that has a match stays one.
LEMMA MatchStays ==
    ASSUME Picture, Undisturbed, [Next]_vars, NEW p \in Files(inp), p \in Files(out)
    PROVE  p \in Files(out)'
<1>0. Flow /\ p \in Path BY DEF Picture, Files
<1>1. out'[p] = out[p] \/ \E w \in Workers : WritesTo(w, p)
  BY <1>0, Spared DEF Undisturbed
<1> QED BY <1>0, <1>1, WritesFile DEF Files

\* How the program comes to take p for a file.
LEMMA TakenBefore ==
    ASSUME Picture, [Next]_vars, NEW p \in Path, TakenForFile(p)'
    PROVE  \/ TakenForFile(p)
           \/ p \in Files(out) /\ UNCHANGED out
           \/ \E w \in Workers : WritesTo(w, p)
<1>0. /\ spc \in [Sorters -> SorterPCs] /\ sfile \in [Sorters -> Path \cup {NoPath}]
      /\ wpc \in [Workers -> WorkerPCs] /\ hand \in [Workers -> Seq(Name)]
  BY DEF Picture, Flow, Ownership, Typed, TypeOK, SortersOK, WorkersOK
<1>1. CASE Main
  <2>1. UNCHANGED <<sfile, hand>> BY <1>1, MainKeeps
  <2>2. Spawn \/ UNCHANGED <<spc, wpc>> BY <1>1, MainPhases
  <2>3. p \in OFilesSet' => p \in OFilesSet \/ (p \in Files(out) /\ UNCHANGED out)
    BY <1>1 DEF Main, ScanInput, ScanOutput, HandleDir, Spawn, JoinSorters, QueueDelete,
                SetDone, JoinWorkers, RemoveDir, Finish, lists
  <2> QED BY <2>1, <2>2, <2>3 DEF TakenForFile, Spawn
<1>2. ASSUME NEW s \in Sorters, Sorter(s) PROVE TakenForFile(p)
  <2>1. UNCHANGED <<wpc, hand>> BY <1>2, SorterKeeps
  <2>2. OFilesSet' \subseteq OFilesSet
    BY <1>2 DEF Sorter, SorterLoop, SorterPop, FindBegin, FindEnd, Compare, Push,
                Account, EraseBegin, EraseEnd
  <2>3. \A r \in Sorters : spc'[r] = "stat" =>
            sfile'[r] = sfile[r] /\ (spc[r] = "stat" \/ sfile[r] \in OFilesSet)
    BY <1>0, <1>2 DEF Sorter, SorterLoop, SorterPop, FindBegin, FindEnd, Compare, Push,
                Account, EraseBegin, EraseEnd
  <2> QED BY <2>1, <2>2, <2>3 DEF TakenForFile
<1>3. ASSUME NEW w \in Workers, Worker(w)
      PROVE  TakenForFile(p) \/ WritesTo(w, p)
  <2>1. UNCHANGED <<OFilesSet, spc, sfile>> BY <1>3, WorkerKeeps
  <2>2. ASSUME NEW v \in Workers, wpc'[v] = "copying"
        PROVE  hand'[v] = hand[v] /\ (wpc[v] = "copying" \/ (v = w /\ Truncates(w)))
    BY <1>0, <1>3, <2>2
       DEF Worker, WorkerLoop, WorkerCheckCopy, WorkerCheckDelete, PopCopy, Rename,
           CopyBegin, CopyEnd, CopyError, Count, RemoveFile, PopDelete, queues, Truncates
  <2> QED BY <1>3, <2>1, <2>2 DEF TakenForFile, WritesTo
<1>4. CASE Kill \/ Rerun
  BY <1>4, RestartKeeps DEF Restart, TakenForFile
<1>5. CASE UNCHANGED vars \/ Terminated
  BY <1>5, StutterKeeps DEF TakenForFile
<1> QED BY <1>1, <1>2, <1>3, <1>4, <1>5 DEF Next

\* Every step keeps what is taken for an output file one.
LEMMA PresentNext == Picture /\ Present /\ [Next]_vars => Present'
<1> SUFFICES ASSUME Picture, Present, [Next]_vars, Undisturbed', NEW p \in Files(inp)',
                    TakenForFile(p)'
             PROVE  p \in Files(out)'
  BY DEF Present
<1>0. Flow /\ p \in Path /\ Undisturbed
  BY MisledGrows DEF Picture, Files, Undisturbed, SafePrefix
<1>1. p \in Files(inp) BY <1>0, InputShrinks
<1>2. CASE TakenForFile(p) BY <1>0, <1>1, <1>2, MatchStays DEF Present
<1>3. CASE p \in Files(out) /\ UNCHANGED out BY <1>3 DEF Files
<1>4. ASSUME NEW w \in Workers, WritesTo(w, p) PROVE p \in Files(out)'
  BY <1>0, <1>4, WritesFile DEF Files
<1> QED BY <1>0, <1>2, <1>3, <1>4, TakenBefore

\* The output has p as it was before the program started, or as the program
\* has brought it.
Fresh(p) == out[p] = out0[p] \/ out[p].from = "in"

\* What EveryFileAccounted asks for.
Settled(p) == out[p].from = "in" \/ <<"copy", p>> \in errors \/ Skippable(p)

\* Before, p is listed, with a thread or queued.
Handled(p) ==
    \/ Settled(p)
    \/ phase = "scanIn" /\ Fresh(p)
    \/ ~Unowned(p) /\ (Fresh(p) \/ \E w \in Workers : wpc[w] = "copying" /\ hand[w] = p)

Progress ==
    Undisturbed /\ clean /\ Workers # {} => \A p \in Files(inp) : Handled(p)

\* When the workers are joined, nothing is on its way any more.
LEMMA NothingLeft ==
    ASSUME Flow, Protocol, Workers # {}, phase \in {"rmDirs", "finished"}, NEW p \in Path
    PROVE  Unowned(p)
<1>1. WorkersJoined /\ SortersJoined BY DEF Flow, Joined, SortersDrain
<1>2. IFilesSet = <<>> BY <1>1, ThreadAssumption DEF Flow, SortersDrain, SortersJoined
<1>3. copyQueue = <<>> BY <1>1 DEF Protocol, WorkersJoined
<1> QED BY <1>1, <1>2, <1>3, EmptyDeque
        DEF Unowned, SortersJoined, WorkersJoined, SorterHolds, WorkerHolds

\* A comparison that leaves p where it is was entitled to.
LEMMA SkipEntitled ==
    ASSUME Picture, Present, Undisturbed, NEW s \in Sorters, Compare(s), misled' = {},
           sfile[s] \in Path, Fresh(sfile[s]), spc'[s] # "push"
    PROVE  out[sfile[s]].from = "in" \/ Skippable(sfile[s])
<1> DEFINE p == sfile[s]
<1>0. /\ Flow /\ inp \in [Path -> Node] /\ out \in [Path -> Node] /\ misled = {}
      /\ in0 \in [Path -> Node] /\ out0 \in [Path -> Node] /\ spc \in [Sorters -> SorterPCs]
      /\ in0 \in InTrees /\ out0 \in OutTrees
  BY DEF Picture, Flow, Ownership, Typed, TypeOK, TreesOK, Tree, SortersOK, Undisturbed,
         InputKept
<1>1. spc[s] = "stat" BY DEF Compare
<1>2. p \in Files(inp)
  BY <1>0, <1>1 DEF Flow, FilesHeld, Unowned, SorterHolds
<1>3. p \in Files(out) /\ inp[p] = in0[p]
  BY <1>0, <1>1, <1>2, InputParts DEF Present, TakenForFile
<1>4. PICK ITime \in WriteTimes(inp, p), OTime \in WriteTimes(out, p) :
          /\ MinTime \notin {ITime, OTime}
          /\ spc' = [spc EXCEPT ![s] =
                     IF MustCopy(ITime, OTime, p) THEN "push" ELSE "erase"]
  BY DEF Compare
<1>5. ITime = in0[p].time /\ OTime = out[p].time BY <1>3, <1>4 DEF WriteTimes
<1>6. ~MustCopy(ITime, OTime, p) BY <1>0, <1>4
<1>7. ASSUME out[p] = out0[p] PROVE Skippable(p)
  <2>1. p \in Files(out0) BY <1>3, <1>7 DEF Files
  <2>2. FileSize(inp, p) = in0[p].size /\ FileSize(out, p) = out0[p].size
    <3>1. in0[p].size \in 0 .. SizeMod - 1 /\ out0[p].size \in 0 .. SizeMod - 1
      BY <1>0, TreeAssumption DEF Node
    <3>2. \A n \in 0 .. SizeMod - 1 : n % SizeMod = n OBVIOUS
    <3> QED BY <1>2, <1>3, <1>7, <3>1, <3>2 DEF FileSize, Files
  <2>3. ITime \in Nat /\ OTime \in Nat BY <1>0, <1>5 DEF Node
  <2> QED BY <1>5, <1>6, <1>7, <2>1, <2>2, <2>3 DEF MustCopy, Skippable
<1> QED BY <1>7 DEF Fresh


\* A worker gives its file up when it has written it, or with an error.
LEMMA WorkerGivesUp ==
    ASSUME Picture, Present, Undisturbed, NEW w \in Workers, Worker(w), WorkerHolds(w),
           hand[w] \in Files(inp), ~WorkerHolds(w)', ~WritesTo(w, hand[w])
    PROVE  <<"copy", hand[w]>> \in errors'
<1>0. wpc \in [Workers -> WorkerPCs]
  BY DEF Picture, Flow, Ownership, Typed, TypeOK, WorkersOK
<1>1. wpc[w] = "copying" => out[hand[w]].kind = "file"
  BY DEF Present, TakenForFile, Files
<1>2. CASE Rename(w)
  BY <1>2 DEF Rename, CopyError, Renames, WritesTo, queues
<1>3. CASE CopyBegin(w)
  BY <1>3 DEF CopyBegin, CopyError, Truncates, WritesTo, queues
<1>4. CASE CopyEnd(w)
  BY <1>1, <1>4 DEF CopyEnd, CopyError, Fills, WritesTo, queues
<1>5. Rename(w) \/ CopyBegin(w) \/ CopyEnd(w)
  BY DEF Worker, WorkerLoop, WorkerCheckCopy, WorkerCheckDelete, PopCopy, Count,
         PopDelete, RemoveFile, WorkerHolds
<1> QED BY <1>2, <1>3, <1>4, <1>5

\* Within a run a file leaves its way through a comparison or a worker.
LEMMA LetGo ==
    ASSUME Ownership, [Next]_vars, ~ScanInput, ~(Kill \/ Rerun), NEW p \in Path,
           ~Unowned(p), Unowned(p)'
    PROVE  \/ \E s \in Sorters : Sorter(s) /\ Compare(s) /\ sfile[s] = p /\ spc'[s] # "push"
           \/ \E w \in Workers : /\ Worker(w) /\ WorkerHolds(w) /\ hand[w] = p
                                 /\ ~WorkerHolds(w)'
<1>0. /\ spc \in [Sorters -> SorterPCs] /\ sfile \in [Sorters -> Path \cup {NoPath}]
      /\ wpc \in [Workers -> WorkerPCs] /\ hand \in [Workers -> Seq(Name)]
      /\ IFilesSet \in Seq(Path) /\ copyQueue \in Seq(Path) /\ Typed
  BY DEF Ownership, Typed, TypeOK, SortersOK, WorkersOK, ListsOK, QueuesOK
<1>1. CASE Main
  <2>1. UNCHANGED <<copyQueue, sfile, hand, IFilesSet>> BY <1>1, MainKeeps, MainPhases
  <2>2. CASE Spawn
    BY <2>1, <2>2 DEF Spawn, Ownership, NotStarted, Unowned, SorterHolds, WorkerHolds
  <2>3. CASE UNCHANGED <<spc, wpc>> BY <2>1, <2>3 DEF Unowned, SorterHolds, WorkerHolds
  <2> QED BY <1>1, <2>2, <2>3, MainPhases
<1>2. ASSUME NEW s \in Sorters, Sorter(s), ~(Compare(s) /\ sfile[s] = p /\ spc'[s] # "push")
      PROVE  FALSE
  <2>1. UNCHANGED <<wpc, hand>> BY <1>2, SorterKeeps
  <2>2. CASE SorterPop(s) /\ IFilesSet # <<>>
    <3>1. Range(IFilesSet) \ {Head(IFilesSet)} \subseteq Range(Tail(IFilesSet))
      BY <1>0, <2>2, DequeRange
    <3>2. /\ SorterHolds(s)' /\ sfile'[s] = Head(IFilesSet) /\ ~SorterHolds(s)
          /\ \A r \in Sorters \ {s} : sfile'[r] = sfile[r] /\ spc'[r] = spc[r]
          /\ IFilesSet' = Tail(IFilesSet) /\ UNCHANGED copyQueue
      BY <1>0, <2>2 DEF SorterPop, SorterHolds
    <3> QED BY <2>1, <3>1, <3>2 DEF Unowned, SorterHolds, WorkerHolds
  <2>3. CASE Push(s)
    <3>1. sfile[s] \in Path BY <2>3 DEF Push, Ownership, Typed, TypeOK, HoldsPath
    <3>2. Range(copyQueue') = Range(copyQueue) \cup {sfile[s]}
      BY <1>0, <2>3, <3>1, DequeRange DEF Push
    <3> QED BY <1>0, <2>1, <2>3, <3>2 DEF Push, Unowned, SorterHolds, WorkerHolds
  <2>4. CASE ~(SorterPop(s) /\ IFilesSet # <<>>) /\ ~Push(s)
    <3>1. UNCHANGED <<IFilesSet, copyQueue, sfile>>
      BY <1>2, <2>4 DEF Sorter, SorterLoop, SorterPop, FindBegin, FindEnd, Compare,
                        Account, EraseBegin, EraseEnd
    <3>2. \A r \in Sorters : SorterHolds(r) /\ sfile[r] = p => SorterHolds(r)'
      <4>1. CASE Compare(s)
        <5>1. \E l \in SorterPCs : spc' = [spc EXCEPT ![s] = l] 
          BY <4>1 DEF Compare, SorterPCs
        <5> QED BY <1>0, <1>2, <4>1, <5>1 DEF SorterHolds
      <4>2. CASE ~Compare(s)
        BY <1>0, <1>2, <2>4, <4>2
           DEF Sorter, SorterLoop, SorterPop, FindBegin, FindEnd, Account, EraseBegin,
               EraseEnd, SorterHolds
      <4> QED BY <4>1, <4>2
    <3> QED BY <2>1, <3>1, <3>2 DEF Unowned, WorkerHolds
  <2> QED BY <2>2, <2>3, <2>4
<1>3. ASSUME NEW w \in Workers, Worker(w), ~(WorkerHolds(w) /\ hand[w] = p /\ ~WorkerHolds(w)')
      PROVE  FALSE
  <2>1. UNCHANGED <<IFilesSet, spc, sfile>> BY <1>3, WorkerKeeps
  <2>2. CASE Takes(w)
    <3>1. Range(copyQueue) \ {Head(copyQueue)} \subseteq Range(Tail(copyQueue))
      BY <1>0, <2>2, DequeRange DEF Takes
    <3>2. /\ WorkerHolds(w)' /\ hand'[w] = Head(copyQueue) /\ ~WorkerHolds(w)
          /\ \A v \in Workers \ {w} : hand'[v] = hand[v] /\ wpc'[v] = wpc[v]
          /\ copyQueue' = Tail(copyQueue)
      BY <1>0, <2>2 DEF Takes, WorkerHolds
    <3> QED BY <2>1, <3>1, <3>2 DEF Unowned, SorterHolds, WorkerHolds
  <2>3. CASE Fails(w) \/ Writes(w) \/ Counts(w) \/ GoesOn(w)
    <3>1. /\ UNCHANGED copyQueue /\ (WorkerHolds(w) => hand'[w] = hand[w])
          /\ \A v \in Workers \ {w} : hand'[v] = hand[v] /\ wpc'[v] = wpc[v]
      BY <1>0, <2>3 DEF Fails, Writes, Counts, GoesOn
    <3> QED BY <1>3, <2>1, <3>1 DEF Unowned, SorterHolds, WorkerHolds
  <2> QED BY <1>0, <1>3, <2>2, <2>3, WorkerMoves
<1>4. CASE UNCHANGED vars \/ Terminated
  BY <1>4, StutterKeeps DEF Unowned, SorterHolds, WorkerHolds
<1> QED BY <1>1, <1>2, <1>3, <1>4 DEF Next

\* Within a run no error is forgotten.
LEMMA ErrorsGrow ==
    ASSUME Typed, [Next]_vars, ~(Kill \/ Rerun)
    PROVE  errors \subseteq errors'
<1>1. ASSUME NEW w \in Workers, Worker(w) PROVE errors \subseteq errors'
  BY <1>1, WorkerMoves DEF Takes, Fails, Writes, Counts, GoesOn
<1> QED BY <1>1, MainKeeps, SorterKeeps, StutterKeeps DEF Next

\* Until the workers are joined, a file that is on its way changes in the
\* output tree only when its worker writes it.
LEMMA OwnedUntouched ==
    ASSUME Picture, Protocol, Known, [Next]_vars, Undisturbed, Workers # {},
           NEW p \in Files(inp), ~Unowned(p), ~ \E w \in Workers : WritesTo(w, p)
    PROVE  out'[p] = out[p]
<1>0. Flow /\ Typed /\ p \in Path /\ misled = {} /\ SafePrefix
  BY DEF Picture, Flow, Ownership, Undisturbed, Files
<1>1. phase \notin {"rmDirs", "finished"} BY <1>0, NothingLeft
<1>2. ~ \E w \in Workers : wpc[w] = "remove" /\ hand[w] = p BY <1>0, NotRemoved
<1>3. p \notin Dirs(in0) BY <1>0, InputParts DEF Files, Dirs
<1>4. ~ \E d \in IDirSet : p = d \/ p \in Above(d)
  BY <1>0, <1>3, DirsAbove DEF Known
<1> QED BY <1>0, <1>1, <1>2, <1>4, OutputChanges DEF Removes

\* Within a run a file that was taken care of is taken care of.
LEMMA HandledStep ==
    ASSUME Picture, Protocol, Known, Present, [Next]_vars, ~ScanInput, ~(Kill \/ Rerun),
           Undisturbed, misled' = {}, Workers # {}, phase # "scanIn",
           NEW p \in Files(inp)', Handled(p)
    PROVE  Handled(p)'
<1>0. /\ Flow /\ Ownership /\ Typed /\ p \in Path /\ UNCHANGED <<in0, out0, opts>>
      /\ inp \in [Path -> Node] /\ wpc \in [Workers -> WorkerPCs] /\ SafePrefix
      /\ misled = {} /\ in0 \in [Path -> Node] /\ hand \in [Workers -> Seq(Name)]
  BY InputChanges DEF Picture, Flow, Ownership, Typed, TypeOK, TreesOK, Tree, WorkersOK,
                      Files, Undisturbed
<1>1. p \in Files(inp) /\ inp'[p] = inp[p] /\ inp[p] = in0[p] /\ in0[p].from = "in"
  BY <1>0, InputShrinks, InputParts
<1>2. ASSUME NEW w \in Workers, WritesTo(w, p) PROVE Handled(p)'
  <2>1. CASE Renames(w)
    <3>1. inp'[p] = Absent BY <1>0, <1>2, <2>1 DEF Renames, WritesTo
    <3> QED BY <3>1 DEF Files, Absent
  <2>2. CASE Truncates(w)
    <3>1. wpc'[w] = "copying" /\ hand'[w] = p
      BY <1>0, <1>2, <2>2 DEF Truncates, WritesTo
    <3> QED BY <3>1 DEF Handled, Unowned, WorkerHolds
  <2>3. CASE Fills(w)
    <3>1. out'[p] = Copied(inp[p])
      BY <1>0, <1>2, <2>3, WritesInput DEF Truncates, Renames, Fills
    <3>2. Copied(inp[p]).from = "in" BY <1>0, <1>1 DEF Copied, Node
    <3> QED BY <3>1, <3>2 DEF Handled, Settled
  <2> QED BY <1>2, <2>1, <2>2, <2>3 DEF WritesTo
<1>3. ASSUME ~ \E w \in Workers : WritesTo(w, p), Settled(p) PROVE Handled(p)'
  <2>1. CASE <<"copy", p>> \in errors
    BY <1>0, <2>1, ErrorsGrow DEF Handled, Settled
  <2>2. CASE out[p].from = "in" \/ Skippable(p)
    <3>1. p \in Files(out)
      <4>1. Copied(in0[p]).kind = "file" /\ in0[p].kind = "file"
        BY <1>0, <1>1 DEF Copied, Node, Files
      <4> QED BY <1>0, <2>2, <4>1 DEF Known, Skippable, Files
    <3>2. out'[p] = out[p] BY <1>0, <1>1, <1>3, <3>1, Spared
    <3> QED BY <1>0, <2>2, <3>2 DEF Handled, Settled, Skippable, Files
  <2> QED BY <1>3, <2>1, <2>2 DEF Settled
<1>4. ASSUME ~ \E w \in Workers : WritesTo(w, p), ~Unowned(p), ~Settled(p)
      PROVE  Handled(p)'
  <2>1. out'[p] = out[p] BY <1>0, <1>1, <1>4, OwnedUntouched
  <2>2. ASSUME NEW w \in Workers, Worker(w), WorkerHolds(w), hand[w] = p, ~WorkerHolds(w)'
        PROVE  Handled(p)'
    BY <1>0, <1>1, <1>4, <2>2, WorkerGivesUp DEF Handled, Settled
  <2>3. ASSUME NEW w \in Workers, wpc[w] = "copying", hand[w] = p, ~Unowned(p)'
        PROVE  Handled(p)'
    <3>1. hand'[w] = p /\ (wpc'[w] = "copying" \/ (Worker(w) /\ ~WorkerHolds(w)'))
      <4>1. CASE Main
        BY <1>0, <2>3, <4>1, MainKeeps, MainPhases DEF Spawn, Ownership, NotStarted
      <4>2. ASSUME NEW v \in Workers, Worker(v)
            PROVE  hand'[w] = p /\ (wpc'[w] = "copying" \/ (v = w /\ ~WorkerHolds(w)'))
        <5>1. CASE v # w
          BY <1>0, <2>3, <4>2, <5>1, WorkerMoves DEF Takes, Fails, Writes, Counts, GoesOn
        <5>2. CASE v = w
          BY <1>0, <2>3, <4>2, <5>2
             DEF Worker, WorkerLoop, WorkerCheckCopy, WorkerCheckDelete, PopCopy, Rename,
                 CopyBegin, CopyEnd, CopyError, Count, PopDelete, RemoveFile, WorkerHolds
        <5> QED BY <5>1, <5>2
      <4> QED BY <2>3, <4>1, <4>2, SorterKeeps, StutterKeeps DEF Next
    <3>2. CASE wpc'[w] = "copying" BY <2>3, <3>1, <3>2 DEF Handled
    <3>3. CASE Worker(w) /\ ~WorkerHolds(w)' BY <2>2, <2>3, <3>3 DEF WorkerHolds
    <3> QED BY <3>1, <3>2, <3>3
  <2>4. ASSUME Fresh(p), ~Unowned(p)' PROVE Handled(p)'
    BY <1>0, <2>1, <2>4 DEF Handled, Fresh
  <2>5. ASSUME Unowned(p)' PROVE Handled(p)'
    <3>1. ASSUME NEW s \in Sorters, Sorter(s), Compare(s), sfile[s] = p, spc'[s] # "push"
          PROVE  Handled(p)'
      <4>1. ~ \E w \in Workers : wpc[w] = "copying" /\ hand[w] = p
        BY <1>0, <3>1 DEF Ownership, Owned, SorterHolds, WorkerHolds, Compare
      <4>2. Fresh(p) BY <1>4, <4>1 DEF Handled, Fresh, Settled
      <4>3. out[p].from = "in" \/ Skippable(p) BY <1>0, <3>1, <4>2, SkipEntitled
      <4> QED BY <1>0, <2>1, <4>3 DEF Handled, Settled, Skippable, Files
    <3> QED BY <1>0, <1>4, <2>2, <2>5, <3>1, LetGo
  <2> QED BY <1>4, <2>3, <2>4, <2>5 DEF Handled
<1> QED BY <1>2, <1>3, <1>4 DEF Handled


\* What the theorems about the end of a run rest on.
Accounted == Picture /\ DataKept /\ Protocol /\ Known /\ DirsArrive /\ Present /\ Progress

\* Every step takes care of every input file.
LEMMA ProgressNext == Picture /\ Protocol /\ Known /\ Present /\ Progress /\ [Next]_vars => Progress'
<1> SUFFICES ASSUME Picture, Protocol, Known, Present, Progress, [Next]_vars,
                    Undisturbed', clean', Workers # {}, NEW p \in Files(inp)'
             PROVE  Handled(p)'
  BY DEF Progress
<1>0. /\ Flow /\ Undisturbed /\ misled' = {} /\ p \in Path /\ p \in Files(inp)
      /\ UNCHANGED <<in0, out0, opts>>
  BY InputShrinks, InputChanges, MisledGrows
     DEF Picture, Files, Undisturbed, SafePrefix
<1>1. CASE Kill \/ Rerun
  <2>1. clean /\ errors = {} /\ phase = "finished" BY <1>1 DEF Kill, Rerun
  <2>2. Handled(p) BY <1>0, <2>1 DEF Progress
  <2>3. Settled(p) BY <1>0, <2>1, <2>2, NothingLeft DEF Handled
  <2>4. Fresh(p) BY <2>1, <2>3 DEF Settled, Fresh, Skippable
  <2>5. phase' = "scanIn" /\ Fresh(p)' BY <1>0, <1>1, <2>4, RestartKeeps DEF Restart, Fresh
  <2> QED BY <2>5 DEF Handled
<1>2. CASE ~(Kill \/ Rerun)
  <2>1. UNCHANGED clean
    BY <1>2, MainKeeps, SorterKeeps, WorkerKeeps, StutterKeeps DEF Next
  <2>2. Handled(p) BY <1>0, <2>1 DEF Progress
  <2>3. ASSUME phase = "scanIn" PROVE Fresh(p)
    <3>1. errors = {} /\ IFilesSet = IFilesSet BY <1>0, <2>3 DEF Flow, Ownership, NotStarted
    <3>2. \A w \in Workers : wpc[w] # "copying"
      BY <1>0, <2>3 DEF Flow, Ownership, NotStarted
    <3> QED BY <2>2, <3>1, <3>2 DEF Handled, Settled, Fresh, Skippable
  <2>4. CASE ScanInput
    <3>1. phase' = "scanOut" /\ UNCHANGED out BY <2>4 DEF ScanInput
    <3>2. p \in Range(IFilesSet')
      BY <1>0, <3>1, PictureNext DEF Picture, Complete
    <3>3. Fresh(p)' BY <1>0, <2>3, <2>4, <3>1 DEF ScanInput, Fresh
    <3> QED BY <3>2, <3>3 DEF Handled, Unowned
  <2>5. CASE ~ScanInput /\ phase # "scanIn"
    BY <1>0, <1>2, <2>2, <2>5, HandledStep
  <2>6. CASE ~ScanInput /\ phase = "scanIn"
    <3>1. UNCHANGED vars \/ Terminated
      <4>1. ASSUME NEW s \in Sorters, Sorter(s) PROVE FALSE
        BY <1>0, <2>6, <4>1
           DEF Flow, Ownership, NotStarted, Sorter, SorterLoop, SorterPop, FindBegin,
               FindEnd, Compare, Push, Account, EraseBegin, EraseEnd
      <4>2. ASSUME NEW w \in Workers, Worker(w) PROVE FALSE
        BY <1>0, <2>6, <4>2
           DEF Flow, Ownership, NotStarted, Worker, WorkerLoop, WorkerCheckCopy,
               WorkerCheckDelete, PopCopy, Rename, CopyBegin, CopyEnd, Count, PopDelete,
               RemoveFile
      <4>3. CASE Main
        BY <2>6, <4>3 DEF Main, ScanOutput, HandleDir, Spawn, JoinSorters, QueueDelete,
                          SetDone, JoinWorkers, RemoveDir, Finish
      <4> QED BY <1>2, <4>1, <4>2, <4>3 DEF Next
    <3> QED BY <2>3, <2>6, <3>1, StutterKeeps DEF Handled, Fresh
  <2> QED BY <2>4, <2>5, <2>6
<1> QED BY <1>1, <1>2

\* At the start nothing is done, and nothing has gone wrong.
LEMMA AccountedInit == Init => Accounted
<1> SUFFICES ASSUME Init PROVE Accounted
  OBVIOUS
<1>1. DataKept /\ Protocol /\ DirsArrive
  BY DEF Init, InitRun, DataKept, Moved, Protocol, DirsArrive
<1>2. Known BY TreeAssumption DEF Init, InitRun, Known
<1>3. Present BY DEF Init, InitRun, Present, TakenForFile
<1>4. Progress BY DEF Init, InitRun, Progress, Handled, Fresh
<1> QED BY <1>1, <1>2, <1>3, <1>4, PictureInit DEF Accounted

\* Every step keeps all of this.
LEMMA AccountedNext == Accounted /\ [Next]_vars => Accounted'
<1> SUFFICES ASSUME Accounted, [Next]_vars PROVE Accounted'
  OBVIOUS
<1>1. Typed BY DEF Accounted, Picture, Flow, Ownership
<1> QED BY <1>1, PictureNext, DataKeptNext, ProtocolNext, KnownNext, DirsArriveNext,
           PresentNext, ProgressNext DEF Accounted

\* When Copy returns, every input file is accounted for and every input
\* directory is there.
THEOREM AllFilesAccounted == Spec => []EveryFileAccounted
<1>1. Accounted => EveryFileAccounted
  <2> SUFFICES ASSUME Accounted, phase = "finished", Undisturbed, Rematched, clean,
                      Workers # {}
               PROVE  /\ \A p \in Files(in0) : Settled(p)
                      /\ "mkdir" \notin Faults =>
                            \A d \in Dirs(in0) : Creatable(out0, d) => d \in Dirs(out)
    BY DEF EveryFileAccounted, Settled
  <2>0. Flow /\ misled = {} /\ SafePrefix
    BY DEF Accounted, Picture, Undisturbed
  <2>1. ASSUME NEW p \in Files(in0) PROVE Settled(p)
    <3>1. p \in Path BY DEF Files
    <3>2. CASE p \in Files(inp)
      <4>1. Handled(p) BY <3>2 DEF Accounted, Progress
      <4> QED BY <2>0, <3>1, <4>1, NothingLeft DEF Handled, Accounted
    <3>3. CASE p \notin Files(inp)
      <4>1. Moved(p) BY <3>3 DEF Moved, Files
      <4>2. out[p] = in0[p] BY <2>0, <3>1, <4>1 DEF Accounted, DataKept
      <4>3. in0[p].from = "in"
        BY <2>0, <3>1, TreeAssumption DEF Flow, InputKept, Files
      <4> QED BY <4>2, <4>3 DEF Settled
    <3> QED BY <3>2, <3>3
  <2>2. IDirSet = {} BY DEF Accounted, Picture, Shelter, Preparing
  <2> QED BY <2>0, <2>1, <2>2 DEF Accounted, DirsArrive
<1> QED BY <1>1, AccountedInit, AccountedNext, PTL DEF Spec
-----------------------------------------------------------------------------
(***************************************************************************)
(* The second run                                                          *)
(***************************************************************************)

\* What Idempotent is about: every earlier run went well, and a copy is not
\* older than its original.
SecondRun ==
    /\ run > 1 /\ clean /\ Undisturbed /\ Workers # {}
    /\ ~opts.force /\ ~opts.overwriteexisting
    /\ CopyKeepsTime \/ \A p \in Files(in0) : in0[p].time <= Now

NothingQueued ==
    filesToCopy = 0 /\ copyQueue = <<>> /\ \A s \in Sorters : spc[s] # "account"

\* Every file that is left in the input tree is skipped.
Idle == SecondRun => NothingQueued /\ \A p \in Files(inp) : Skipped(p)

\* What a clean run leaves of an input file and its copy is no reason to copy
\* it again.
LEMMA SettledCurrent ==
    ASSUME Accounted, phase = "finished", clean, errors = {}, Undisturbed,
           Workers # {}, ~opts.force, ~opts.overwriteexisting,
           CopyKeepsTime \/ \A q \in Files(in0) : in0[q].time <= Now,
           NEW p \in Files(inp)
    PROVE  Current(p)
<1>0. /\ Flow /\ p \in Path /\ in0 \in [Path -> Node] /\ out0 \in [Path -> Node]
      /\ inp[p] = in0[p] /\ p \in Files(in0)
  BY InputParts DEF Accounted, Picture, Flow, Ownership, Typed, TypeOK, TreesOK, Tree, Files
<1>1. out[p].from = "in" \/ Skippable(p)
  <2>1. Handled(p) BY DEF Accounted, Progress
  <2> QED BY <1>0, <2>1, NothingLeft DEF Handled, Settled, Accounted
<1>2. in0[p] \in Node /\ out0[p] \in Node BY <1>0
<1>3. CASE out[p].from = "in"
  <2>1. out[p] \in {in0[p], Copied(in0[p])} BY <1>0, <1>3 DEF Accounted, Known
  <2>2. /\ out[p].kind = in0[p].kind /\ out[p].size = in0[p].size
        /\ out[p].time = in0[p].time \/ (out[p].time = Now /\ in0[p].time <= Now)
    BY <1>0, <1>2, <2>1 DEF Copied, Node
  <2>3. p \in Files(out) BY <1>0, <2>2 DEF Files
  <2>4. FileSize(inp, p) = FileSize(out, p) BY <1>0, <2>2 DEF FileSize
  <2>5. ~(inp[p].time > out[p].time) BY <1>0, <1>2, <2>2 DEF Node
  <2> QED BY <2>3, <2>4, <2>5 DEF Current, MustCopy
<1>4. CASE Skippable(p)
  <2>1. p \in Files(out) /\ out[p] = out0[p] BY <1>0, <1>4 DEF Skippable, Files
  <2>2. \/ in0[p].time < out0[p].time
        \/ in0[p].time = out0[p].time /\ in0[p].size = out0[p].size
    BY <1>4 DEF Skippable
  <2>3. ~(inp[p].time > out[p].time) BY <1>0, <1>2, <2>1, <2>2 DEF Node
  <2>4. inp[p].time = out[p].time => FileSize(inp, p) = FileSize(out, p)
    BY <1>0, <1>2, <2>1, <2>2 DEF FileSize, Files, Node
  <2> QED BY <2>1, <2>3, <2>4 DEF Current, MustCopy
<1> QED BY <1>1, <1>3, <1>4

\* While every input file is skipped nothing is queued or announced.
LEMMA NothingQueuedStep ==
    ASSUME Flow, [Next]_vars, ~(Kill \/ Rerun), NothingQueued,
           \A p \in Files(inp) : Skipped(p)
    PROVE  NothingQueued'
<1>0. spc \in [Sorters -> SorterPCs] /\ Typed
  BY DEF Flow, Ownership, Typed, TypeOK, SortersOK
<1>1. CASE Main
  <2>1. UNCHANGED <<filesToCopy, copyQueue>> BY <1>1 DEF Main, mainFrame, counters
  <2> QED BY <1>1, <2>1, MainPhases DEF Spawn, NothingQueued
<1>2. ASSUME NEW s \in Sorters, Sorter(s) PROVE NothingQueued'
  <2>1. ~Push(s)
    <3> SUFFICES ASSUME Push(s) PROVE FALSE
      OBVIOUS
    <3>1. sfile[s] \in Path /\ spc[s] = "push" BY <1>0 DEF Push, Typed, TypeOK, HoldsPath
    <3>2. sfile[s] \in Files(inp)
      BY <3>1 DEF Flow, FilesHeld, Unowned, SorterHolds
    <3> QED BY <3>1, <3>2 DEF Skipped
  <2>2. ~Account(s) BY DEF Account, NothingQueued
  <2>3. \E l \in SorterPCs \ {"account"} : spc' = [spc EXCEPT ![s] = l]
    BY <1>2, <2>1, <2>2
       DEF Sorter, SorterLoop, SorterPop, FindBegin, FindEnd, Compare, EraseBegin,
           EraseEnd, SorterPCs
  <2>4. UNCHANGED <<filesToCopy, copyQueue>>
    BY <1>2, <2>1, <2>2
       DEF Sorter, SorterLoop, SorterPop, FindBegin, FindEnd, Compare, EraseBegin, EraseEnd
  <2> QED BY <1>0, <2>3, <2>4 DEF NothingQueued
<1>3. ASSUME NEW w \in Workers, Worker(w) PROVE NothingQueued'
  <2>1. UNCHANGED <<filesToCopy, spc>> BY <1>3, WorkerKeeps DEF Worker, workerFrame
  <2>2. UNCHANGED copyQueue
    BY <1>0, <1>3, WorkerMoves DEF NothingQueued, Takes, Fails, Writes, Counts, GoesOn
  <2> QED BY <2>1, <2>2 DEF NothingQueued
<1>4. CASE UNCHANGED vars \/ Terminated
  BY <1>4 DEF Terminated, vars, queues, counters, sorting, NothingQueued
<1> QED BY <1>1, <1>2, <1>3, <1>4 DEF Next

\* Every step keeps a second run idle.
LEMMA IdleNext == Accounted /\ Idle /\ [Next]_vars => Idle'
<1> SUFFICES ASSUME Accounted, Idle, [Next]_vars, SecondRun'
             PROVE  NothingQueued' /\ \A p \in Files(inp)' : Skipped(p)'
  BY DEF Idle
<1>0. /\ Flow /\ Picture /\ Undisturbed /\ misled' = {} /\ UNCHANGED <<in0, out0, opts>>
      /\ ~opts.force /\ ~opts.overwriteexisting /\ Workers # {} /\ clean'
      /\ CopyKeepsTime \/ \A q \in Files(in0) : in0[q].time <= Now
  BY InputChanges, MisledGrows
     DEF Accounted, Picture, SecondRun, Undisturbed, SafePrefix, Files
<1>1. CASE Kill \/ Rerun
  <2>1. clean /\ errors = {} /\ phase = "finished" BY <1>0, <1>1 DEF Kill, Rerun
  <2>2. NothingQueued' BY <1>1, RestartKeeps DEF Restart, NothingQueued
  <2>3. ASSUME NEW p \in Files(inp)' PROVE Skipped(p)'
    <3>1. p \in Files(inp) /\ p \in Path BY <1>1, RestartKeeps DEF Files
    <3>2. Current(p) BY <1>0, <2>1, <3>1, SettledCurrent
    <3> QED BY <1>0, <1>1, <3>1, <3>2, SkippedRestart
  <2> QED BY <2>2, <2>3
<1>2. CASE ~(Kill \/ Rerun)
  <2>1. UNCHANGED <<run, clean>>
    BY <1>2, DeletingStays, MainKeeps, SorterKeeps, WorkerKeeps, StutterKeeps DEF Next
  <2>2. SecondRun BY <1>0, <2>1 DEF SecondRun
  <2>3. NothingQueued' BY <1>0, <1>2, <2>2, NothingQueuedStep DEF Idle
  <2>4. ASSUME NEW p \in Files(inp)' PROVE Skipped(p)'
    <3>1. p \in Path BY DEF Files
    <3>2. p \in Files(inp) BY <1>0, <3>1, InputShrinks
    <3> QED BY <1>0, <1>2, <2>2, <3>1, <3>2, SkippedStep DEF Idle
  <2> QED BY <2>3, <2>4
<1> QED BY <1>1, <1>2

\* Started again after clean runs, Copy queues and announces nothing.
THEOREM SecondRunIdle == Spec => []Idempotent
<1>1. Init => Idle BY DEF Init, Idle, SecondRun
<1>2. Idle => Idempotent BY DEF Idle, Idempotent, SecondRun, NothingQueued
<1> QED BY <1>1, <1>2, AccountedInit, AccountedNext, IdleNext, PTL DEF Spec
-----------------------------------------------------------------------------
(***************************************************************************)
(* The bytes that the monitor reports                                      *)
(***************************************************************************)

\* What TotalsAgree excludes does not happen.
Quietly == ~opts.move /\ "race" \notin misled /\ SafePrefix /\ "stat" \notin Faults

\* A file that is written and not yet counted has no owner, is with one worker
\* only and has not failed; without a race it is not taken for unmatched.
Written ==
    \A w \in Workers : wpc[w] = "count" =>
        /\ hand[w] \in Path /\ Unowned(hand[w]) /\ <<"copy", hand[w]>> \notin errors
        /\ \A v \in Workers : wpc[v] = "count" /\ hand[v] = hand[w] => v = w
        /\ "race" \notin misled => Struck(hand[w])

\* Its destination is there while it is written, and then it is the copy.
Delivered ==
    Quietly => \A w \in Workers :
        /\ wpc[w] = "copying" => out[hand[w]].kind = "file"
        /\ wpc[w] = "count" => out[hand[w]] = Copied(inp[hand[w]])

\* How a worker comes to count, and to write: it had the file already.
LEMMA CountsAfter ==
    ASSUME Typed, [Next]_vars, NEW w \in Workers, wpc'[w] \in {"copying", "count"}
    PROVE  /\ hand'[w] = hand[w] /\ ~(Kill \/ Rerun) /\ wpc[w] # "unborn"
           /\ \/ wpc[w] = wpc'[w]
              \/ Worker(w) /\ WorkerHolds(w) /\ errors' = errors /\ Writes(w)
<1>0. wpc \in [Workers -> WorkerPCs] /\ hand \in [Workers -> Seq(Name)]
  BY DEF Typed, TypeOK, WorkersOK
<1>1. ~(Kill \/ Rerun) BY DEF Kill, Rerun, Restart
<1>2. CASE Main BY <1>0, <1>1, <1>2, MainKeeps, MainPhases DEF Spawn
<1>3. ASSUME NEW v \in Workers, Worker(v)
      PROVE  /\ hand'[w] = hand[w]
             /\ \/ wpc[w] = wpc'[w] 
                \/ Worker(w) /\ WorkerHolds(w) /\ errors' = errors /\ Writes(w)
  BY <1>0, <1>3, WorkerMoves DEF Takes, Fails, Writes, Counts, GoesOn, WorkerPCs
<1>4. wpc[w] = wpc'[w] => wpc[w] # "unborn" OBVIOUS
<1> QED BY <1>1, <1>2, <1>3, <1>4, SorterKeeps, StutterKeeps DEF Next, WorkerHolds

\* A file that has no owner and has not failed does not fail.
LEMMA NoLateError ==
    ASSUME Ownership, [Next]_vars, ~(Kill \/ Rerun), NEW p \in Path,
           Unowned(p), <<"copy", p>> \notin errors
    PROVE  <<"copy", p>> \notin errors'
<1>0. Typed BY DEF Ownership
<1>1. ASSUME NEW w \in Workers, Worker(w) PROVE <<"copy", p>> \notin errors'
  BY <1>0, <1>1, WorkerMoves
     DEF Takes, Fails, Writes, Counts, GoesOn, Unowned
<1> QED BY <1>1, MainKeeps, SorterKeeps, StutterKeeps DEF Next

\* Every step keeps written files apart from the others.
LEMMA WrittenNext == Picture /\ Written /\ [Next]_vars => Written'
<1> SUFFICES ASSUME Picture, Written, [Next]_vars, NEW w \in Workers, wpc'[w] = "count"
             PROVE  /\ hand'[w] \in Path /\ Unowned(hand[w])'
                    /\ <<"copy", hand'[w]>> \notin errors'
                    /\ \A v \in Workers : wpc'[v] = "count" /\ hand'[v] = hand'[w] => v = w
                    /\ "race" \notin misled' => Struck(hand[w])'
  BY DEF Written
<1>0. Flow /\ Ownership /\ Typed /\ Owned BY DEF Picture, Flow, Ownership
<1>1. /\ hand'[w] = hand[w] /\ ~(Kill \/ Rerun) /\ wpc[w] # "unborn"
      /\ \/ wpc[w] = "count"
         \/ Worker(w) /\ WorkerHolds(w) /\ errors' = errors /\ Writes(w)
  BY <1>0, CountsAfter
<1>2. PICK p \in Path : p = hand[w] /\ p = hand'[w]
  BY <1>0, <1>1 DEF Written, Typed, TypeOK, HoldsPath, WorkerHolds
<1>3. ~ScanInput /\ ~ScanOutput
  BY <1>0, <1>1 DEF ScanInput, ScanOutput, Ownership, NotStarted
<1>4. "race" \notin misled' => Struck(p)'
  <2>1. "race" \notin misled => Struck(p)
    BY <1>1, <1>2 DEF Written, Picture, Matching, Pushed
  <2> QED BY <1>0, <1>3, <2>1, MisledGrows, StaysStruck
<1> SUFFICES /\ Unowned(p)' /\ <<"copy", p>> \notin errors'
             /\ \A v \in Workers : wpc'[v] = "count" /\ hand'[v] = p => v = w
  BY <1>2, <1>4
<1>5. CASE wpc[w] = "count"
  <2>1. Unowned(p) /\ <<"copy", p>> \notin errors BY <1>2, <1>5 DEF Written
  <2>2. Unowned(p)' BY <1>0, <1>3, <2>1, NothingEnters
  <2>3. <<"copy", p>> \notin errors' BY <1>0, <1>1, <2>1, NoLateError
  <2>4. ASSUME NEW v \in Workers, wpc'[v] = "count", hand'[v] = p PROVE v = w
    <3>1. hand[v] = p /\ (wpc[v] = "count" \/ WorkerHolds(v))
      BY <1>0, <2>4, CountsAfter
    <3> QED BY <1>2, <1>5, <2>1, <3>1 DEF Written, Unowned
  <2> QED BY <2>2, <2>3, <2>4
<1>6. CASE wpc[w] # "count"
  <2>1. Worker(w) /\ WorkerHolds(w) /\ errors' = errors /\ Writes(w) BY <1>1, <1>6
  <2>2. ~Unowned(p) BY <1>2, <2>1 DEF Unowned
  <2>3. <<"copy", p>> \notin errors' BY <1>0, <2>1, <2>2 DEF Owned
  <2>4. ASSUME NEW v \in Workers, wpc'[v] = "count", hand'[v] = p PROVE v = w
    <3>1. hand[v] = p /\ (wpc[v] = "count" \/ WorkerHolds(v))
      BY <1>0, <2>4, CountsAfter
    <3> QED BY <1>0, <1>2, <2>1, <2>2, <3>1 DEF Written, Owned
  <2>5. Unowned(p)'
    <3>1. UNCHANGED <<IFilesSet, copyQueue, spc, sfile, hand>>
      BY <2>1, WorkerKeeps DEF Writes
    <3>2. \A v \in Workers : WorkerHolds(v)' => WorkerHolds(v) /\ v # w
      BY <1>0, <2>1 DEF Writes, WorkerHolds, Typed, TypeOK, WorkersOK
    <3> QED BY <1>0, <1>2, <2>1, <3>1, <3>2 DEF Unowned, Owned, SorterHolds
  <2> QED BY <2>3, <2>4, <2>5
<1> QED BY <1>5, <1>6


\* Nothing but its own worker touches the destination of a file that is being
\* written, and nothing at all before it is counted.
LEMMA DeliveredNext == Picture /\ Protocol /\ Written /\ Delivered /\ [Next]_vars => Delivered'
<1> SUFFICES ASSUME Picture, Protocol, Written, Delivered, [Next]_vars, Quietly',
                    NEW w \in Workers, wpc'[w] \in {"copying", "count"}
             PROVE  /\ wpc'[w] = "copying" => out'[hand'[w]].kind = "file"
                    /\ wpc'[w] = "count" => out'[hand'[w]] = Copied(inp'[hand'[w]])
  BY DEF Delivered
<1>0. Flow /\ Ownership /\ Typed /\ Owned BY DEF Picture, Flow, Ownership
<1>1. Quietly /\ UNCHANGED <<inp, opts>>
  BY InputChanges, MisledGrows DEF Quietly, SafePrefix, Renames
<1>2. /\ hand'[w] = hand[w] /\ wpc[w] # "unborn" /\ ~(Kill \/ Rerun)
      /\ wpc[w] = wpc'[w] \/ (Worker(w) /\ WorkerHolds(w) /\ Writes(w))
  BY <1>0, CountsAfter
<1>3. PICK p \in Path : p = hand[w] /\ p = hand'[w]
  BY <1>0, <1>2 DEF Written, Typed, TypeOK, HoldsPath, WorkerHolds
<1> DEFINE Busy == wpc[w] \in {"copying", "count"}
<1>4. ASSUME Busy, out'[p] # out[p] PROVE \E v \in Workers : WritesTo(v, p)
  <2>1. phase \notin {"scanIn", "scanOut", "dirs", "rmDirs", "finished"}
    BY <1>0, <1>4 DEF Ownership, NotStarted, Flow, Joined, WorkersJoined
  <2>2. ASSUME NEW v \in Workers, Removes(v), hand[v] = p PROVE FALSE
    <3>1. p \in OFilesSet /\ phase # "sort"
      BY <1>1, <2>2, RemovesUnmatched DEF Removes, Quietly
    <3>2. Struck(p)
      BY <1>1, <1>3, <1>4 DEF Written, Quietly, Picture, Matching, Pushed, WorkerHolds
    <3>3. \A s \in Sorters : spc[s] = "done"
      BY <1>0, <2>1, <3>1 DEF Typed, TypeOK, ControlOK, Phases, Protocol
    <3> QED BY <3>1, <3>2, <3>3 DEF Struck, WillErase
  <2> QED BY <1>0, <1>4, <2>1, <2>2, OutputChanges
<1>5. ASSUME NEW v \in Workers, WritesTo(v, p), Busy
      PROVE  wpc[w] = "copying" /\ v = w /\ Fills(w)
  <2>1. ~Unowned(p) /\ WorkerHolds(v) /\ hand[v] = p
    BY <1>0, <1>5, WritesInput DEF WritesTo
  <2>2. wpc[w] = "copying" BY <1>3, <1>5, <2>1 DEF Written
  <2>3. v = w BY <1>0, <1>3, <2>1, <2>2 DEF Owned, WorkerHolds
  <2> QED BY <1>5, <2>2, <2>3 DEF WritesTo, Renames, Truncates
<1>6. CASE wpc[w] = wpc'[w]
  <2>1. out'[p] = out[p]
    <3> SUFFICES ASSUME out'[p] # out[p] PROVE FALSE
      OBVIOUS
    <3>1. wpc[w] = "copying" /\ Fills(w) BY <1>4, <1>5, <1>6
    <3> QED BY <1>0, <1>6, <3>1 DEF Fills, Typed, TypeOK, WorkersOK
  <2> QED BY <1>1, <1>3, <1>6, <2>1 DEF Delivered
<1>7. CASE wpc[w] # wpc'[w]
  <2>1. Worker(w) /\ WorkerHolds(w) BY <1>2, <1>7
  <2>2. \/ wpc[w] = "copy" /\ wpc'[w] = "copying"
        \/ wpc[w] = "copying" /\ wpc'[w] = "count"
    <3>1. ~opts.move /\ wpc \in [Workers -> WorkerPCs] /\ wpc[w] \in {"copy", "copying"}
      BY <1>0, <1>1, <2>1 DEF Quietly, Typed, TypeOK, WorkersOK, WorkerHolds
    <3> QED BY <1>7, <2>1, <3>1
               DEF Worker, WorkerLoop, WorkerCheckCopy, WorkerCheckDelete, PopCopy,
                   Rename, CopyBegin, CopyEnd, CopyError, Count, PopDelete, RemoveFile
  <2>3. out \in [Path -> Node] BY <1>0 DEF Typed, TypeOK, TreesOK, Tree
  <2>4. CASE wpc[w] = "copy"
    <3>1. out'[p] = Torn
      BY <1>0, <1>1, <1>3, <2>1, <2>2, <2>3, <2>4
         DEF Worker, WorkerLoop, WorkerCheckCopy, WorkerCheckDelete, PopCopy, Rename,
             CopyBegin, CopyEnd, CopyError, Count, PopDelete, RemoveFile, Quietly,
             Typed, TypeOK, WorkersOK
    <3> QED BY <1>3, <2>2, <2>4, <3>1 DEF Torn, FileNode
  <2>5. CASE wpc[w] = "copying"
    <3>1. out[p].kind = "file" BY <1>1, <1>3, <2>5 DEF Delivered
    <3>2. out'[p] = Copied(inp[p])
      BY <1>0, <1>3, <2>1, <2>2, <2>3, <2>5, <3>1
         DEF Worker, WorkerLoop, WorkerCheckCopy, WorkerCheckDelete, PopCopy, Rename,
             CopyBegin, CopyEnd, CopyError, Count, PopDelete, RemoveFile,
             Typed, TypeOK, WorkersOK
    <3> QED BY <1>1, <1>3, <2>2, <2>5, <3>2
  <2> QED BY <2>2, <2>4, <2>5
<1> QED BY <1>6, <1>7

\* The size of every file before the first run.
Sz == [p \in Path |-> FileSize(in0, p)]

\* The files whose announcement is due, and those on the way to be counted or
\* failed.
Due == {p \in Path : \E s \in Sorters : spc[s] = "account" /\ sfile[s] = p}

Pending ==
    {p \in Path : \/ p \in Range(copyQueue)
                  \/ \E w \in Workers : /\ wpc[w] \in {"copy", "copying", "count"}
                                        /\ hand[w] = p
                  \/ <<"copy", p>> \in errors}

\* Conservation in bytes.
BytesBalance ==
    Quietly => \E x, y \in 0 .. SizeMod - 1 :
        /\ IsSum(Sz, Due, x) /\ IsSum(Sz, Pending, y)
        /\ Plus(bytesToCopy, x) = Plus(bytesCopied, y)

\* All this together.
Ledger == Picture /\ Protocol /\ Written /\ Delivered /\ BytesBalance

\* While -m is not used the sizes are those of the input tree.
LEMMA SizesOfInput ==
    ASSUME Flow
    PROVE  /\ Sz \in Sizes
           /\ ~opts.move => \A p \in Path : FileSize(inp, p) = Sz[p]
<1>1. in0 \in Tree BY DEF Flow, Ownership, Typed, TypeOK, TreesOK
<1>2. Sz \in Sizes BY <1>1, FileSizeType DEF Sz, Sizes
<1>3. ASSUME ~opts.move, NEW p \in Path PROVE FileSize(inp, p) = Sz[p]
  <2>1. inp[p] = in0[p] BY <1>3 DEF Flow, InputKept
  <2> QED BY <2>1 DEF Sz, FileSize
<1> QED BY <1>2, <1>3

\* Steps that move no bytes.
LEMMA BytesStay ==
    ASSUME BytesBalance, Quietly' => Quietly,
           UNCHANGED <<in0, bytesToCopy, bytesCopied>>, Due' = Due, Pending' = Pending
    PROVE  BytesBalance'
<1>1. Sz' = Sz BY DEF Sz, FileSize
<1> QED BY <1>1 DEF BytesBalance

\* Nothing is on the way when a process starts.
LEMMA BytesStart ==
    ASSUME Due = {}, Pending = {}, bytesToCopy = 0, bytesCopied = 0
    PROVE  BytesBalance
<1>1. 0 \in 0 .. SizeMod - 1 OBVIOUS
<1>2. IsSum(Sz, Due, 0) /\ IsSum(Sz, Pending, 0) BY EmptySum
<1> QED BY <1>1, <1>2 DEF BytesBalance



\* push_back: one more file is pending and one more announcement due.
LEMMA BytesPush ==
    ASSUME Flow, BytesBalance, Quietly' => Quietly,
           UNCHANGED <<in0, bytesToCopy, bytesCopied>>, NEW p \in Path,
           p \notin Due, p \notin Pending, Due' = Due \cup {p}, Pending' = Pending \cup {p}
    PROVE  BytesBalance'
<1> SUFFICES ASSUME Quietly
             PROVE  \E x, y \in 0 .. SizeMod - 1 :
                       /\ IsSum(Sz, Due \cup {p}, x) /\ IsSum(Sz, Pending \cup {p}, y)
                       /\ Plus(bytesToCopy, x) = Plus(bytesCopied, y)
  <2>1. Sz' = Sz BY DEF Sz, FileSize
  <2> QED BY <2>1 DEF BytesBalance
<1>1. PICK x, y \in 0 .. SizeMod - 1 : /\ IsSum(Sz, Due, x) /\ IsSum(Sz, Pending, y)
                                       /\ Plus(bytesToCopy, x) = Plus(bytesCopied, y)
  BY DEF BytesBalance
<1>2. Sz \in Sizes /\ Sz[p] \in 0 .. SizeMod - 1 BY SizesOfInput DEF Sizes
<1>3. /\ IsSum(Sz, Due \cup {p}, Plus(x, Sz[p]))
      /\ IsSum(Sz, Pending \cup {p}, Plus(y, Sz[p]))
  BY <1>1, <1>2, SumAdds
<1>4. bytesToCopy \in 0 .. SizeMod - 1 /\ bytesCopied \in 0 .. SizeMod - 1
  BY DEF Flow, Ownership, Typed, TypeOK, CountersOK
<1>5. Plus(bytesToCopy, Plus(x, Sz[p])) = Plus(bytesCopied, Plus(y, Sz[p]))
  BY <1>1, <1>2, <1>4, PlusLaws
<1>6. Plus(x, Sz[p]) \in 0 .. SizeMod - 1 /\ Plus(y, Sz[p]) \in 0 .. SizeMod - 1
  BY <1>1, <1>2, PlusMinus
<1> QED BY <1>3, <1>5, <1>6

\* _bytesToCopy += the size of a file whose announcement was due.
LEMMA BytesAnnounce ==
    ASSUME Flow, BytesBalance, Quietly' => Quietly, UNCHANGED <<in0, bytesCopied>>,
           NEW p \in Due, Due' = Due \ {p}, Pending' = Pending,
           Quietly => bytesToCopy' = (bytesToCopy + FileSize(inp, p)) % SizeMod
    PROVE  BytesBalance'
<1>0. p \in Path BY DEF Due
<1>1. /\ Sz' = Sz /\ Sz \in Sizes /\ Sz[p] \in 0 .. SizeMod - 1
      /\ bytesToCopy \in 0 .. SizeMod - 1
  <2>1. Sz' = Sz BY DEF Sz, FileSize
  <2> QED BY <1>0, <2>1, SizesOfInput
         DEF Sizes, Flow, Ownership, Typed, TypeOK, CountersOK
<1> SUFFICES ASSUME Quietly
             PROVE  \E x, y \in 0 .. SizeMod - 1 :
                       /\ IsSum(Sz, Due \ {p}, x) /\ IsSum(Sz, Pending, y)
                       /\ Plus(Plus(bytesToCopy, Sz[p]), x) = Plus(bytesCopied, y)
  <2>1. Quietly => bytesToCopy' = Plus(bytesToCopy, Sz[p])
    BY <1>0, <1>1, SizesOfInput, ModPlus DEF Quietly
  <2> QED BY <1>1, <2>1 DEF BytesBalance
<1>2. PICK x, y \in 0 .. SizeMod - 1 : /\ IsSum(Sz, Due, x) /\ IsSum(Sz, Pending, y)
                                       /\ Plus(bytesToCopy, x) = Plus(bytesCopied, y)
  BY DEF BytesBalance
<1>3. IsSum(Sz, Due \ {p}, Minus(x, Sz[p])) BY <1>0, <1>1, <1>2, SumDrops
<1>4. Minus(x, Sz[p]) \in 0 .. SizeMod - 1 BY <1>1, <1>2, PlusMinus
<1>5. Plus(Plus(bytesToCopy, Sz[p]), Minus(x, Sz[p])) = Plus(bytesToCopy, x)
  BY <1>1, <1>2, PlusLaws
<1> QED BY <1>2, <1>3, <1>4, <1>5

\* _bytesCopied += the size of the copy of a file that was pending.
LEMMA BytesCount ==
    ASSUME Flow, BytesBalance, Quietly' => Quietly, UNCHANGED <<in0, bytesToCopy>>,
           NEW p \in Pending, Pending' = Pending \ {p}, Due' = Due,
           Quietly => out[p] = Copied(inp[p]),
           Quietly => bytesCopied' = (bytesCopied + FileSize(out, p)) % SizeMod
    PROVE  BytesBalance'
<1>0. p \in Path BY DEF Pending
<1>1. /\ Sz' = Sz /\ Sz \in Sizes /\ Sz[p] \in 0 .. SizeMod - 1
      /\ bytesCopied \in 0 .. SizeMod - 1 /\ inp[p] \in Node
  <2>1. Sz' = Sz BY DEF Sz, FileSize
  <2> QED BY <1>0, <2>1, SizesOfInput
         DEF Sizes, Flow, Ownership, Typed, TypeOK, CountersOK, TreesOK, Tree
<1> SUFFICES ASSUME Quietly
             PROVE  \E x, y \in 0 .. SizeMod - 1 :
                       /\ IsSum(Sz, Due, x) /\ IsSum(Sz, Pending \ {p}, y)
                       /\ Plus(bytesToCopy, x) = Plus(Plus(bytesCopied, Sz[p]), y)
  <2>1. ASSUME Quietly PROVE FileSize(out, p) = FileSize(inp, p)
    BY <1>1, <2>1 DEF FileSize, Copied, Node
  <2>2. Quietly => bytesCopied' = Plus(bytesCopied, Sz[p])
    BY <1>0, <1>1, <2>1, SizesOfInput, ModPlus DEF Quietly
  <2> QED BY <1>1, <2>2 DEF BytesBalance
<1>2. PICK x, y \in 0 .. SizeMod - 1 : /\ IsSum(Sz, Due, x) /\ IsSum(Sz, Pending, y)
                                       /\ Plus(bytesToCopy, x) = Plus(bytesCopied, y)
  BY DEF BytesBalance
<1>3. IsSum(Sz, Pending \ {p}, Minus(y, Sz[p])) BY <1>0, <1>1, <1>2, SumDrops
<1>4. Minus(y, Sz[p]) \in 0 .. SizeMod - 1 BY <1>1, <1>2, PlusMinus
<1>5. Plus(Plus(bytesCopied, Sz[p]), Minus(y, Sz[p])) = Plus(bytesCopied, y)
  BY <1>1, <1>2, PlusLaws
<1> QED BY <1>2, <1>3, <1>4, <1>5


\* A sorter queues a file, and then announces it.
LEMMA BytesSorter ==
    ASSUME Ledger, NEW s \in Sorters, Sorter(s), Quietly' => Quietly
    PROVE  BytesBalance'
<1>0. /\ Flow /\ Typed /\ Owned /\ SortedOnce /\ Written /\ BytesBalance
      /\ spc \in [Sorters -> SorterPCs] /\ sfile \in [Sorters -> Path \cup {NoPath}]
      /\ NoPath \notin Path
  BY DEF Ledger, Picture, Flow, Ownership, Typed, TypeOK, SortersOK, NoPath
<1>1. UNCHANGED <<in0, bytesCopied, errors, wpc, hand>> BY SorterKeeps DEF Sorter, sorterFrame
<1>2. CASE Push(s)
  <2>1. PICK p \in Path : p = sfile[s]
    BY <1>0, <1>2 DEF Push, Typed, TypeOK, HoldsPath
  <2>2. p \notin Due BY <1>0, <1>2, <2>1 DEF Push, Due, SortedOnce
  <2>3. ~Unowned(p) /\ p \notin Range(copyQueue)
    BY <1>0, <1>2, <2>1 DEF Push, Unowned, Owned, SorterHolds
  <2>4. p \notin Pending
    BY <1>0, <1>2, <2>1, <2>3
       DEF Pending, Push, Written, Owned, SorterHolds, WorkerHolds
  <2>5. Range(copyQueue') = Range(copyQueue) \cup {p}
    BY <1>0, <1>2, <2>1, <2>3, PushBack DEF Push, Owned, Typed, TypeOK, QueuesOK
  <2>6. Pending' = Pending \cup {p} BY <1>1, <2>5 DEF Pending
  <2>7. Due' = Due \cup {p} BY <1>0, <1>2, <2>1 DEF Due, Push
  <2> QED BY <1>0, <1>1, <1>2, <2>2, <2>4, <2>6, <2>7, BytesPush DEF Push
<1>3. CASE Account(s)
  <2>1. PICK p \in Path : p = sfile[s]
    BY <1>0, <1>3 DEF Account, Typed, TypeOK, HoldsPath
  <2>2. p \in Due BY <1>3, <2>1 DEF Account, Due
  <2>3. Due' = Due \ {p} BY <1>0, <1>3, <2>1 DEF Account, Due, SortedOnce
  <2>4. Pending' = Pending BY <1>1, <1>3 DEF Account, Pending
  <2>5. Quietly => bytesToCopy' = (bytesToCopy + FileSize(inp, p)) % SizeMod
    BY <1>3, <2>1 DEF Account, FileSizes, Quietly
  <2> QED BY <1>0, <1>1, <2>2, <2>3, <2>4, <2>5, BytesAnnounce
<1>4. CASE ~Push(s) /\ ~Account(s)
  <2>1. /\ UNCHANGED <<copyQueue, bytesToCopy>> /\ spc[s] # "account"
        /\ \E l \in SorterPCs \ {"account"} : spc' = [spc EXCEPT ![s] = l]
        /\ \A r \in Sorters : r # s => sfile'[r] = sfile[r]
    BY <1>0, <1>4
       DEF Sorter, SorterLoop, SorterPop, FindBegin, FindEnd, Compare, EraseBegin,
           EraseEnd, SorterPCs
  <2>2. Pending' = Pending BY <1>1, <2>1 DEF Pending
  <2>3. Due' = Due BY <1>0, <2>1 DEF Due
  <2> QED BY <1>0, <1>1, <2>1, <2>2, <2>3, BytesStay
<1> QED BY <1>2, <1>3, <1>4

\* A worker has a file pending until it counts it; a failed one stays pending.
LEMMA BytesWorker ==
    ASSUME Ledger, NEW w \in Workers, Worker(w), Quietly' => Quietly
    PROVE  BytesBalance'
<1>0. /\ Flow /\ Typed /\ Owned /\ Written /\ Delivered /\ BytesBalance
      /\ wpc \in [Workers -> WorkerPCs] /\ hand \in [Workers -> Seq(Name)]
      /\ copyQueue \in Seq(Path)
  BY DEF Ledger, Picture, Flow, Ownership, Typed, TypeOK, WorkersOK, QueuesOK
<1>1. UNCHANGED <<in0, bytesToCopy, spc, sfile>> BY WorkerKeeps DEF Worker, workerFrame
<1>2. Due' = Due BY <1>1 DEF Due
<1>3. CASE Count(w)
  <2>1. PICK p \in Path : p = hand[w] BY <1>0, <1>3 DEF Count, Written
  <2>2. p \in Pending BY <1>3, <2>1 DEF Count, Pending
  <2>3. /\ p \notin Range(copyQueue) /\ <<"copy", p>> \notin errors
        /\ \A v \in Workers : wpc[v] \in {"copy", "copying", "count"} /\ hand[v] = p => v = w
    BY <1>0, <1>3, <2>1 DEF Count, Written, Unowned, WorkerHolds
  <2>4. Pending' = Pending \ {p}
    <3>1. wpc' = [wpc EXCEPT ![w] = "popDel"] /\ UNCHANGED <<copyQueue, hand, errors>>
      BY <1>3 DEF Count, queues
    <3>2. \A v \in Workers : wpc'[v] \in {"copy", "copying", "count"} <=>
                                wpc[v] \in {"copy", "copying", "count"} /\ v # w
      BY <1>0, <3>1
    <3>3. ASSUME NEW q \in Path PROVE q \in Pending' <=> q \in Pending /\ q # p
      BY <2>1, <2>3, <3>1, <3>2 DEF Pending
    <3>4. Pending \subseteq Path /\ Pending' \subseteq Path BY DEF Pending
    <3> QED BY <3>3, <3>4
  <2>5. Quietly => out[p] = Copied(inp[p]) BY <1>0, <1>3, <2>1 DEF Count, Delivered
  <2>6. Quietly => bytesCopied' = (bytesCopied + FileSize(out, p)) % SizeMod
    BY <1>3, <2>1 DEF Count, FileSizes, Quietly
  <2> QED BY <1>0, <1>1, <1>2, <2>2, <2>4, <2>5, <2>6, BytesCount
<1>4. CASE ~Count(w)
  <2>0. UNCHANGED bytesCopied
    BY <1>4 DEF Worker, WorkerLoop, WorkerCheckCopy, WorkerCheckDelete, PopCopy, Rename,
                CopyBegin, CopyEnd, PopDelete, RemoveFile
  <2>1. ~Counts(w)
    BY <1>0, <1>4 DEF Counts, Worker, WorkerLoop, WorkerCheckCopy, WorkerCheckDelete,
                      PopCopy, Rename, CopyBegin, CopyEnd, PopDelete, RemoveFile
  <2>2. CASE Takes(w)
    <3>1. Range(copyQueue) = Range(copyQueue') \cup {Head(copyQueue)}
      BY <1>0, <2>2, PopFront DEF Takes, Owned
    <3>2. hand' = [hand EXCEPT ![w] = Head(copyQueue)] /\ wpc' = [wpc EXCEPT ![w] = "copy"]
      BY <2>2 DEF Takes
    <3>3. wpc[w] \notin {"copy", "copying", "count"} /\ errors' = errors
      BY <2>2 DEF Takes, WorkerHolds
    <3>4. Pending' = Pending BY <1>0, <3>1, <3>2, <3>3 DEF Pending
    <3> QED BY <1>0, <1>1, <1>2, <2>0, <3>4, BytesStay
  <2>3. CASE Fails(w)
    <3>1. Pending' = Pending BY <1>0, <2>3 DEF Fails, Pending, WorkerHolds
    <3> QED BY <1>0, <1>1, <1>2, <2>0, <3>1, BytesStay
  <2>4. CASE Writes(w)
    <3>1. Pending' = Pending BY <1>0, <2>4 DEF Writes, Pending, WorkerHolds
    <3> QED BY <1>0, <1>1, <1>2, <2>0, <3>1, BytesStay
  <2>5. CASE GoesOn(w)
    <3>1. Pending' = Pending BY <1>0, <2>5 DEF GoesOn, Pending, WorkerHolds
    <3> QED BY <1>0, <1>1, <1>2, <2>0, <3>1, BytesStay
  <2> QED BY <1>0, <2>1, <2>2, <2>3, <2>4, <2>5, WorkerMoves
<1> QED BY <1>3, <1>4

\* Every step keeps the bytes balanced.
LEMMA LedgerNext == Ledger /\ [Next]_vars => Ledger'
<1> SUFFICES ASSUME Ledger, [Next]_vars PROVE Ledger'
  OBVIOUS
<1>0. Picture /\ Typed /\ Protocol /\ Written /\ Delivered /\ BytesBalance
  BY DEF Ledger, Picture, Flow, Ownership
<1>1. Quietly' => Quietly BY InputChanges, MisledGrows DEF Quietly, SafePrefix
<1>2. CASE Main
  <2>1. UNCHANGED <<in0, bytesToCopy, bytesCopied, copyQueue, errors, sfile, hand>>
    BY <1>2 DEF Main, mainFrame, history, counters
  <2>2. Due' = Due /\ Pending' = Pending
    <3>1. CASE UNCHANGED <<spc, wpc>> BY <2>1, <3>1 DEF Due, Pending
    <3>2. CASE Spawn
      <4>1. \A s \in Sorters : spc[s] # "account" /\ spc'[s] # "account"
        BY <1>0, <3>2 DEF Spawn, Picture, Flow, Ownership, NotStarted
      <4>2. \A w \in Workers : /\ wpc[w] \notin {"copy", "copying", "count"}
                               /\ wpc'[w] \notin {"copy", "copying", "count"}
        BY <1>0, <3>2 DEF Spawn, Picture, Flow, Ownership, NotStarted
      <4> QED BY <2>1, <4>1, <4>2 DEF Due, Pending
    <3> QED BY <1>2, <3>1, <3>2, MainPhases
  <2> QED BY <1>0, <1>1, <2>1, <2>2, BytesStay, PictureNext, ProtocolNext, WrittenNext,
             DeliveredNext DEF Ledger
<1>3. CASE Kill \/ Rerun
  <2>1. Due' = {} /\ Pending' = {} /\ bytesToCopy' = 0 /\ bytesCopied' = 0
    <3>1. Restart BY <1>3, RestartKeeps
    <3>2. Range(copyQueue') = {} BY <3>1, EmptyDeque DEF Restart
    <3> QED BY <3>1, <3>2 DEF Restart, Due, Pending
  <2>2. BytesBalance'
    <3>1. ASSUME NEW z \in 0 .. SizeMod - 1, z = 0
          PROVE  /\ IsSum(Sz', Due', z) /\ IsSum(Sz', Pending', z)
                 /\ Plus(bytesToCopy', z) = Plus(bytesCopied', z)
      BY <2>1, <3>1, EmptySum
    <3>2. 0 \in 0 .. SizeMod - 1 OBVIOUS
    <3> QED BY <3>1, <3>2 DEF BytesBalance
  <2> QED BY <1>0, <2>2, PictureNext, ProtocolNext, WrittenNext, DeliveredNext DEF Ledger
<1>4. CASE UNCHANGED vars \/ Terminated
  <2>1. UNCHANGED <<in0, bytesToCopy, bytesCopied, spc, sfile, copyQueue, wpc, hand, errors>>
    BY <1>4 DEF Terminated, vars, history, queues, counters, sorting, working
  <2>2. Due' = Due /\ Pending' = Pending BY <2>1 DEF Due, Pending
  <2> QED BY <1>0, <1>1, <2>1, <2>2, BytesStay, PictureNext, ProtocolNext, WrittenNext,
             DeliveredNext DEF Ledger
<1> QED BY <1>0, <1>1, <1>2, <1>3, <1>4, BytesSorter, BytesWorker, PictureNext,
           ProtocolNext, WrittenNext, DeliveredNext DEF Ledger, Next

\* When Copy returns without errors, the files reported as copied are those
\* announced, and so are the bytes if no status call fails (a failed file_size
\* adds size_t(-1)), though a size is announced after the file may have been
\* copied and the sums are kept modulo SizeMod.
THEOREM TotalsAlwaysAgree == Spec => []TotalsAgree
<1>1. Init => Ledger
  <2> SUFFICES ASSUME Init PROVE Ledger
    OBVIOUS
  <2>1. Protocol /\ Written /\ Delivered
    BY DEF Init, InitRun, Protocol, Written, Delivered
  <2>2. Due = {} BY DEF Init, InitRun, Due
  <2>3. Pending = {} BY EmptyDeque DEF Init, InitRun, Pending
  <2>4. BytesBalance BY <2>2, <2>3, BytesStart DEF Init, InitRun
  <2> QED BY <2>1, <2>4, PictureInit DEF Ledger
<1>2. Ledger /\ FilesAgree => TotalsAgree
  <2> SUFFICES ASSUME Ledger, FilesAgree, phase = "finished", errors = {}, Workers # {}
               PROVE  filesCopied = filesToCopy /\ (Quietly => bytesCopied = bytesToCopy)
    BY DEF TotalsAgree, Quietly
  <2>0. Flow /\ Protocol /\ Joined /\ SortersDrain BY DEF Ledger, Picture, Flow
  <2>1. Due = {} BY <2>0 DEF SortersDrain, SortersJoined, Due
  <2>2. \A p \in Path : p \notin Range(copyQueue) BY <2>0, NothingLeft DEF Unowned
  <2>3. Pending = {} BY <2>0, <2>2 DEF Joined, WorkersJoined, Pending
  <2>6. bytesToCopy \in 0 .. SizeMod - 1 /\ bytesCopied \in 0 .. SizeMod - 1
    BY <2>0 DEF Flow, Ownership, Typed, TypeOK, CountersOK
  <2>7. ASSUME Quietly PROVE bytesCopied = bytesToCopy
    <3>1. PICK x, y \in 0 .. SizeMod - 1 : /\ IsSum(Sz, Due, x) /\ IsSum(Sz, Pending, y)
                                           /\ Plus(bytesToCopy, x) = Plus(bytesCopied, y)
      BY <2>7 DEF Ledger, BytesBalance
    <3>2. x = 0 /\ y = 0 BY <2>1, <2>3, <3>1, EmptySumOnly
    <3> QED BY <2>6, <3>1, <3>2 DEF Plus
  <2>8. filesCopied = filesToCopy BY DEF FilesAgree, CopyErrors
  <2> QED BY <2>7, <2>8
<1> QED BY <1>1, <1>2, LedgerNext, FileTotalsAgree, PTL DEF Spec
=============================================================================
