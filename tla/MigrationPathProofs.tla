------------------------- MODULE MigrationPathProofs -------------------------
(***************************************************************************)
(* What the search for the directory of the migrations finds, for every    *)
(* working directory.                                                      *)
(***************************************************************************)
EXTENDS MigrationPath, WellFoundedInduction, SequenceTheorems, TLAPS

\* A set of natural numbers that is not empty has a least element.
LEMMA LeastNumber ==
    ASSUME NEW N \in SUBSET Nat, N # {}
    PROVE  \E n \in N : \A m \in N : n <= m
<1>1. PICK n \in N : \A m \in N : <<m, n>> \notin OpToRel(<, Nat)
  BY NatLessThanWellFounded, WFMin
<1>2. \A m \in N : ~ (m < n)
  BY <1>1, Zenon DEF OpToRel
<1> QED
  BY <1>2

\* Whatever overlaps there are, findLongestOverlap returns one of them, none is
\* longer, and of those as long none starts earlier.
LEMMA LongestFirst ==
    ASSUME NEW S, NEW cur \in Seq(S), NEW rel \in Seq(S), Overlaps(cur, rel) # {}
    PROVE  \E i, n :
               /\ <<i, n>> \in Overlaps(cur, rel)
               /\ findLongestOverlap(cur, rel) = <<i, i + n>>
               /\ \A j, k : <<j, k>> \in Overlaps(cur, rel) => n > k \/ (n = k /\ i <= j)
<1> DEFINE O       == Overlaps(cur, rel)
           Best(o) == \A p \in O : o[2] > p[2] \/ (o[2] = p[2] /\ o[1] <= p[1])
<1>1. \A o \in O : o[1] \in Nat /\ o[2] \in Nat /\ Len(rel) - o[2] \in Nat
  BY DEF Overlaps
<1>2. PICK o1 \in O : \A p \in O : Len(rel) - o1[2] <= Len(rel) - p[2]
  <2> DEFINE N == {Len(rel) - o[2] : o \in O}
  <2>1. N \in SUBSET Nat /\ N # {}
    BY <1>1
  <2>2. PICK n \in N : \A m \in N : n <= m
    BY <2>1, LeastNumber
  <2> QED
    BY <2>2
<1>3. \A p \in O : p[2] <= o1[2]
  BY <1>1, <1>2, Len(rel) \in Nat
<1>4. PICK o2 \in O : o2[2] = o1[2] /\ \A p \in O : p[2] = o1[2] => o2[1] <= p[1]
  <2> DEFINE N == {o[1] : o \in {p \in O : p[2] = o1[2]}}
  <2>1. N \in SUBSET Nat /\ N # {}
    BY <1>1
  <2>2. PICK n \in N : \A m \in N : n <= m
    BY <2>1, LeastNumber
  <2> QED
    BY <2>2
<1>5. Best(o2)
  BY <1>1, <1>3, <1>4
<1> DEFINE longest == CHOOSE o \in O : Best(o)
<1>6. longest \in O /\ Best(longest)
  BY <1>5
<1>7. findLongestOverlap(cur, rel) = <<longest[1], longest[1] + longest[2]>>
  BY DEF findLongestOverlap
<1> HIDE DEF longest
<1>8. <<longest[1], longest[2]>> \in O
  BY <1>6 DEF Overlaps
<1>9. ASSUME NEW j, NEW k, <<j, k>> \in O
      PROVE  longest[2] > k \/ (longest[2] = k /\ longest[1] <= j)
  BY <1>6, <1>9
<1> QED
  BY <1>7, <1>8, <1>9

-----------------------------------------------------------------------------
(* Absolute paths of a root and what is below it.                          *)

Absolute(root, below) == <<Slash>> \o root \o below

\* Sequences over a set are sequences over a larger one.
LEMMA SeqSubset ==
    ASSUME NEW S, NEW T, S \subseteq T, NEW s \in Seq(S)
    PROVE  s \in Seq(T)
<1>1. s \in [1 .. Len(s) -> T] /\ Len(s) \in Nat
  BY LenProperties
<1> QED
  BY <1>1, SeqDef

\* The elements of the concatenation of two sequences and of three.
LEMMA ConcatElements ==
    ASSUME NEW S, NEW s \in Seq(S), NEW t \in Seq(S)
    PROVE  /\ s \o t \in Seq(S)
           /\ Len(s \o t) = Len(s) + Len(t)
           /\ \A i \in 1 .. Len(s) : (s \o t)[i] = s[i]
           /\ \A i \in 1 .. Len(t) : (s \o t)[Len(s) + i] = t[i]
OBVIOUS

LEMMA ConcatThree ==
    ASSUME NEW S, NEW s \in Seq(S), NEW t \in Seq(S), NEW u \in Seq(S)
    PROVE  /\ s \o t \o u \in Seq(S)
           /\ Len(s \o t \o u) = Len(s) + Len(t) + Len(u)
           /\ \A i \in 1 .. Len(s) : (s \o t \o u)[i] = s[i]
           /\ \A i \in 1 .. Len(t) : (s \o t \o u)[Len(s) + i] = t[i]
           /\ \A i \in 1 .. Len(u) : (s \o t \o u)[Len(s) + Len(t) + i] = u[i]
OBVIOUS

\* The parts of an absolute path.
LEMMA AbsoluteParts ==
    ASSUME NEW S, Slash \in S, NEW root \in Seq(S), NEW below \in Seq(S)
    PROVE  /\ Absolute(root, below) \in Seq(S)
           /\ Len(Absolute(root, below)) = 1 + Len(root) + Len(below)
           /\ Absolute(root, below)[1] = Slash
           /\ \A i \in 1 .. Len(root) : Absolute(root, below)[1 + i] = root[i]
           /\ \A i \in 1 .. Len(below) : Absolute(root, below)[1 + Len(root) + i] = below[i]
<1>1. <<Slash>> \in Seq(S) /\ Len(<<Slash>>) = 1 /\ <<Slash>>[1] = Slash /\ 1 \in 1 .. 1
  OBVIOUS
<1>2. ASSUME NEW s \in Seq(S)
      PROVE  LET path == s \o root \o below
             IN  /\ path \in Seq(S)
                 /\ Len(path) = Len(s) + Len(root) + Len(below)
                 /\ \A i \in 1 .. Len(s) : path[i] = s[i]
                 /\ \A i \in 1 .. Len(root) : path[Len(s) + i] = root[i]
                 /\ \A i \in 1 .. Len(below) : path[Len(s) + Len(root) + i] = below[i]
  BY ConcatThree
<1> QED
  BY <1>1, <1>2 DEF Absolute

\* Concatenations taken apart.
LEMMA SplitConcat ==
    ASSUME NEW S, NEW s \in Seq(S), NEW t \in Seq(S)
    PROVE  /\ SubSeq(s \o t, 1, Len(s)) = s
           /\ SubSeq(s \o t, 1 + Len(s), Len(s) + Len(t)) = t
<1> DEFINE a == SubSeq(s \o t, 1, Len(s))
           b == SubSeq(s \o t, 1 + Len(s), Len(s) + Len(t))
<1>1. /\ a \in Seq(S) /\ Len(a) = Len(s) /\ \A i \in 1 .. Len(s) : a[i] = s[i]
  OBVIOUS
<1>2. /\ b \in Seq(S) /\ Len(b) = Len(t) /\ \A i \in 1 .. Len(t) : b[i] = t[i]
  OBVIOUS
<1> HIDE DEF a, b
<1>3. a = s /\ b = t
  BY <1>1, <1>2, SeqEqual
<1> QED
  BY <1>3 DEF a, b

\* Nothing stands behind the end.
LEMMA NothingBehind ==
    ASSUME NEW S, NEW s \in Seq(S)
    PROVE  SubSeq(s, 1 + Len(s), Len(s)) = <<>>
<1>1. SubSeq(s, 1 + Len(s), Len(s)) \in Seq(S) /\ Len(SubSeq(s, 1 + Len(s), Len(s))) = 0
  OBVIOUS
<1> QED
  BY <1>1, EmptySeq

\* Behind the slash it is the root and what is below.
LEMMA AbsoluteTail ==
    ASSUME NEW S, Slash \in S, NEW root \in Seq(S), NEW below \in Seq(S)
    PROVE  /\ root \o below \in Seq(S)
           /\ Len(root \o below) = Len(root) + Len(below)
           /\ \A i \in 1 .. Len(root \o below) : Absolute(root, below)[1 + i] = (root \o below)[i]
<1>1. <<Slash>> \in Seq(S) /\ Len(<<Slash>>) = 1
  OBVIOUS
<1>2. ASSUME NEW s \in Seq(S)
      PROVE  s \o root \o below = s \o (root \o below)
  BY ConcatAssociative
<1>3. root \o below \in Seq(S) /\ Len(root \o below) = Len(root) + Len(below)
  BY ConcatElements
<1>4. ASSUME NEW s \in Seq(S), NEW t \in Seq(S)
      PROVE  \A i \in 1 .. Len(t) : (s \o t)[Len(s) + i] = t[i]
  BY ConcatElements
<1>5. \A i \in 1 .. Len(root \o below) : (<<Slash>> \o (root \o below))[1 + i] = (root \o below)[i]
  BY <1>1, <1>3, <1>4
<1> QED
  BY <1>1, <1>2, <1>3, <1>5 DEF Absolute

\* The n parts of path from i on are those of rel from somewhere on.
Stands(path, i, rel, n) ==
    \E j \in 1 .. Len(rel) - n + 1 : \A m \in 0 .. n - 1 : path[i + m] = rel[j + m]

\* A run of n parts of path is one of rel when its parts are, in order.
LEMMA RunElements ==
    ASSUME NEW S, NEW path \in Seq(S), NEW rel \in Seq(S),
           NEW i \in Nat \ {0}, NEW n \in Nat, i + n - 1 <= Len(path)
    PROVE  SubSeq(path, i, i + n - 1) \in RunsOf(rel, n) <=> Stands(path, i, rel, n)
<1>1. ASSUME NEW j \in 1 .. Len(rel) - n + 1
      PROVE  SubSeq(path, i, i + n - 1) = SubSeq(rel, j, j + n - 1)
                 <=> \A m \in 0 .. n - 1 : path[i + m] = rel[j + m]
  <2> DEFINE a == SubSeq(path, i, i + n - 1)
             b == SubSeq(rel, j, j + n - 1)
  <2>1. a \in Seq(S) /\ Len(a) = n /\ \A m \in 1 .. n : a[m] = path[i + m - 1]
    OBVIOUS
  <2>2. b \in Seq(S) /\ Len(b) = n /\ \A m \in 1 .. n : b[m] = rel[j + m - 1]
    OBVIOUS
  <2>3. a = b <=> \A m \in 1 .. n : a[m] = b[m]
    BY <2>1, <2>2, SeqEqual
  <2>4. ASSUME \A m \in 1 .. n : a[m] = b[m], NEW m \in 0 .. n - 1
        PROVE  path[i + m] = rel[j + m]
    <3>1. m + 1 \in 1 .. n /\ i + (m + 1) - 1 = i + m /\ j + (m + 1) - 1 = j + m
      OBVIOUS
    <3> QED
      BY <2>1, <2>2, <2>4, <3>1
  <2>5. ASSUME \A m \in 0 .. n - 1 : path[i + m] = rel[j + m], NEW m \in 1 .. n
        PROVE  a[m] = b[m]
    <3>1. m - 1 \in 0 .. n - 1 /\ i + (m - 1) = i + m - 1 /\ j + (m - 1) = j + m - 1
      OBVIOUS
    <3> QED
      BY <2>1, <2>2, <2>5, <3>1
  <2> QED
    BY <2>3, <2>4, <2>5
<1> QED
  BY <1>1 DEF RunsOf, Stands

\* A shorter run at the same place is a run, too.
LEMMA ShorterRun ==
    ASSUME NEW S, NEW path \in Seq(S), NEW rel \in Seq(S),
           NEW i \in Nat \ {0}, NEW n \in Nat, i + n - 1 <= Len(path),
           SubSeq(path, i, i + n - 1) \in RunsOf(rel, n), NEW k \in 0 .. n
    PROVE  SubSeq(path, i, i + k - 1) \in RunsOf(rel, k)
<1>1. PICK j \in 1 .. Len(rel) - n + 1 : \A m \in 0 .. n - 1 : path[i + m] = rel[j + m]
  <2>1. Stands(path, i, rel, n)
    BY RunElements
  <2> QED
    BY <2>1 DEF Stands
<1>2. k \in Nat /\ i + k - 1 <= Len(path)
  BY LenProperties
<1>3. j \in 1 .. Len(rel) - k + 1 /\ \A m \in 0 .. k - 1 : m \in 0 .. n - 1
  BY LenProperties
<1>4. Stands(path, i, rel, k)
  BY <1>1, <1>3 DEF Stands
<1> QED
  BY <1>2, <1>4, RunElements

-----------------------------------------------------------------------------
(* The overlaps of an absolute path.                                       *)

\* A path that is absolute, and one that is relative and has none of the parts
\* which only the splitting of a path makes.
Clean(S, root, below, rel) ==
    /\ {Slash, "."} \subseteq S
    /\ root \in Seq(S) /\ below \in Seq(S) /\ rel \in Seq(S)
    /\ \A i \in 1 .. Len(rel) : rel[i] \notin {Slash, "."}

\* An overlap is a run of the path without the slash.
LEMMA OverlapIsRun ==
    ASSUME NEW S, NEW root, NEW below, NEW rel, Clean(S, root, below, rel),
           NEW i, NEW n, <<i, n>> \in Overlaps(splitPath(Absolute(root, below)), rel)
    PROVE  /\ splitPath(Absolute(root, below)) = Absolute(root, below)
           /\ i \in Nat /\ i >= 2 /\ n \in 1 .. Len(rel)
           /\ i + n - 2 <= Len(root) + Len(below)
           /\ SubSeq(root \o below, i - 1, i - 1 + n - 1) \in RunsOf(rel, n)
<1> DEFINE P == Absolute(root, below)
           Q == splitPath(P)
<1>1. /\ Slash \in S /\ "." \in S
      /\ root \in Seq(S) /\ below \in Seq(S) /\ rel \in Seq(S)
      /\ \A j \in 1 .. Len(rel) : rel[j] # Slash /\ rel[j] # "."
  BY DEF Clean
<1>2. P \in Seq(S) /\ Len(P) = 1 + Len(root) + Len(below) /\ P[1] = Slash
  BY <1>1, AbsoluteParts
<1>3. Q \in Seq(S) /\ (Q = P \/ Q = <<Slash, ".">>)
  BY <1>1, <1>2 DEF splitPath
<1>4. i \in 1 .. Len(Q) /\ n \in 1 .. Len(rel) /\ i + n - 1 <= Len(Q)
  BY DEF Overlaps
<1>5. SubSeq(Q, i, i + n - 1) \in RunsOf(rel, n)
  BY DEF Overlaps
<1> HIDE DEF P, Q
<1>6. PICK j \in 1 .. Len(rel) - n + 1 : \A m \in 0 .. n - 1 : Q[i + m] = rel[j + m]
  <2>1. i \in Nat \ {0} /\ n \in Nat
    BY <1>1, <1>3, <1>4, LenProperties
  <2>2. Stands(Q, i, rel, n)
    BY <1>1, <1>3, <1>4, <1>5, <2>1, RunElements
  <2> QED
    BY <2>2 DEF Stands
<1>7. Q[i] # Slash /\ Q[i] # "."
  <2>1. 0 \in 0 .. n - 1 /\ i + 0 = i /\ j + 0 = j /\ j \in 1 .. Len(rel)
    BY <1>1, <1>3, <1>4
  <2> QED
    BY <1>1, <1>6, <2>1
<1>8. Q = P
  <2>1. ASSUME Q = <<Slash, ".">> PROVE FALSE
    <3>1. i \in {1, 2}
      BY <1>4, <2>1
    <3> QED
      BY <1>7, <2>1, <3>1
  <2> QED
    BY <1>3, <2>1
<1>9. i \in Nat /\ i >= 2 /\ n \in Nat /\ i + n - 2 <= Len(root) + Len(below)
  <2>1. Len(root) \in Nat /\ Len(below) \in Nat /\ Len(rel) \in Nat
    BY <1>1, LenProperties
  <2>2. i # 1
    BY <1>2, <1>7, <1>8
  <2> QED
    BY <1>2, <1>4, <1>8, <2>1, <2>2
<1>10. SubSeq(root \o below, i - 1, i - 1 + n - 1) \in RunsOf(rel, n)
  <2> DEFINE T == root \o below
  <2>1. /\ T \in Seq(S) /\ Len(T) = Len(root) + Len(below)
        /\ \A x \in 1 .. Len(T) : P[1 + x] = T[x]
    BY <1>1, AbsoluteTail DEF P
  <2> HIDE DEF T
  <2>2. Len(T) \in Nat
    BY <2>1, LenProperties
  <2>3. i - 1 \in Nat \ {0} /\ i - 1 + n - 1 <= Len(T)
    BY <1>9, <2>1, <2>2
  <2>4. \A m \in 0 .. n - 1 : T[i - 1 + m] = rel[j + m]
    <3> TAKE m \in 0 .. n - 1
    <3>1. i - 1 + m \in 1 .. Len(T) /\ 1 + (i - 1 + m) = i + m
      BY <1>9, <2>2, <2>3
    <3> QED
      BY <3>1, <2>1, <1>6, <1>8
  <2>5. Stands(T, i - 1, rel, n)
    BY <2>4 DEF Stands
  <2>6. SubSeq(T, i - 1, i - 1 + n - 1) \in RunsOf(rel, n)
    BY <1>1, <1>9, <2>1, <2>3, <2>5, RunElements
  <2> QED
    BY <2>6 DEF T
<1> QED
  BY <1>4, <1>8, <1>9, <1>10 DEF P, Q

\* A run of the path without the slash is an overlap.
LEMMA RunIsOverlap ==
    ASSUME NEW S, NEW root, NEW below, NEW rel, Clean(S, root, below, rel),
           NEW i \in Nat \ {0}, NEW n \in Nat \ {0}, i + n - 1 <= Len(root) + Len(below),
           SubSeq(root \o below, i, i + n - 1) \in RunsOf(rel, n)
    PROVE  <<1 + i, n>> \in Overlaps(splitPath(Absolute(root, below)), rel)
<1> DEFINE P == Absolute(root, below)
           T == root \o below
<1>1. Slash \in S /\ root \in Seq(S) /\ below \in Seq(S) /\ rel \in Seq(S)
  BY DEF Clean
<1>2. /\ P \in Seq(S) /\ Len(P) = 1 + Len(T)
      /\ T \in Seq(S) /\ Len(T) = Len(root) + Len(below) /\ Len(T) \in Nat
      /\ \A x \in 1 .. Len(T) : P[1 + x] = T[x]
  <2>1. P \in Seq(S) /\ Len(P) = 1 + Len(root) + Len(below)
    BY <1>1, AbsoluteParts
  <2>2. /\ T \in Seq(S) /\ Len(T) = Len(root) + Len(below)
        /\ \A x \in 1 .. Len(T) : P[1 + x] = T[x]
    BY <1>1, AbsoluteTail
  <2>3. Len(root) \in Nat /\ Len(below) \in Nat
    BY <1>1, LenProperties
  <2> HIDE DEF P, T
  <2> QED
    BY <2>1, <2>2, <2>3
<1>3. i + n - 1 <= Len(T) /\ SubSeq(T, i, i + n - 1) \in RunsOf(rel, n)
  BY <1>2
<1> HIDE DEF P, T
<1>4. splitPath(P) = P
  BY <1>2, <1>3, Len(<<Slash>>) = 1 DEF splitPath
<1>5. PICK j \in 1 .. Len(rel) - n + 1 : \A m \in 0 .. n - 1 : T[i + m] = rel[j + m]
  <2>1. Stands(T, i, rel, n)
    BY <1>1, <1>2, <1>3, RunElements
  <2> QED
    BY <2>1 DEF Stands
<1>6. \A m \in 0 .. n - 1 : P[1 + i + m] = rel[j + m]
  <2> TAKE m \in 0 .. n - 1
  <2>1. i + m \in 1 .. Len(T) /\ 1 + (i + m) = 1 + i + m
    BY <1>2, <1>3
  <2> QED
    BY <2>1, <1>2, <1>5
<1>7. Stands(P, 1 + i, rel, n)
  BY <1>6 DEF Stands
<1>8. 1 + i \in Nat \ {0} /\ n \in Nat /\ 1 + i + n - 1 <= Len(P)
  BY <1>2, <1>3
<1>9. SubSeq(P, 1 + i, 1 + i + n - 1) \in RunsOf(rel, n)
  BY <1>1, <1>2, <1>7, <1>8, RunElements
<1>10. 1 + i \in 1 .. Len(P) /\ n \in 1 .. Len(rel)
  BY <1>1, <1>2, <1>5, <1>8, LenProperties
<1> QED
  BY <1>4, <1>8, <1>9, <1>10 DEF Overlaps, P

-----------------------------------------------------------------------------
(* What removeOverlap makes of an absolute path.                           *)

\* No part of the working directory is a dot.
NoDots(root, below) ==
    /\ \A i \in 1 .. Len(root) : root[i] # "."
    /\ \A i \in 1 .. Len(below) : below[i] # "."

\* Joining has nothing to drop.
LEMMA JoinKeeps ==
    ASSUME NEW S, NEW parts \in Seq(S), \A i \in 1 .. Len(parts) : parts[i] # "."
    PROVE  joinPath(parts) = parts
BY DOMAIN parts = 1 .. Len(parts) DEF joinPath

\* An absolute path of clean parts has no dots.
LEMMA AbsoluteNoDots ==
    ASSUME NEW S, Slash \in S, NEW root \in Seq(S), NEW below \in Seq(S), NoDots(root, below)
    PROVE  \A i \in 1 .. Len(Absolute(root, below)) : Absolute(root, below)[i] # "."
<1> DEFINE P == Absolute(root, below)
<1>1. Len(root) \in Nat /\ Len(below) \in Nat
  BY LenProperties
<1>2. Len(P) = 1 + Len(root) + Len(below) /\ P[1] = Slash
  BY AbsoluteParts
<1>3. \A k \in 1 .. Len(root) : P[1 + k] = root[k]
  BY AbsoluteParts
<1>4. \A k \in 1 .. Len(below) : P[1 + Len(root) + k] = below[k]
  BY AbsoluteParts
<1> HIDE DEF P
<1>5. ASSUME NEW i \in 1 .. Len(P) PROVE P[i] # "."
  <2>1. CASE i = 1
    BY <1>2, <2>1, Slash # "." DEF Slash
  <2>2. CASE i \in 2 .. 1 + Len(root)
    <3>1. i - 1 \in 1 .. Len(root) /\ 1 + (i - 1) = i
      BY <1>1, <2>2
    <3> QED
      BY <1>3, <3>1 DEF NoDots
  <2>3. CASE i \in 2 + Len(root) .. 1 + Len(root) + Len(below)
    <3>1. /\ i - 1 - Len(root) \in 1 .. Len(below)
          /\ 1 + Len(root) + (i - 1 - Len(root)) = i
      BY <1>1, <2>3
    <3> QED
      BY <1>4, <3>1 DEF NoDots
  <2> QED
    BY <1>1, <1>2, <2>1, <2>2, <2>3
<1> QED
  BY <1>5 DEF P

\* Without an overlap the relative path is added to the working directory.
LEMMA NothingCut ==
    ASSUME NEW S, NEW root, NEW below, NEW rel,
           Clean(S, root, below, rel), NoDots(root, below),
           Overlaps(splitPath(Absolute(root, below)), rel) = {}
    PROVE  removeOverlap(Absolute(root, below), rel) = Absolute(root, below) \o rel
<1> DEFINE P == Absolute(root, below)
<1>1. Slash \in S /\ root \in Seq(S) /\ below \in Seq(S) /\ rel \in Seq(S)
  BY DEF Clean
<1>2. P \in Seq(S) /\ \A i \in 1 .. Len(P) : P[i] # "."
  BY <1>1, AbsoluteParts, AbsoluteNoDots
<1>3. findLongestOverlap(splitPath(P), rel) = <<-1, -1>>
  BY DEF findLongestOverlap
<1> HIDE DEF P
<1>4. P \o rel \in Seq(S) /\ \A i \in 1 .. Len(P \o rel) : (P \o rel)[i] # "."
  BY <1>1, <1>2 DEF Clean
<1>5. joinPath(P \o rel) = P \o rel
  BY <1>4, JoinKeeps
<1> QED
  BY <1>3, <1>5 DEF removeOverlap, P

\* The parts of a path before and behind a run.
LEMMA CutElements ==
    ASSUME NEW S, NEW path \in Seq(S), NEW i \in Nat \ {0}, NEW n \in Nat, i + n - 1 <= Len(path)
    PROVE  /\ SubSeq(path, 1, i - 1) \in Seq(S) /\ Len(SubSeq(path, 1, i - 1)) = i - 1
           /\ \A j \in 1 .. i - 1 : SubSeq(path, 1, i - 1)[j] = path[j]
           /\ SubSeq(path, i + n, Len(path)) \in Seq(S)
           /\ Len(SubSeq(path, i + n, Len(path))) = Len(path) - (i + n) + 1
           /\ \A j \in 1 .. Len(path) - (i + n) + 1 :
                  SubSeq(path, i + n, Len(path))[j] = path[i + n + j - 1]
<1>1. Len(path) \in Nat
  OBVIOUS
<1>2. /\ SubSeq(path, 1, i - 1) \in Seq(S) /\ Len(SubSeq(path, 1, i - 1)) = i - 1
      /\ \A j \in 1 .. i - 1 : SubSeq(path, 1, i - 1)[j] = path[j]
  OBVIOUS
<1>3. /\ SubSeq(path, i + n, Len(path)) \in Seq(S)
      /\ Len(SubSeq(path, i + n, Len(path))) = Len(path) - (i + n) + 1
      /\ \A j \in 1 .. Len(path) - (i + n) + 1 :
             SubSeq(path, i + n, Len(path))[j] = path[i + n + j - 1]
  OBVIOUS
<1> QED
  BY <1>2, <1>3

\* The path without its n parts from i on.
Cut(path, i, n) == SubSeq(path, 1, i - 1) \o SubSeq(path, i + n, Len(path))

\* With overlaps, the first of the longest is cut out.
LEMMA LongestCut ==
    ASSUME NEW S, NEW root, NEW below, NEW rel,
           Clean(S, root, below, rel), NoDots(root, below), NEW i, NEW n,
           <<i, n>> \in Overlaps(splitPath(Absolute(root, below)), rel),
           findLongestOverlap(splitPath(Absolute(root, below)), rel) = <<i, i + n>>
    PROVE  removeOverlap(Absolute(root, below), rel) = Cut(Absolute(root, below), i, n) \o rel
<1> DEFINE P    == Absolute(root, below)
           head == SubSeq(P, 1, i - 1)
           tail == SubSeq(P, i + n, Len(P))
<1>1. /\ Slash \in S /\ root \in Seq(S) /\ below \in Seq(S) /\ rel \in Seq(S)
      /\ \A j \in 1 .. Len(rel) : rel[j] # "."
  BY DEF Clean
<1>2. /\ splitPath(P) = P /\ i \in Nat /\ i >= 2 /\ n \in Nat
      /\ i + n - 2 <= Len(root) + Len(below)
  BY <1>1, OverlapIsRun, LenProperties
<1>3. P \in Seq(S) /\ Len(P) = 1 + Len(root) + Len(below)
  BY <1>1, AbsoluteParts
<1>4. \A j \in 1 .. Len(P) : P[j] # "."
  BY <1>1, AbsoluteNoDots
<1>5. removeOverlap(P, rel) = joinPath(head \o tail \o rel)
  BY <1>2, i # -1 DEF removeOverlap
<1>6. i \in Nat \ {0} /\ i + n - 1 <= Len(P) /\ Len(P) \in Nat
  BY <1>1, <1>2, <1>3, LenProperties
<1> HIDE DEF P
<1>7. /\ head \in Seq(S) /\ Len(head) = i - 1 /\ \A j \in 1 .. i - 1 : head[j] = P[j]
      /\ tail \in Seq(S) /\ Len(tail) = Len(P) - (i + n) + 1
      /\ \A j \in 1 .. Len(P) - (i + n) + 1 : tail[j] = P[i + n + j - 1]
  BY <1>2, <1>3, <1>6, CutElements
<1> HIDE DEF head, tail
<1>8. /\ \A j \in 1 .. Len(head) : head[j] # "."
      /\ \A j \in 1 .. Len(tail) : tail[j] # "."
  <2>1. ASSUME NEW j \in 1 .. Len(head) PROVE head[j] # "."
    BY <1>2, <1>4, <1>6, <1>7
  <2>2. ASSUME NEW j \in 1 .. Len(tail) PROVE tail[j] # "."
    <3>1. j \in 1 .. Len(P) - (i + n) + 1 /\ i + n + j - 1 \in 1 .. Len(P)
      BY <1>2, <1>6, <1>7
    <3> QED
      BY <1>4, <1>7, <3>1
  <2> QED
    BY <2>1, <2>2
<1>9. \A j \in 1 .. Len(head \o tail \o rel) : (head \o tail \o rel)[j] # "."
  BY <1>1, <1>7, <1>8
<1>10. joinPath(head \o tail \o rel) = head \o tail \o rel
  <2>1. head \o tail \o rel \in Seq(S)
    BY <1>1, <1>7
  <2> QED
    BY <1>9, <2>1, JoinKeeps
<1> QED
  BY <1>5, <1>10 DEF P, head, tail, Cut

\* From a directory on the way that nothing shadows, the relative path is found
\* under the root.
THEOREM UnshadowedFound ==
    ASSUME NEW S, NEW root, NEW below, NEW rel,
           Clean(S, root, below, rel), NoDots(root, below), rel # <<>>,
           OnTheWay(below, rel), ~Shadowed(root, below, rel)
    PROVE  removeOverlap(Absolute(root, below), rel) = Absolute(root, rel)
<1> DEFINE P == Absolute(root, below)
           T == root \o below
           O == Overlaps(splitPath(P), rel)
           L == IF below = <<>> THEN 1 ELSE Len(below)
<1>1. /\ Slash \in S /\ root \in Seq(S) /\ below \in Seq(S) /\ rel \in Seq(S)
      /\ Len(root) \in Nat /\ Len(below) \in Nat /\ Len(rel) \in Nat
  BY LenProperties DEF Clean
<1>2. T \in Seq(S) /\ Len(T) = Len(root) + Len(below)
  BY <1>1, ConcatElements
<1>3. L \in Nat \ {0} /\ (below # <<>> => Len(below) # 0)
  BY <1>1, EmptySeq
<1>4. \A i \in 1 .. Len(root) : SubSeq(T, i, i + L - 1) \notin RunsOf(rel, L)
  BY DEF Shadowed
\* No overlap that is as long starts in the root.
<1>5. ASSUME NEW i, NEW n, <<i, n>> \in O, n >= L
      PROVE  i - 1 > Len(root)
  <2>1. /\ i \in Nat /\ i >= 2 /\ n \in Nat /\ i + n - 2 <= Len(root) + Len(below)
        /\ SubSeq(T, i - 1, i - 1 + n - 1) \in RunsOf(rel, n)
    BY <1>1, <1>5, OverlapIsRun
  <2>2. i - 1 \in Nat \ {0} /\ i - 1 + n - 1 <= Len(T) /\ L \in 0 .. n
    BY <1>1, <1>2, <1>3, <1>5, <2>1
  <2> HIDE DEF T, L
  <2>3. SubSeq(T, i - 1, i - 1 + L - 1) \in RunsOf(rel, L)
    BY <1>1, <1>2, <2>1, <2>2, ShorterRun
  <2>4. i - 1 \notin 1 .. Len(root)
    BY <1>4, <2>3
  <2> QED
    BY <1>1, <2>1, <2>4
<1>6. CASE below = <<>>
  <2>1. O = {}
    <3>1. ASSUME NEW i, NEW n, <<i, n>> \in O PROVE FALSE
      <4>1. i \in Nat /\ n \in Nat \ {0} /\ i + n - 2 <= Len(root)
        BY <1>1, <1>6, <3>1, OverlapIsRun
      <4>2. n >= L
        BY <1>6, <4>1
      <4>3. i - 1 > Len(root)
        BY <3>1, <4>2, <1>5
      <4> QED
        BY <1>1, <4>1, <4>3
    <3>2. \A o \in O : \E i, n : o = <<i, n>>
      BY DEF Overlaps
    <3> QED
      BY <3>1, <3>2
  <2>2. removeOverlap(P, rel) = P \o rel
    BY <2>1, NothingCut
  <2>3. P = <<Slash>> \o root
    <3>1. <<Slash>> \o root \in Seq(S)
      BY <1>1
    <3> QED
      BY <1>6, <3>1, ConcatEmptySeq DEF Absolute
  <2> QED
    BY <2>2, <2>3 DEF Absolute
<1>7. CASE below # <<>>
  <2>1. L = Len(below) /\ L \in 1 .. Len(rel)
    BY <1>1, <1>3, <1>7 DEF OnTheWay, RunsOf
  <2> HIDE DEF L
  <2>2. <<2 + Len(root), L>> \in O
    <3>1. SubSeq(T, 1 + Len(root), 1 + Len(root) + L - 1) = below
      <4>1. 1 + Len(root) + L - 1 = Len(root) + Len(below)
        BY <1>1, <2>1
      <4>2. SubSeq(T, 1 + Len(root), Len(root) + Len(below)) = below
        BY <1>1, SplitConcat
      <4> QED
        BY <4>1, <4>2
    <3>2. SubSeq(T, 1 + Len(root), 1 + Len(root) + L - 1) \in RunsOf(rel, L)
      BY <2>1, <3>1 DEF OnTheWay
    <3>3. 1 + Len(root) \in Nat \ {0} /\ 1 + Len(root) + L - 1 <= Len(root) + Len(below)
      BY <1>1, <2>1
    <3>4. <<1 + (1 + Len(root)), L>> \in O
      BY <1>3, <3>2, <3>3, RunIsOverlap
    <3>5. 1 + (1 + Len(root)) = 2 + Len(root)
      BY <1>1
    <3> QED
      BY <3>4, <3>5
  <2>3. PICK i, n : /\ <<i, n>> \in O
                    /\ findLongestOverlap(splitPath(P), rel) = <<i, i + n>>
                    /\ \A j, k : <<j, k>> \in O => n > k \/ (n = k /\ i <= j)
    <3>1. splitPath(P) \in Seq(S)
      BY <1>1, AbsoluteParts DEF splitPath, Clean
    <3> QED
      BY <1>1, <2>2, <3>1, LongestFirst
  <2>4. i = 2 + Len(root) /\ n = L
    <3>1. i \in Nat /\ n \in Nat /\ i + n - 2 <= Len(root) + Len(below)
      BY <1>1, <2>3, OverlapIsRun
    <3>2. n > L \/ (n = L /\ i <= 2 + Len(root))
      BY <2>2, <2>3
    <3>3. i - 1 > Len(root)
      BY <1>3, <1>5, <2>3, <3>1, <3>2
    <3> QED
      BY <1>1, <2>1, <3>1, <3>2, <3>3
  <2>5. removeOverlap(P, rel) = Cut(P, i, n) \o rel
    <3>1. <<i, n>> \in O /\ findLongestOverlap(splitPath(P), rel) = <<i, i + n>>
      BY <2>3
    <3> QED
      BY <3>1, LongestCut
  <2> DEFINE top == <<Slash>> \o root
  <2>6. top \in Seq(S) /\ Len(top) = 1 + Len(root) /\ P \in Seq(S)
        /\ Len(P) = 1 + Len(root) + Len(below) /\ P = top \o below
    <3>1. Slash \in S /\ <<Slash>> \in Seq(S) /\ Len(<<Slash>>) = 1
      BY DEF Clean
    <3>2. top \in Seq(S) /\ Len(top) = 1 + Len(root)
      BY <1>1, <3>1, ConcatElements
    <3> QED
      BY <1>1, <3>1, <3>2, AbsoluteParts DEF Absolute
  <2> HIDE DEF top, P
  <2>7. SubSeq(P, 1, i - 1) = top
    <3>1. i - 1 = Len(top)
      BY <1>1, <2>4, <2>6
    <3> QED
      BY <1>1, <2>6, <3>1, SplitConcat
  <2>8. SubSeq(P, i + n, Len(P)) = <<>>
    <3>1. i + n = 1 + Len(P)
      BY <1>1, <2>1, <2>4, <2>6
    <3> QED
      BY <2>6, <3>1, NothingBehind
  <2>9. top \o <<>> = top
    BY <2>6, ConcatEmptySeq
  <2> QED
    BY <2>5, <2>7, <2>8, <2>9 DEF Absolute, top, P, Cut
<1> QED
  BY <1>6, <1>7

\* What is left of a path without n of its parts.
LEMMA CutParts ==
    ASSUME NEW S, NEW path \in Seq(S), NEW i \in Nat \ {0}, NEW n \in Nat, i + n - 1 <= Len(path)
    PROVE  /\ Cut(path, i, n) \in Seq(S) /\ Len(Cut(path, i, n)) = Len(path) - n
           /\ \A j \in i .. Len(path) - n : Cut(path, i, n)[j] = path[j + n]
<1> DEFINE head == SubSeq(path, 1, i - 1)
           tail == SubSeq(path, i + n, Len(path))
<1>1. Len(path) \in Nat
  BY LenProperties
<1>2. /\ head \in Seq(S) /\ Len(head) = i - 1
      /\ tail \in Seq(S) /\ Len(tail) = Len(path) - (i + n) + 1
      /\ \A j \in 1 .. Len(path) - (i + n) + 1 : tail[j] = path[i + n + j - 1]
  BY CutElements
<1> HIDE DEF head, tail
<1>3. /\ head \o tail \in Seq(S) /\ Len(head \o tail) = Len(head) + Len(tail)
      /\ \A j \in 1 .. Len(tail) : (head \o tail)[Len(head) + j] = tail[j]
  <2>1. head \in Seq(S) /\ tail \in Seq(S)
    BY <1>2
  <2> QED
    BY <2>1, ConcatElements
<1>4. Len(head \o tail) = Len(path) - n
  BY <1>1, <1>2, <1>3
<1>5. ASSUME NEW j \in i .. Len(path) - n
      PROVE  (head \o tail)[j] = path[j + n]
  <2> DEFINE k == j - (i - 1)
  <2>1. k \in 1 .. Len(tail) /\ Len(head) + k = j /\ i + n + k - 1 = j + n
    BY <1>1, <1>2
  <2> HIDE DEF k
  <2>2. (head \o tail)[Len(head) + k] = tail[k] /\ tail[k] = path[i + n + k - 1]
    BY <1>2, <1>3, <2>1
  <2> QED
    BY <2>1, <2>2
<1> QED
  BY <1>3, <1>4, <1>5 DEF Cut, head, tail

\* Where the relative path is found under the root, the working directory is on
\* the way and nothing shadows it, or it ends as the root does.
THEOREM FoundOnTheWay ==
    ASSUME NEW S, NEW root, NEW below, NEW rel,
           Clean(S, root, below, rel), NoDots(root, below), rel # <<>>
    PROVE  removeOverlap(Absolute(root, below), rel) = Absolute(root, rel)
               => \/ OnTheWay(below, rel) /\ ~Shadowed(root, below, rel)
                  \/ Echoed(root, below)
<1> DEFINE P == Absolute(root, below)
           T == root \o below
           O == Overlaps(splitPath(P), rel)
           Found == removeOverlap(P, rel) = Absolute(root, rel)
           Goal  == (OnTheWay(below, rel) /\ ~Shadowed(root, below, rel)) \/ Echoed(root, below)
<1>1. /\ Slash \in S /\ root \in Seq(S) /\ below \in Seq(S) /\ rel \in Seq(S)
      /\ Len(root) \in Nat /\ Len(below) \in Nat /\ Len(rel) \in Nat
  BY LenProperties DEF Clean
<1>2. rel # <<>> /\ Len(rel) # 0 /\ (below = <<>> <=> Len(below) = 0)
  BY <1>1, EmptySeq
<1>3. P \in Seq(S) /\ Len(P) = 1 + Len(root) + Len(below)
  BY <1>1, AbsoluteParts
<1>4. Absolute(root, rel) \in Seq(S) /\ Len(Absolute(root, rel)) = 1 + Len(root) + Len(rel)
  BY <1>1, AbsoluteParts
<1>5. ASSUME O = {}, Found PROVE Goal
  <2>1. removeOverlap(P, rel) = P \o rel
    BY <1>5, NothingCut
  <2>2. Len(P \o rel) = Len(P) + Len(rel)
    BY <1>1, <1>3, ConcatElements
  <2>3. below = <<>>
    BY <1>1, <1>2, <1>3, <1>4, <1>5, <2>1, <2>2
  <2>4. OnTheWay(below, rel)
    <3>1. SubSeq(rel, 1, 0) = <<>> /\ 1 \in 1 .. Len(rel) - 0 + 1
      BY <1>1
    <3>2. Len(below) = 0 /\ 1 + 0 - 1 = 0
      BY <1>2, <2>3
    <3> QED
      BY <2>3, <3>1, <3>2 DEF OnTheWay, RunsOf
  <2>5. ASSUME NEW i \in 1 .. Len(root), SubSeq(T, i, i + 1 - 1) \in RunsOf(rel, 1)
        PROVE  FALSE
    <3>1. i \in Nat \ {0} /\ 1 \in Nat \ {0} /\ i + 1 - 1 <= Len(root) + Len(below)
      BY <1>1
    <3>2. <<1 + i, 1>> \in O
      BY <2>5, <3>1, RunIsOverlap
    <3> QED
      BY <1>5, <3>2
  <2> QED
    BY <2>3, <2>4, <2>5 DEF Shadowed
<1>6. ASSUME O # {}, Found PROVE Goal
  <2>1. PICK i, n : /\ <<i, n>> \in O
                    /\ findLongestOverlap(splitPath(P), rel) = <<i, i + n>>
                    /\ \A j, k : <<j, k>> \in O => n > k \/ (n = k /\ i <= j)
    <3>1. splitPath(P) \in Seq(S)
      BY <1>1, <1>3 DEF splitPath, Clean
    <3> QED
      BY <1>1, <1>6, <3>1, LongestFirst
  <2>2. removeOverlap(P, rel) = Cut(P, i, n) \o rel
    <3>1. <<i, n>> \in O /\ findLongestOverlap(splitPath(P), rel) = <<i, i + n>>
      BY <2>1
    <3> QED
      BY <3>1, LongestCut
  <2>3. i \in Nat /\ i >= 2 /\ n \in 1 .. Len(rel) /\ i + n - 2 <= Len(root) + Len(below)
    BY <2>1, OverlapIsRun
  <2>4. SubSeq(T, i - 1, i - 1 + n - 1) \in RunsOf(rel, n)
    BY <2>1, OverlapIsRun
  <2>5. i \in Nat \ {0} /\ n \in Nat /\ i + n - 1 <= Len(P)
    BY <1>1, <1>3, <2>3
  <2> DEFINE C == Cut(P, i, n)
  <2> HIDE DEF P, T, C
  <2>6. /\ C \in Seq(S) /\ Len(C) = Len(P) - n
        /\ \A j \in i .. Len(P) - n : C[j] = P[j + n]
    BY <1>3, <2>5, CutParts DEF C
  <2>7. C \o rel = Absolute(root, rel)
    BY <1>6, <2>2 DEF C, P
  <2>8. n = Len(below) /\ Len(C) = 1 + Len(root) /\ below # <<>>
    <3>1. Len(C \o rel) = Len(C) + Len(rel)
      BY <1>1, <2>6, ConcatElements
    <3>2. Len(P) - n + Len(rel) = 1 + Len(root) + Len(rel)
      BY <1>4, <2>6, <2>7, <3>1
    <3>3. n = Len(below)
      BY <1>1, <1>3, <2>3, <3>2
    <3> QED
      BY <1>1, <1>2, <1>3, <2>3, <2>6, <3>3
  <2>9. CASE i = 2 + Len(root)
    <3>1. OnTheWay(below, rel)
      <4>1. i - 1 = 1 + Len(root) /\ i - 1 + n - 1 = Len(root) + Len(below)
        BY <1>1, <2>8, <2>9
      <4>2. SubSeq(T, 1 + Len(root), Len(root) + Len(below)) = below
        BY <1>1, SplitConcat DEF T
      <4> QED
        BY <2>4, <2>8, <4>1, <4>2 DEF OnTheWay
    <3>2. ASSUME NEW j \in 1 .. Len(root), SubSeq(T, j, j + n - 1) \in RunsOf(rel, n)
          PROVE  FALSE
      <4>1. j \in Nat \ {0} /\ n \in Nat \ {0} /\ j + n - 1 <= Len(root) + Len(below)
        BY <1>1, <2>3, <2>8
      <4>2. <<1 + j, n>> \in O
        BY <3>2, <4>1, RunIsOverlap DEF T, P
      <4>3. n > n \/ i <= 1 + j
        BY <2>1, <4>2
      <4> QED
        BY <1>1, <2>9, <4>1, <4>3
    <3> QED
      BY <2>8, <3>1, <3>2 DEF Shadowed, T
  <2>10. CASE i # 2 + Len(root)
    <3>1. i <= 1 + Len(root) /\ Len(root) \in 1 .. Len(root) /\ Len(below) \in 1 .. Len(below)
      BY <1>1, <2>3, <2>8, <2>10
    <3>2. C[1 + Len(root)] = below[Len(below)]
      <4>1. 1 + Len(root) \in i .. Len(P) - n
        BY <1>1, <1>3, <2>3, <2>8, <3>1
      <4>2. C[1 + Len(root)] = P[1 + Len(root) + Len(below)]
        BY <2>6, <2>8, <4>1
      <4>3. \A j \in 1 .. Len(below) : P[1 + Len(root) + j] = below[j]
        BY <1>1, AbsoluteParts DEF P
      <4> QED
        BY <1>1, <3>1, <4>2, <4>3
    <3>3. (C \o rel)[1 + Len(root)] = C[1 + Len(root)]
      <4>1. 1 + Len(root) \in 1 .. Len(C)
        BY <1>1, <2>8
      <4> QED
        BY <1>1, <2>6, <4>1, ConcatElements
    <3>4. Absolute(root, rel)[1 + Len(root)] = root[Len(root)]
      BY <1>1, <3>1, AbsoluteParts
    <3>5. root # <<>>
      BY <1>1, <3>1
    <3> QED
      BY <2>7, <2>8, <3>2, <3>3, <3>4, <3>5 DEF Echoed
  <2> QED
    BY <2>9, <2>10
<1> QED
  BY <1>5, <1>6
=============================================================================
