---------------------------- MODULE MigrationPath ----------------------------
(***************************************************************************)
(* How internal/store/pg/setup.go finds the directory of the migrations    *)
(* from the working directory of the process.  A path is the sequence of   *)
(* its components; an absolute path starts with the empty component.       *)
(***************************************************************************)
EXTENDS Integers, Sequences

StoreMigrationRelativePath == <<"internal", "store", "pg", "migrations">>

Slash == ""

\* filepath.Clean leaves a dot of the empty path.
splitPath(p) == IF p = <<Slash>> THEN <<Slash, ".">> ELSE p

\* filepath.Join drops the dots.
joinPath(parts) == IF \A i \in DOMAIN parts : parts[i] # "." THEN parts
                   ELSE SelectSeq(parts, LAMBDA c : c # ".")

\* The runs of n parts of a path.
RunsOf(path, n) == {SubSeq(path, i, i + n - 1) : i \in 1 .. Len(path) - n + 1}

\* <<i, k>>: k parts from i in curDirParts on stand somewhere in relDirParts.
Overlaps(curDirParts, relDirParts) ==
    {o \in (1 .. Len(curDirParts)) \X (1 .. Len(relDirParts)) :
        /\ o[1] + o[2] - 1 <= Len(curDirParts)
        /\ SubSeq(curDirParts, o[1], o[1] + o[2] - 1) \in RunsOf(relDirParts, o[2])}

\* Where the first of the longest overlaps starts in curDirParts, and the
\* position after its end; -1 and -1 without one.
findLongestOverlap(curDirParts, relDirParts) ==
    LET overlaps == Overlaps(curDirParts, relDirParts)
        longest  == CHOOSE o \in overlaps : \A p \in overlaps :
                        o[2] > p[2] \/ (o[2] = p[2] /\ o[1] <= p[1])
    IN  IF overlaps = {} THEN <<-1, -1>> ELSE <<longest[1], longest[1] + longest[2]>>

\* Mutant: the part of the working directory below the overlap is lost.
removeOverlapAndRest(curDir, relDir) ==
    LET overlap == findLongestOverlap(splitPath(curDir), relDir)
    IN  IF overlap[1] = -1 THEN joinPath(curDir \o relDir)
        ELSE joinPath(SubSeq(splitPath(curDir), 1, overlap[2] - 1) \o relDir)

removeOverlap(curDir, relDir) ==
    LET curDirParts == splitPath(curDir)
        overlap     == findLongestOverlap(curDirParts, relDir)
    IN  IF overlap[1] = -1
        THEN joinPath(curDir \o relDir)
        ELSE joinPath(SubSeq(curDirParts, 1, overlap[1] - 1)
                        \o SubSeq(curDirParts, overlap[2], Len(curDirParts)) \o relDir)

-----------------------------------------------------------------------------
(* Where the search can succeed.                                           *)

\* The working directory is the root of the repository, or its path below the
\* root is a run of parts of the relative path.
OnTheWay(below, relDir) == below \in RunsOf(relDir, Len(below))

\* A run as long, or any part of the relative path when the working directory is
\* the root, starts further up, in the path of the root.
Shadowed(root, below, relDir) ==
    LET n == IF below = <<>> THEN 1 ELSE Len(below)
    IN  \E i \in 1 .. Len(root) : SubSeq(root \o below, i, i + n - 1) \in RunsOf(relDir, n)

\* Cutting a run further up can give the same path by accident: then the working
\* directory ends as the root of the repository does.
Echoed(root, below) == /\ root # <<>> /\ below # <<>>
                       /\ root[Len(root)] = below[Len(below)]
=============================================================================
