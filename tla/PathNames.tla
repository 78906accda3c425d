------------------------------- MODULE PathNames -------------------------------
(***************************************************************************)
(* How the command interpreter of src/pmeunier-project/main.c makes paths  *)
(* absolute.  full_path lays the current directory and the path it is      *)
(* given into one buffer and cuts it into names where it lies;             *)
(* normalize_paths then moves the names to the front of the array of       *)
(* names, by copying characters over the names that were in the buffer.    *)
(*                                                                         *)
(* A name is known by its length: the j-th character of the name of length *)
(* n is the pair <<n, j>>.  The directories themselves are left to         *)
(* Fsx492: cd may find its path to be a directory or not.                  *)
(***************************************************************************)
EXTENDS Integers, Sequences

LOCAL INSTANCE FiniteSetsExt
LOCAL INSTANCE SequencesExt

CONSTANTS MaxName,      \* the longest name, in characters: at least 1
          MaxNames      \* the longest path, in names: at least 1

VARIABLES
    cwd,        \* the current directory, a sequence of names
    given,      \* the names full_path is asked to make a path of
    buf,        \* tmp_path, in which split has put an end behind each name
    names,      \* where in buf the names begin
    src, dest,  \* the indices of normalize_paths
    pathbuf     \* the last result of full_path, as a sequence of names

vars == <<cwd, given, buf, names, src, dest, pathbuf>>

Dot   == <<<<0, 1>>>>
Up    == <<<<0, 1>>, <<0, 1>>>>
Names == {[j \in 1 .. n |-> <<n, j>>] : n \in 1 .. MaxName}
Nul   == <<0, 0>>

-----------------------------------------------------------------------------

Laid(p) == FlattenSeq([k \in DOMAIN p |-> Append(p[k], Nul)])
split(p) == [k \in DOMAIN p |-> 1 + Len(Laid(SubSeq(p, 1, k - 1)))]

\* The string that begins at a place of the buffer, and the copy of one.  C
\* leaves the copy of overlapping strings open; the library's runs forward.
String(b, at) == SubSeq(b, at, Min({k \in at .. Len(b) : b[k] = Nul}) - 1)
strcpy(b, to, from) ==
    LET s == Append(String(b, from), Nul)
    IN  [k \in DOMAIN b |-> IF k \in to .. to + Len(s) - 1 THEN s[k - to + 1] ELSE b[k]]

full_path(p) ==
    /\ given' = p
    /\ buf' = Laid(p)
    /\ names' = split(p)
    /\ src' = 1 /\ dest' = 0
    /\ UNCHANGED <<cwd, pathbuf>>

Idle == src = 0
\* A command names a path: an absolute one, or one from the current directory.
Command ==
    /\ Idle
    /\ \E n \in 0 .. MaxNames : \E p \in [1 .. n -> Names \cup {Dot, Up}] :
          \/ full_path(p)
          \/ n > 0 /\ Len(cwd) + n <= MaxNames /\ full_path(cwd \o p)

\* One turn of the loop of normalize_paths.  Counted from 1, the next name goes
\* to place dest + 1 of the array: to where the name there began.
normalize_paths ==
    /\ src \in 1 .. Len(names)
    /\ LET s == String(buf, names[src])
       IN  \/ s = Dot /\ UNCHANGED <<buf, dest>>
           \/ s = Up /\ dest' = (IF dest > 0 THEN dest - 1 ELSE 0) /\ UNCHANGED buf
           \/ /\ s \notin {Dot, Up}
              /\ buf' = IF dest + 1 < src THEN strcpy(buf, names[dest + 1], names[src]) ELSE buf
              /\ dest' = dest + 1
    /\ src' = src + 1
    /\ UNCHANGED <<cwd, given, names, pathbuf>>

Normalized == [k \in 1 .. dest |-> String(buf, names[k])]

\* The names are joined in pathbuf.  cd, if that is a directory, splits it again
\* and hands the names to update_cwd; other commands leave the directory.
Joined ==
    /\ src = Len(names) + 1
    /\ pathbuf' = Normalized
    /\ cwd' \in {cwd, Normalized}
    /\ given' = <<>> /\ buf' = <<>> /\ names' = <<>> /\ src' = 0 /\ dest' = 0

Init == /\ cwd = <<>> /\ given = <<>> /\ buf = <<>> /\ names = <<>> /\ pathbuf = <<>>
        /\ src = 0 /\ dest = 0

Next == Command \/ normalize_paths \/ Joined
Spec == Init /\ [][Next]_vars

-----------------------------------------------------------------------------
(* Properties *)

\* What a path means: "." stays, ".." takes back the last name there is.
Step(p, n) == IF n = Dot THEN p
              ELSE IF n = Up THEN SubSeq(p, 1, Len(p) - 1)
              ELSE Append(p, n)
Meaning(p) == FoldLeft(Step, <<>>, p)

\* normalize_paths leaves the names of the path as they are: its comment says
\* it is to "eliminate empty names, and current (.) and parent (..) directory
\* names", no others.
NormalizeKeepsNames == src = Len(names) + 1 => Normalized = Meaning(given)
================================================================================
