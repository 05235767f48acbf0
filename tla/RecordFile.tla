----------------------------- MODULE RecordFile -----------------------------
(***************************************************************************)
(* The text record file of server/Source/SimpleDB.c, as the three lists    *)
(* (devices, groups, scenes) use it: a sequence of lines, appended at the  *)
(* end, searched from the start, deleted one at a time.                    *)
(*                                                                         *)
(* A line marked ';' is skipped by every reader and dropped by the next    *)
(* consolidation, so it is left out of the sequence: deleting a record     *)
(* removes it, and copying a file line by line copies the sequence.        *)
(***************************************************************************)
EXTENDS Naturals, Sequences, SequencesExt, FiniteSets

\* The smallest index of a non-empty set of indices: sdb_get_record reads the
\* file from its beginning and stops at the first line whose key matches.
FirstOf(S) == Min(S)

\* sdb_add_record: the line goes to the end of the file.
AddRecord(f, r) == Append(f, r)

\* Mutant: the search runs to the end of the file.
DeleteLastRecord(f, S) == IF S = {} THEN f ELSE RemoveAt(f, Max(S))

\* sdb_delete_record: of the lines in S (those that match the key) the first
\* one goes; no line matches, nothing changes.
DeleteRecord(f, S) == IF S = {} THEN f ELSE RemoveAt(f, FirstOf(S))

\* The k-th index of a set, from the smallest.
NthOf(S, k) == CHOOSE i \in S : Cardinality({j \in S : j <= i}) = k

\* The lines at the indices in S in the order of the file: what is left of it
\* when sdb_get_record passes over the others (SimpleDB.c:326-346).
Selected(f, S) == [k \in 1..Cardinality(S) |-> f[NthOf(S, k)]]

\* The copy loop of sdb_consolidate_db after one more line.
CopyNext(f, copy) == Append(copy, f[Len(copy) + 1])
=============================================================================
