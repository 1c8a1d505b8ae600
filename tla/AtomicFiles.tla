----------------------------- MODULE AtomicFiles -----------------------------
(***************************************************************************)
(* What CommitFilesAtomic (gittrees.go) promises of the files of a branch: *)
(* they change by whole writes only, each laid over the files it finds, so *)
(* that no write is seen in part and none takes back another's.            *)
(***************************************************************************)
CONSTANTS Converges,    \* callers, who are also the content they write
          Paths,
          Wants,        \* the paths each one manages
          NoFile,
          User          \* anybody else, and the content they write

VARIABLES files,        \* the branch's files
          found         \* for each converge, the sets of files it found to differ

Overlay(tree, paths, content) ==
    [p \in Paths |-> IF p \in paths THEN content ELSE tree[p]]

FilesInit == /\ files = [p \in Paths |-> NoFile]
             /\ found = [c \in Converges |-> {}]

\* a converge compares its files with the branch's
Compare(c) == /\ found' = [found EXCEPT ![c] =
                             @ \union {{p \in Wants[c] : files[p] # c}}]
              /\ UNCHANGED files

\* it writes the files that it once found to differ, all of them at once
Write(c) == /\ \E paths \in found[c] : files' = Overlay(files, paths, c)
            /\ UNCHANGED found

\* somebody else changes a file
Drift == /\ \E p \in Paths : files' = Overlay(files, {p}, User)
         /\ UNCHANGED found

FilesNext == (\E c \in Converges : Compare(c) \/ Write(c)) \/ Drift

FilesSpec == FilesInit /\ [][FilesNext]_<<files, found>>
=============================================================================
