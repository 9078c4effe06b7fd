--------------------------- MODULE MCUploadSlots ---------------------------
(* Instances of UploadSlots with two or three clients and up to two files. *)
EXTENDS UploadSlots, TLC

CONSTANTS ann, bob, cyd, f1, f2

two == {ann, bob}
three == {ann, bob, cyd}
annOnly == {ann}

oneFile == {f1}
twoFiles == {f1, f2}
noFiles == {}
\* The second file is in a directory that may have a priority, the first not.
dirs == [f \in Files |-> IF f = f2 THEN "dir" ELSE "other"]
noPrio == [d \in {"dir", "other", ""} |-> 0]
onePrio == [d \in {"dir", "other", ""} |-> IF d = "dir" THEN 1 ELSE 0]

\* All clients are friends, and named only here.
alike == Permutations(Clients)

\* Values of the options.
both == BOOLEAN
yes == {TRUE}
no == {FALSE}
=============================================================================
