--------------------------- MODULE MCBlockChoice ---------------------------
(* Instances of BlockChoice: two uploaders, a few small blocks. *)
EXTENDS BlockChoice, TLC

CONSTANTS ann, bob

two == {ann, bob}
\* All uploaders are of one network, or of two.
oneSize == [u \in Uploaders |-> 2]
twoSizes == ann :> 3 @@ bob :> 1
\* They have the whole file.
seeds == {Blocks}
anything == (SUBSET Blocks) \ {{}}
interchangeable == Permutations(Uploaders)
=============================================================================
