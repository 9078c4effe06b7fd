---------------------------- MODULE BlockChoice ----------------------------
(***************************************************************************)
(* Which uploader downloads what (commonSwarming.ml): the ranges, that is  *)
(* the holes, of the blocks of a swarmer, the blocks and the ranges each   *)
(* uploader has selected, and the counters kept beside them. Swarmer.tla   *)
(* has the bitmaps, the verification and the data.                         *)
(*                                                                         *)
(* A range is represented by its end: the end is its own as long as there  *)
(* is something left to receive. A completed range that is still in the    *)
(* list of an uploader is left out: all that happens to it is that it is   *)
(* taken off. The networks call the operations in any order. Which of the  *)
(* good blocks select_blocks takes (rarity, priorities, previews) is left  *)
(* open, the file is always downloading, and no uploader has a part of a   *)
(* block only: no network declares such parts. A block without hash, which *)
(* is verified as soon as it is complete, is verified in two steps.        *)
(***************************************************************************)
EXTENDS Integers, Sequences, FiniteSetsExt, SequencesExt

CONSTANTS
  Uploaders,
  s_size, block_size, chunk_blocks,  \* bytes, bytes of a block, blocks of a chunk
  Bitmaps,        \* sets of blocks that an uploader may have
  range_size,     \* what an uploader's network asks find_range for
  MaxRanges,      \* ranges a network asks for at a time
  Endgame         \* percentage from which a range is shared without a look around

ASSUME SizesAssumption ==
  /\ s_size \in Nat \ {0} /\ block_size \in Nat \ {0} /\ chunk_blocks \in Nat \ {0}
  /\ range_size \in [Uploaders -> Nat \ {0}] /\ MaxRanges \in Nat \ {0} /\ Endgame \in 0 .. 100
  /\ IsFiniteSet(Uploaders) /\ \A B \in Bitmaps : B \subseteq 0 .. (s_size - 1) \div block_size

VARIABLES
  s_blocks,
  range,                        \* the ranges of all PartialBlocks
  block_remaining, block_unselected_remaining,
  s_nuploading,
  up_complete_blocks,           \* the first up_ncomplete of them
  up_blocks,                    \* live: the block is still the one in s_blocks
  up_ranges,
  unwanted                      \* blocks whose priority is zero in s_priorities_bitmap

blockVars == <<s_blocks, range, block_remaining, block_unselected_remaining>>
uploaderVars == <<up_complete_blocks, up_blocks, up_ranges>>
vars == <<blockVars, s_nuploading, uploaderVars, unwanted>>

Blocks == 0 .. (s_size - 1) \div block_size
Chunk(i) == {j \in Blocks : j \div chunk_blocks = i \div chunk_blocks}
Begin(i) == i * block_size
End(i) == Min({Begin(i) + block_size, s_size})
BlockSize == [i \in Blocks |-> End(i) - Begin(i)]

Ranges == DOMAIN range
Block(r) == (r - 1) \div block_size
RangesOf(i) == {r \in Ranges : Block(r) = i}
Length == [r \in Ranges |-> r - range[r].begin]
Free(r) == range[r].nuploading = 0
Selected(u, i) == {k \in DOMAIN up_blocks[u] : up_blocks[u][k].num = i}

\* What the networks' operations change.
ListsOK ==
  /\ s_blocks \in [Blocks -> {"Empty", "Partial", "Complete", "Verified"}]
  /\ Ranges \subseteq 1 .. s_size
  /\ range \in [Ranges -> [begin : 0 .. s_size, nuploading : Nat]]
  /\ block_remaining \in [Blocks -> Int] /\ block_unselected_remaining \in [Blocks -> Int]
  /\ s_nuploading \in [Blocks -> Nat]
  /\ up_complete_blocks \in [Uploaders -> SUBSET Blocks]
  /\ up_blocks \in [Uploaders -> Seq([num : Blocks, live : BOOLEAN])]
  /\ up_ranges \in [Uploaders -> SUBSET (1 .. s_size)]

(* Every variable keeps its type. *)
TypeOK == ListsOK /\ unwanted \subseteq Blocks

Init ==
  /\ s_blocks = [i \in Blocks |-> "Empty"] /\ range = <<>>
  /\ block_remaining = [i \in Blocks |-> 0]
  /\ block_unselected_remaining = [i \in Blocks |-> 0]
  /\ s_nuploading = [i \in Blocks |-> 0]
  /\ up_complete_blocks = [u \in Uploaders |-> {}]
  /\ up_blocks = [u \in Uploaders |-> <<>>] /\ up_ranges = [u \in Uploaders |-> {}]
  /\ unwanted = {}

-----------------------------------------------------------------------------
(* Uploaders come, change and go. *)

\* Mutant: the ranges are dropped, but are still counted as selected.
KeepSelected(u) ==
  /\ up_ranges' = [up_ranges EXCEPT ![u] = {}]
  /\ range' = [r \in Ranges |->
       IF r \in up_ranges[u] /\ ~Free(r) THEN [range[r] EXCEPT !.nuploading = @ - 1] ELSE range[r]]
  /\ UNCHANGED block_unselected_remaining
clear_uploader_ranges(u) ==
  /\ up_ranges' = [up_ranges EXCEPT ![u] = {}]
  /\ range' = [r \in Ranges |->
       IF r \in up_ranges[u] /\ ~Free(r) THEN [range[r] EXCEPT !.nuploading = @ - 1] ELSE range[r]]
  /\ block_unselected_remaining' = [i \in Blocks |-> block_unselected_remaining[i] +
       SumFunctionOnSet(Length, {r \in up_ranges[u] \cap RangesOf(i) : range[r].nuploading <= 1})]

\* In clear_uploader_blocks and find_blocks.
NUploadingWithout(u) ==
  [i \in Blocks |-> IF s_nuploading[i] > 0 THEN s_nuploading[i] - Cardinality(Selected(u, i)) ELSE 0]

\* register_uploader, or update_uploader_intervals, which leaves the ranges.
SetIntervals(u, B) ==
  /\ s_nuploading' = NUploadingWithout(u)
  /\ up_blocks' = [up_blocks EXCEPT ![u] = <<>>]
  /\ up_complete_blocks' = [up_complete_blocks EXCEPT ![u] = B]
  /\ UNCHANGED <<blockVars, up_ranges>>

\* The other side has no slot for us any more.
ClearUploaderRanges(u) ==
  /\ up_ranges[u] # {} /\ clear_uploader_ranges(u)
  /\ UNCHANGED <<s_blocks, block_remaining, s_nuploading, up_complete_blocks, up_blocks>>

UnregisterUploader(u) ==
  /\ clear_uploader_ranges(u)
  /\ s_nuploading' = NUploadingWithout(u)
  /\ up_blocks' = [up_blocks EXCEPT ![u] = <<>>]
  /\ up_complete_blocks' = [up_complete_blocks EXCEPT ![u] = {}]
  /\ UNCHANGED <<s_blocks, block_remaining>>

-----------------------------------------------------------------------------
(* find_blocks. *)

Wanted(u) ==
  {i \in up_complete_blocks[u] : s_blocks[i] \in {"Empty", "Partial"} /\ i \notin unwanted}

\* select_blocks: wanted blocks of one chunk (those that are neighbours in
\* up_complete_blocks, which is permuted all the time), or with the linear
\* strategy one block; that one goes past unwanted blocks for good.
SelectBlocks(u) ==
  LET all == up_complete_blocks[u] IN
    (UNION {[blocks : SetToSeqs(S), left : {all \ S}] :
              S \in UNION {(SUBSET (Wanted(u) \cap Chunk(i))) \ {{}} : i \in Wanted(u)}})
      \cup {[blocks |-> <<i>>, left |-> all \ (passed \cup {i})] :
              i \in Wanted(u), passed \in SUBSET (all \ Wanted(u))}

\* new_block, for the blocks in E.
NewBlocks(E) ==
  /\ s_blocks' = [i \in Blocks |-> IF i \in E THEN "Partial" ELSE s_blocks[i]]
  /\ range' = [r \in Ranges \cup {End(i) : i \in E} |->
                 IF r \in Ranges THEN range[r] ELSE [begin |-> Begin(Block(r)), nuploading |-> 0]]
  /\ block_remaining' = [i \in Blocks |-> IF i \in E THEN BlockSize[i] ELSE block_remaining[i]]
  /\ block_unselected_remaining' =
       [i \in Blocks |-> IF i \in E THEN BlockSize[i] ELSE block_unselected_remaining[i]]

\* Mutant: the blocks selected before are still counted.
CountAgain(u) == s_nuploading
\* find_blocks first unselects the blocks the uploader had.
Unselect(u) == NUploadingWithout(u)

FindBlocks(u) ==
  \E choice \in SelectBlocks(u) :
    LET S == {choice.blocks[k] : k \in DOMAIN choice.blocks} IN
      /\ NewBlocks({i \in S : s_blocks[i] = "Empty"})
      /\ s_nuploading' = [i \in Blocks |-> Unselect(u)[i] + IF i \in S THEN 1 ELSE 0]
      /\ up_blocks' = [up_blocks EXCEPT ![u] =
                         [k \in DOMAIN choice.blocks |-> [num |-> choice.blocks[k], live |-> TRUE]]]
      /\ up_complete_blocks' = [up_complete_blocks EXCEPT ![u] = choice.left]
      /\ UNCHANGED up_ranges

\* Not_found.
FindNoBlock(u) ==
  /\ Wanted(u) = {} /\ (up_blocks[u] # <<>> \/ up_complete_blocks[u] # {})
  /\ s_nuploading' = NUploadingWithout(u)
  /\ up_blocks' = [up_blocks EXCEPT ![u] = <<>>]
  /\ up_complete_blocks' = [up_complete_blocks EXCEPT ![u] = {}]
  /\ UNCHANGED <<blockVars, up_ranges>>

-----------------------------------------------------------------------------
(* find_range. *)

\* The correct ranges that find_range comes to, each with the place of its
\* block in up_blocks.
Correct(u) ==
  {c \in [place : DOMAIN up_blocks[u], range : Ranges] :
     /\ up_blocks[u][c.place] = [num |-> Block(c.range), live |-> TRUE]
     /\ c.range \notin up_ranges[u]}
Before(c, d) == c.place < d.place \/ (c.place = d.place /\ c.range < d.range)

\* The first range without an uploader, or the last with the fewest.
Best(u, c) ==
  LET n(d) == range[d.range].nuploading IN
    \A d \in Correct(u) :
      /\ n(c) <= n(d)
      /\ n(d) = n(c) /\ d # c => IF n(c) = 0 THEN Before(c, d) ELSE Before(d, c)

\* Mutant: ranges that are being downloaded are merged too.
MergeAll(q, u) == TRUE
\* In iter_cluster: the range q may be merged with the ones before it.
Mergeable(q, u) == q \notin up_ranges[u] /\ Free(q)

\* iter_cluster: the ranges of the block that follow r without a gap, until
\* there are range_size bytes.
Cluster(r, u) ==
  {q \in RangesOf(Block(r)) :
     /\ q > r
     /\ \A p \in RangesOf(Block(r)) : r < p /\ p <= q =>
          /\ Mergeable(p, u) /\ range[p].begin \in Ranges
          /\ range[p].begin - range[r].begin < range_size[u]}

\* file_downloaded.
Downloaded == s_size - SumFunctionOnSet(Length, Ranges)
                - SumFunctionOnSet(BlockSize, {i \in Blocks : s_blocks[i] = "Empty"})
\* "is there really nothing else better elsewhere ?"
BetterElsewhere(u) ==
  /\ Downloaded < (s_size * Endgame) \div 100
  /\ \E i \in up_complete_blocks[u] :
       /\ Selected(u, i) = {} /\ i \notin unwanted
       /\ \/ s_blocks[i] = "Empty"
          \/ s_blocks[i] = "Partial" /\ block_unselected_remaining[i] > 0

\* split_range: at the end of the last block looked at, which may not be the
\* block of the range.
CutAt(r, u) ==
  Min({range[r].begin + range_size[u],
       End(IF Free(r) THEN Block(r) ELSE Last(up_blocks[u]).num)})

\* The best range r is merged with its cluster and split: it ends at e now.
FindRange(u) ==
  /\ Cardinality(up_ranges[u]) < MaxRanges
  /\ \E best \in Correct(u) :
     LET r == best.range
         merged == Cluster(r, u)
         end == Max(merged \cup {r})
         split == range[r].begin < CutAt(r, u) /\ CutAt(r, u) < end
         e == IF split THEN CutAt(r, u) ELSE end IN
       /\ Best(u, best)
       /\ ~Free(r) => ~BetterElsewhere(u)
       /\ range' = [q \in (Ranges \ (merged \cup {r})) \cup {e, end} |->
            IF q = e THEN [range[r] EXCEPT !.nuploading = @ + 1]
            ELSE IF q = end THEN [begin |-> e, nuploading |-> 0]
            ELSE range[q]]
       /\ up_ranges' = [v \in Uploaders |->
            IF v = u \/ r \in up_ranges[v] THEN (up_ranges[v] \ {r}) \cup {e} ELSE up_ranges[v]]
       /\ block_unselected_remaining' = [block_unselected_remaining EXCEPT ![Block(r)] =
            IF Free(r) THEN @ - (e - range[r].begin) ELSE @]
  /\ UNCHANGED <<s_blocks, block_remaining, s_nuploading, up_complete_blocks, up_blocks>>

-----------------------------------------------------------------------------
(* received, and blocks that are complete. *)

\* The ranges in R are closed, the blocks in D are complete.
Close(R, D) ==
  /\ up_ranges' = [u \in Uploaders |-> up_ranges[u] \ R]
  /\ s_blocks' = [i \in Blocks |-> IF i \in D THEN "Complete" ELSE s_blocks[i]]
  /\ up_blocks' = [u \in Uploaders |-> [k \in DOMAIN up_blocks[u] |->
       LET b == up_blocks[u][k] IN IF b.num \in D THEN [b EXCEPT !.live = FALSE] ELSE b]]

\* Data is received at the beginning of a range only.
Begins(r, lo, hi) == lo <= range[r].begin /\ range[r].begin < hi

\* Mutant: the first range of the block was closed, the next is not looked at.
FirstClosed(i, closed) == \E r \in closed \cap RangesOf(i) : \A q \in RangesOf(i) : r <= q
\* The last range of the block was closed.
AllClosed(i, closed) == RangesOf(i) \subseteq closed

\* The uploader sends bytes lo .. hi - 1.
Received(u, lo, hi) ==
  LET hit == {r \in up_ranges[u] : Begins(r, lo, hi)}
      new(r) == IF r \in hit THEN Min({hi, r}) ELSE range[r].begin
      gained == [r \in hit |-> new(r) - range[r].begin]
      closed == {r \in hit : new(r) = r}
      done == {i \in Blocks : s_blocks[i] = "Partial" /\ AllClosed(i, closed)} IN
    /\ hit # {}
    /\ range' = [r \in Ranges \ closed |-> [range[r] EXCEPT !.begin = new(r)]]
    /\ block_remaining' = [i \in Blocks |->
         block_remaining[i] - SumFunctionOnSet(gained, hit \cap RangesOf(i))]
    /\ block_unselected_remaining' = [i \in Blocks |->
         block_unselected_remaining[i] - SumFunctionOnSet(gained, {r \in hit \cap RangesOf(i) : Free(r)})]
    /\ Close(closed, done)
    /\ UNCHANGED <<s_nuploading, up_complete_blocks>>

\* set_completed_block on a block that has holes: its data was found elsewhere
\* (another frontend, another file). close_block_ranges closes those that are
\* selected, too.
CompleteBlock(i) ==
  /\ s_blocks[i] \in {"Empty", "Partial"}
  /\ range' = [r \in Ranges \ RangesOf(i) |-> range[r]]
  /\ block_remaining' =
       [block_remaining EXCEPT ![i] = @ - SumFunctionOnSet(Length, RangesOf(i))]
  /\ block_unselected_remaining' = [block_unselected_remaining EXCEPT ![i] =
       @ - SumFunctionOnSet(Length, {r \in RangesOf(i) : Free(r)})]
  /\ Close(RangesOf(i), {i})
  /\ UNCHANGED <<s_nuploading, up_complete_blocks>>

\* verify_chunk: the blocks are good, or lost (set_frontend_state_missing).
VerifyChunk(i) ==
  /\ \A j \in Chunk(i) : s_blocks[j] = "Complete"
  /\ \E state \in {"Verified", "Empty"} :
       s_blocks' = [j \in Blocks |-> IF j \in Chunk(i) THEN state ELSE s_blocks[j]]
  /\ UNCHANGED <<range, block_remaining, block_unselected_remaining, s_nuploading, uploaderVars>>

\* swarmer_set_interval: the user gives the blocks of a part of the file
\* priority zero, or another.
SetPriority(a, b) ==
  /\ unwanted' \in {unwanted \cup (a .. b), unwanted \ (a .. b)}
  /\ UNCHANGED <<blockVars, s_nuploading, uploaderVars>>

-----------------------------------------------------------------------------
Uploader(u) ==
  \/ \E B \in Bitmaps : SetIntervals(u, B)
  \/ ClearUploaderRanges(u) \/ UnregisterUploader(u)
  \/ FindBlocks(u) \/ FindNoBlock(u) \/ FindRange(u)
  \/ \E hi \in 1 .. s_size : \E lo \in 0 .. hi - 1 : Received(u, lo, hi)
Download == (\E u \in Uploaders : Uploader(u)) \/ \E i \in Blocks : CompleteBlock(i) \/ VerifyChunk(i)
Next == (Download /\ UNCHANGED unwanted) \/ \E a, b \in Blocks : SetPriority(a, b)
Spec == Init /\ [][Next]_vars

-----------------------------------------------------------------------------
(* Properties. *)

(* "range_nuploading: number of uploaders currently referencing that       *)
(* range", and s_nuploading of a block: both count what the uploaders'     *)
(* lists hold, whatever was selected, shared, closed or cleared.           *)
UploadersCounted ==
  /\ \A r \in Ranges : range[r].nuploading = Cardinality({u \in Uploaders : r \in up_ranges[u]})
  /\ \A i \in Blocks :
       s_nuploading[i] = Cardinality(UNION {{u} \X Selected(u, i) : u \in Uploaders})

(* The range invariants at the head of commonSwarming.ml: the ranges of a  *)
(* block are holes in it, in order and apart. What an uploader has         *)
(* selected is such a range, even after others have completed the block or *)
(* it was lost: nothing is written over data that is there already.        *)
RangesInvariant ==
  /\ \A r \in Ranges : /\ Begin(Block(r)) <= range[r].begin /\ range[r].begin < r
                       /\ \A q \in Ranges : q < r => q <= range[r].begin
  /\ \A i \in Blocks : (s_blocks[i] = "Partial") = (RangesOf(i) # {})
  /\ \A u \in Uploaders : up_ranges[u] \subseteq Ranges

(* "amount of bytes missing" and "same, less ranges selected for           *)
(* uploaders": the two counters of a block agree with its ranges. The      *)
(* choice of a block, and of whom to share a range with, rests on them.    *)
RemainingIsRight ==
  \A i \in Blocks :
    /\ block_remaining[i] = SumFunctionOnSet(Length, RangesOf(i))
    /\ block_unselected_remaining[i] = SumFunctionOnSet(Length, {r \in RangesOf(i) : Free(r)})
=============================================================================
