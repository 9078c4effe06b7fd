------------------------ MODULE SwarmerBlocksProofs ------------------------
(***************************************************************************)
(* Proofs that the parts of a swarmer agree: the blocks with their holes,  *)
(* s_verified_bitmap with s_blocks, the bitmaps of the frontends with the  *)
(* swarmer's. They rest on SwarmerProofs.                                  *)
(***************************************************************************)
EXTENDS SwarmerProofs

-----------------------------------------------------------------------------
(* The invariant. *)

\* Nobody runs verify_all_chunks, which changes s_verified_bitmap and the
\* downloaded size behind the back of s_blocks.
NoRecheck == EnvBound["recheck"] = 0

\* A block has one state.
Alike == \A x \in Bytes : \A y \in Block(x) :
           s_blocks[y] = s_blocks[x] /\ s_verified_bitmap[y] = s_verified_bitmap[x]

\* A primary without verification, which shares the swarmer with nobody.
Unverified == t_verifier[Primary] = "None"
NoneIsAlone ==
  /\ saved.verifier[Primary] = "None" <=> Unverified
  /\ Unverified => s_networks = {Primary} /\ saved.networks = {Primary}

\* In the ini files too the primary verifies first.
SavedCoherent ==
  \A t \in saved.networks \ {Primary} : \A x \in Bytes :
    saved.bitmap[t][ChunkOf(t, x)] \in {"complete", "verified"}
      => saved.bitmap[Primary][ChunkOf(Primary, x)] = "verified"

\* Without rechecks.
CoherentInv ==
  /\ SwarmerInvariant /\ PrimaryCoherent /\ SecondaryCoherent /\ SavedCoherent
  /\ SavedStaysVerified /\ CompletionEscalates

-----------------------------------------------------------------------------
(* Blocks *)

LEMMA ProductMonotone ==
  ASSUME NEW c \in Nat, NEW a \in Nat, NEW b \in Nat, b <= a
  PROVE  c * b <= c * a
<1>1. PICK k \in Nat : a = b + k
  <2>1. a - b \in Nat /\ a = b + (a - b)
    OBVIOUS
  <2> QED BY <2>1
<1>2. c * a = c * b + c * k
  BY <1>1
<1>3. c * k \in Nat /\ c * b \in Nat
  OBVIOUS
<1> QED BY <1>2, <1>3

LEMMA ChunkMonotone ==
  ASSUME NEW t \in Frontends, NEW x \in Bytes, NEW y \in Bytes, x <= y
  PROVE  ChunkOf(t, x) <= ChunkOf(t, y)
<1>1. t_chunk_size[t] \in Nat \ {0} /\ x \in Nat /\ y \in Nat
  BY ChunkSizeAssumption, SizeAssumption DEF Bytes
<1> DEFINE c == t_chunk_size[t]
           a == x \div c
           b == y \div c
<1>2. a \in Nat /\ b \in Nat /\ c * a <= x /\ y < c * (b + 1)
  BY <1>1
<1>3. ASSUME b < a PROVE FALSE
  <2> HIDE DEF a, b, c
  <2>1. b + 1 \in Nat /\ b + 1 <= a
    BY <1>2, <1>3
  <2>2. c \in Nat
    BY <1>1 DEF c
  <2>3. c * (b + 1) <= c * a
    BY <1>2, <2>1, <2>2, ProductMonotone
  <2>4. c * (b + 1) \in Nat /\ c * a \in Nat
    BY <1>2, <2>1, <2>2
  <2> QED BY <1>1, <1>2, <2>3, <2>4
<1> QED BY <1>1, <1>2, <1>3 DEF ChunkOf

\* A block holds its byte, and is the block of each of its bytes.
LEMMA BlockFacts ==
  ASSUME NEW nets, NEW x \in Bytes
  PROVE  /\ BlockIn(nets, x) \subseteq Bytes /\ x \in BlockIn(nets, x)
         /\ \A y \in BlockIn(nets, x) : BlockIn(nets, y) = BlockIn(nets, x)
         /\ \A y \in BlockIn(nets, x) : \A t \in nets : ChunkOf(t, y) = ChunkOf(t, x)
BY DEF BlockIn

\* A block is an interval.
LEMMA BlockConvex ==
  ASSUME NEW nets, nets \subseteq Frontends, NEW x \in Bytes, NEW z \in BlockIn(nets, x),
         NEW y \in Bytes, (x <= y /\ y <= z) \/ (z <= y /\ y <= x)
  PROVE  y \in BlockIn(nets, x)
<1> SUFFICES ASSUME NEW t \in nets PROVE ChunkOf(t, y) = ChunkOf(t, x)
  BY DEF BlockIn
<1>1. t \in Frontends /\ z \in Bytes /\ ChunkOf(t, z) = ChunkOf(t, x)
  BY DEF BlockIn
<1>2. \/ ChunkOf(t, x) <= ChunkOf(t, y) /\ ChunkOf(t, y) <= ChunkOf(t, z)
      \/ ChunkOf(t, z) <= ChunkOf(t, y) /\ ChunkOf(t, y) <= ChunkOf(t, x)
  BY <1>1, ChunkMonotone
<1>3. ChunkOf(t, x) \in Int /\ ChunkOf(t, y) \in Int
  BY <1>1, ChunkInRange DEF Bytes
<1> QED BY <1>1, <1>2, <1>3

-----------------------------------------------------------------------------
(* Holes *)

HolesInv == Alike /\ PartialBlocksHaveHoles

\* Sets of whole blocks.
Closed(S) == \A x \in Bytes : \A y \in Block(x) : y \in S <=> x \in S

LEMMA ClosedChunks ==
  ASSUME TypeOK, NEW t \in s_networks, NEW J
  PROVE  Closed({x \in Bytes : ChunkOf(t, x) \in J})
BY BlockFacts DEF Closed, Block

LEMMA ClosedMeets ==
  ASSUME NEW S, Closed(S), NEW x \in Bytes
  PROVE  (x \in S => Block(x) \subseteq S) /\ (x \notin S => Block(x) \cap S = {})
BY BlockFacts DEF Closed, Block

LEMMA HolesInit == Init => HolesInv
BY DEF Init, HolesInv, Alike, PartialBlocksHaveHoles, Block, BlockIn

LEMMA NewBlockHoles ==
  ASSUME TypeOK, HolesInv, NEW x \in Bytes, NewBlock(x)
  PROVE  HolesInv'
<1> DEFINE B == Block(x)
<1>1. /\ \A y \in Bytes : s_blocks'[y] = IF y \in B THEN "Partial" ELSE s_blocks[y]
      /\ ranges' = ranges \cup B /\ s_networks' = s_networks
  BY DEF NewBlock, Put, TypeOK
<1>2. \A y \in Bytes : s_verified_bitmap'[y] =
        IF y \in B /\ s_verified_bitmap[x] = "missing" THEN "partial" ELSE s_verified_bitmap[y]
  BY DEF NewBlock, Put, TypeOK
<1>3. Closed(B)
  BY BlockFacts DEF Closed, Block
<1> HIDE DEF B
<1>4. \A z \in Bytes : z \in Block(z) /\ Block(z) \subseteq Bytes
  BY BlockFacts DEF Block
<1>5. Alike'
  <2> SUFFICES ASSUME NEW y \in Bytes, NEW z \in Block(y)
               PROVE  /\ s_blocks'[z] = s_blocks'[y]
                      /\ s_verified_bitmap'[z] = s_verified_bitmap'[y]
    BY <1>1 DEF Alike, Block
  <2>1. z \in Bytes /\ (z \in B <=> y \in B)
    BY <1>3, <1>4 DEF Closed
  <2> QED BY <1>1, <1>2, <2>1 DEF HolesInv, Alike
<1>6. PartialBlocksHaveHoles'
  <2> SUFFICES ASSUME NEW z \in Bytes
               PROVE  s_blocks'[z] = "Partial" <=> Block(z) \cap ranges' # {}
    BY <1>1 DEF PartialBlocksHaveHoles, Block
  <2>1. CASE z \in B
    BY <1>1, <1>4, <2>1
  <2>2. CASE z \notin B
    <3>1. Block(z) \cap B = {}
      BY <1>3, <2>2, ClosedMeets
    <3> QED BY <1>1, <2>2, <3>1 DEF HolesInv, PartialBlocksHaveHoles
  <2> QED BY <2>1, <2>2
<1> QED BY <1>5, <1>6 DEF HolesInv

\* Whole blocks S become complete or verified, and lose their holes; the
\* others keep one if they had one.
LEMMA FillHoles ==
  ASSUME TypeOK, HolesInv, NEW S, Closed(S), NEW b, b # "Partial", NEW v,
         s_networks' = s_networks,
         \A y \in Bytes : s_blocks'[y] = IF y \in S THEN b ELSE s_blocks[y],
         \A y \in Bytes : s_verified_bitmap'[y] = IF y \in S THEN v ELSE s_verified_bitmap[y],
         ranges' \subseteq ranges,
         \A y \in S \cap Bytes : Block(y) \cap ranges' = {},
         \A y \in Bytes \ S : s_blocks[y] = "Partial" => Block(y) \cap ranges' # {}
  PROVE  HolesInv'
<1>1. \A z \in Bytes : z \in Block(z) /\ Block(z) \subseteq Bytes
  BY BlockFacts DEF Block
<1>2. Alike'
  <2> SUFFICES ASSUME NEW y \in Bytes, NEW z \in Block(y)
               PROVE  /\ s_blocks'[z] = s_blocks'[y]
                      /\ s_verified_bitmap'[z] = s_verified_bitmap'[y]
    BY DEF Alike, Block
  <2>1. z \in Bytes /\ (z \in S <=> y \in S)
    BY <1>1 DEF Closed
  <2> QED BY <2>1 DEF HolesInv, Alike
<1>3. PartialBlocksHaveHoles'
  <2> SUFFICES ASSUME NEW z \in Bytes
               PROVE  s_blocks'[z] = "Partial" <=> Block(z) \cap ranges' # {}
    BY DEF PartialBlocksHaveHoles, Block
  <2>1. CASE z \in S
    BY <2>1
  <2>2. CASE z \notin S
    BY <2>2 DEF HolesInv, PartialBlocksHaveHoles
  <2> QED BY <2>1, <2>2
<1> QED BY <1>2, <1>3 DEF HolesInv

LEMMA SetCompletedBlocks ==
  ASSUME TypeOK, NEW D, NEW block, SetCompleted(D, block)
  PROVE  /\ \A y \in Bytes : s_blocks'[y] = IF y \in D THEN block ELSE s_blocks[y]
         /\ \A y \in Bytes : s_verified_bitmap'[y] =
              IF y \in D THEN (IF block = "Verified" THEN "verified" ELSE "complete")
              ELSE s_verified_bitmap[y]
BY DEF SetCompleted, Put, TypeOK

\* The blocks that a range of bytes completes.
Filled(D) == {y \in Bytes : /\ s_blocks[y] = "Partial"
                            /\ Block(y) \cap D # {}
                            /\ Block(y) \cap ranges \subseteq D}

LEMMA ClosedFilled ==
  ASSUME TypeOK, HolesInv, NEW D
  PROVE  Closed(Filled(D))
<1> SUFFICES ASSUME NEW x \in Bytes, NEW y \in Block(x)
             PROVE  y \in Filled(D) <=> x \in Filled(D)
  BY DEF Closed
<1>1. y \in Bytes /\ Block(y) = Block(x)
  BY BlockFacts DEF Block
<1>2. s_blocks[y] = s_blocks[x]
  BY DEF HolesInv, Alike
<1> QED BY <1>1, <1>2 DEF Filled

LEMMA ReceivedHoles ==
  ASSUME TypeOK, HolesInv, NEW u \in Frontends, NEW a \in Bytes, NEW b \in Bytes,
         NEW ok \in BOOLEAN, Received(u, a, b, ok)
  PROVE  HolesInv'
<1> DEFINE D == (a .. b) \cap ranges
           block == IF t_verifier[Primary] = "None" THEN "Verified" ELSE "Complete"
<1>1. SetCompleted(Filled(D), block) /\ ranges' = ranges \ D /\ s_networks' = s_networks
  BY DEF Received, CloseRanges, Filled
<1>2. block # "Partial"
  OBVIOUS
<1> HIDE DEF D, block
<1>3. \A y \in Filled(D) \cap Bytes : Block(y) \cap ranges' = {}
  BY <1>1 DEF Filled
<1>4. \A y \in Bytes \ Filled(D) : s_blocks[y] = "Partial" => Block(y) \cap ranges' # {}
  BY <1>1 DEF Filled, HolesInv, PartialBlocksHaveHoles
<1>5. Closed(Filled(D))
  BY ClosedFilled
<1>6. ranges' \subseteq ranges
  BY <1>1
<1> QED BY <1>1, <1>2, <1>3, <1>4, <1>5, <1>6, SetCompletedBlocks, FillHoles

LEMMA PropagateHoles ==
  ASSUME TypeOK, HolesInv, NEW t \in Frontends, NEW j \in Chunks(t), PropagateChunk(t, j)
  PROVE  HolesInv'
<1> DEFINE D == {x \in BytesOf(t, j) : s_blocks[x] \in {"Empty", "Partial"}}
<1>1. /\ SetCompleted(D, "Complete") /\ ranges' = ranges \ D /\ s_networks' = s_networks
      /\ t \in s_networks
  BY DEF PropagateChunk, CloseRanges
<1>2. Closed(D)
  <2> SUFFICES ASSUME NEW x \in Bytes, NEW y \in Block(x)
               PROVE  y \in D <=> x \in D
    BY DEF Closed
  <2>1. y \in Bytes /\ ChunkOf(t, y) = ChunkOf(t, x)
    BY <1>1, BlockFacts DEF Block
  <2>2. s_blocks[y] = s_blocks[x]
    BY DEF HolesInv, Alike
  <2> QED BY <2>1, <2>2 DEF BytesOf
<1> HIDE DEF D
<1>3. \A y \in D \cap Bytes : Block(y) \cap ranges' = {}
  BY <1>1, <1>2, ClosedMeets
<1>4. \A y \in Bytes \ D : s_blocks[y] = "Partial" => Block(y) \cap ranges' # {}
  BY <1>1, <1>2, ClosedMeets DEF HolesInv, PartialBlocksHaveHoles
<1>5. ranges' \subseteq ranges
  BY <1>1
<1> QED BY <1>1, <1>2, <1>3, <1>4, <1>5, SetCompletedBlocks, FillHoles

LEMMA SetVerifiedBlocks ==
  ASSUME TypeOK, NEW t, NEW J, SetVerified(t, J)
  PROVE  /\ \A y \in Bytes : s_blocks'[y] =
              IF y \in VerifiedBlocks(t, J) THEN "Verified" ELSE s_blocks[y]
         /\ \A y \in Bytes : s_verified_bitmap'[y] =
              IF y \in VerifiedBlocks(t, J) THEN "verified" ELSE s_verified_bitmap[y]
         /\ ranges' = ranges \ VerifiedBlocks(t, J)
BY DEF SetVerified, Put, CloseRanges, TypeOK

LEMMA SetVerifiedHoles ==
  ASSUME TypeOK, HolesInv, NEW t, NEW J, SetVerified(t, J), s_networks' = s_networks
  PROVE  HolesInv'
<1> DEFINE V == VerifiedBlocks(t, J)
<1>1. Closed(V)
  <2> SUFFICES ASSUME NEW x \in Bytes, NEW y \in Block(x)
               PROVE  y \in V <=> x \in V
    BY DEF Closed
  <2>1. y \in Bytes /\ ChunkOf(Primary, y) = ChunkOf(Primary, x)
    BY BlockFacts DEF Block, TypeOK
  <2>2. s_blocks[y] = s_blocks[x]
    BY DEF HolesInv, Alike
  <2> QED BY <2>1, <2>2 DEF VerifiedBlocks
<1> HIDE DEF V
<1>2. /\ \A y \in Bytes : s_blocks'[y] = IF y \in V THEN "Verified" ELSE s_blocks[y]
      /\ \A y \in Bytes : s_verified_bitmap'[y] = IF y \in V THEN "verified"
                                                  ELSE s_verified_bitmap[y]
      /\ ranges' = ranges \ V
  BY SetVerifiedBlocks DEF V
<1>3. \A y \in V \cap Bytes : Block(y) \cap ranges' = {}
  BY <1>1, <1>2, ClosedMeets
<1>4. \A y \in Bytes \ V : s_blocks[y] = "Partial" => Block(y) \cap ranges' # {}
  BY <1>1, <1>2, ClosedMeets DEF HolesInv, PartialBlocksHaveHoles
<1>5. ranges' \subseteq ranges
  BY <1>2
<1> QED BY <1>1, <1>2, <1>3, <1>4, <1>5, FillHoles

\* The chunks that set_frontend_state_missing gets to, the ones that it resets,
\* and their blocks up to the first VerifiedBlock.
Failing(t, J) == Refused(t, J) \cup Halting(t, J)
Reached(t, J) == {j \in J \ Refused(t, J) : \A i \in Failing(t, J) : j <= i}
Reset(t, J) == {j \in Reached(t, J) : AllBlocksAre(s_verified_bitmap, t, j, "complete")}
Above(t, J) == {x \in Bytes :
                  /\ ChunkOf(t, x) \in Reset(t, J)
                  /\ \A y \in BytesOf(t, ChunkOf(t, x)) : s_blocks[y] = "Verified" => y < x}
Dropped(t, J) == {x \in Above(t, J) : s_blocks[x] = "Complete"}
Missed(t, J) == Dropped(t, J) \cup {x \in Above(t, J) : s_blocks[x] = "Empty"}

LEMMA SetMissingBlocks ==
  ASSUME TypeOK, NEW t \in Frontends, NEW J, SetMissing(t, J)
  PROVE  /\ \A y \in Bytes : s_blocks'[y] = IF y \in Dropped(t, J) THEN "Empty" ELSE s_blocks[y]
         /\ \A y \in Bytes : s_verified_bitmap'[y] =
              IF y \in Missed(t, J) THEN "missing" ELSE s_verified_bitmap[y]
         /\ ranges' = ranges
BY DEF SetMissing, Failing, Reached, Reset, Above, Dropped, Missed, Put, TypeOK

LEMMA ClosedAbove ==
  ASSUME TypeOK, HolesInv, NEW t \in s_networks, NEW J, NEW x \in Bytes, NEW y \in Block(x),
         s_blocks[x] # "Verified", x \in Above(t, J)
  PROVE  y \in Above(t, J)
<1>1. y \in Bytes /\ ChunkOf(t, y) = ChunkOf(t, x) /\ x \in Block(y) /\ Block(y) = Block(x)
  BY BlockFacts DEF Block
<1>2. ASSUME NEW z \in BytesOf(t, ChunkOf(t, x)), s_blocks[z] = "Verified", ~(z < y)
      PROVE  FALSE
  <2>1. z \in Bytes /\ z < x
    BY <1>2 DEF Above, BytesOf
  <2>2. y <= z /\ z <= x
    BY <1>1, <1>2, <2>1 DEF Bytes
  <2>3. z \in Block(x)
    BY <2>1, <2>2, BlockConvex DEF Block, TypeOK
  <2> QED BY <1>2, <2>3 DEF HolesInv, Alike
<1> QED BY <1>1, <1>2 DEF Above, BytesOf

LEMMA SetMissingHoles ==
  ASSUME TypeOK, HolesInv, NEW t \in s_networks, NEW J, SetMissing(t, J),
         s_networks' = s_networks
  PROVE  HolesInv'
<1>0. t \in Frontends
  BY DEF TypeOK
<1>1. Closed(Dropped(t, J)) /\ Closed(Missed(t, J))
  <2> SUFFICES ASSUME NEW x \in Bytes, NEW y \in Block(x)
               PROVE  /\ y \in Dropped(t, J) <=> x \in Dropped(t, J)
                      /\ y \in Missed(t, J) <=> x \in Missed(t, J)
    BY DEF Closed
  <2>1. s_blocks[y] = s_blocks[x] /\ y \in Bytes /\ x \in Block(y)
    BY BlockFacts DEF HolesInv, Alike, Block
  <2>2. s_blocks[x] # "Verified" => (y \in Above(t, J) <=> x \in Above(t, J))
    BY <2>1, ClosedAbove
  <2> QED BY <2>1, <2>2 DEF Dropped, Missed
<1>2. /\ \A y \in Bytes : s_blocks'[y] = IF y \in Dropped(t, J) THEN "Empty" ELSE s_blocks[y]
      /\ \A y \in Bytes : s_verified_bitmap'[y] =
           IF y \in Missed(t, J) THEN "missing" ELSE s_verified_bitmap[y]
      /\ ranges' = ranges
  BY <1>0, SetMissingBlocks
<1>3. Alike'
  <2> SUFFICES ASSUME NEW x \in Bytes, NEW y \in Block(x)
               PROVE  /\ s_blocks'[y] = s_blocks'[x]
                      /\ s_verified_bitmap'[y] = s_verified_bitmap'[x]
    BY DEF Alike, Block
  <2>1. s_blocks[y] = s_blocks[x] /\ s_verified_bitmap[y] = s_verified_bitmap[x] /\ y \in Bytes
    BY BlockFacts DEF HolesInv, Alike, Block
  <2> QED BY <1>1, <1>2, <2>1 DEF Closed
<1>4. \A x \in Bytes : s_blocks'[x] = "Partial" <=> s_blocks[x] = "Partial"
  BY <1>2 DEF Dropped
<1>5. PartialBlocksHaveHoles'
  BY <1>2, <1>4 DEF HolesInv, PartialBlocksHaveHoles, Block
<1> QED BY <1>3, <1>5 DEF HolesInv

LEMMA VerifyChunkHoles ==
  ASSUME TypeOK, HolesInv, NEW t \in Frontends, NEW j \in Chunks(t), VerifyChunk(t, j)
  PROVE  HolesInv'
<1>1. t \in s_networks /\ s_networks' = s_networks
  BY DEF VerifyChunk
<1>2. \E J : SetVerified(t, J) \/ SetMissing(t, J)
  BY DEF VerifyChunk
<1> QED BY <1>1, <1>2, SetVerifiedHoles, SetMissingHoles

LEMMA VerifyAllBlocks ==
  ASSUME TypeOK, VerifyAllChunks
  PROVE  \A y \in Bytes : s_verified_bitmap'[y] =
           IF s_verified_bitmap[y] \in {"missing", "verified"} THEN "complete"
           ELSE s_verified_bitmap[y]
BY DEF VerifyAllChunks, Put, TypeOK

LEMMA VerifyAllHoles ==
  ASSUME TypeOK, HolesInv, VerifyAllChunks
  PROVE  HolesInv'
<1>1. UNCHANGED <<s_networks, s_blocks, ranges>>
  BY DEF VerifyAllChunks
<1>2. \A x \in Bytes : Block(x) \subseteq Bytes
  BY BlockFacts DEF Block
<1>3. Alike'
  BY <1>1, <1>2, VerifyAllBlocks DEF HolesInv, Alike, Block
<1> QED BY <1>1, <1>3 DEF HolesInv, PartialBlocksHaveHoles, Block

LEMMA MergeBlocks ==
  ASSUME TypeOK, NEW t \in Frontends, Merge(t)
  PROVE  LET nets == s_networks \cup {t} IN
         /\ s_networks' = nets
         /\ \A x \in Bytes : s_blocks'[x] = IF x \in VoidPieces(nets) THEN "Empty"
              ELSE IF x \in FullPieces(nets) THEN "Complete" ELSE s_blocks[x]
         /\ \A x \in Bytes : s_verified_bitmap'[x] = IF x \in VoidPieces(nets) THEN "missing"
              ELSE IF x \in FullPieces(nets) THEN "complete" ELSE s_verified_bitmap[x]
         /\ ranges' = ranges \ VoidPieces(nets)
BY DEF Merge, Associated, SplitBitmap, Put, CloseRanges, TypeOK

\* A piece of a cut block is whole in the sets of pieces.
LEMMA PiecesClosed ==
  ASSUME TypeOK, HolesInv, NEW t \in Frontends, NEW x \in Bytes,
         NEW y \in BlockIn(s_networks \cup {t}, x)
  PROVE  LET nets == s_networks \cup {t} IN
         /\ y \in Block(x) /\ BlockIn(nets, y) = BlockIn(nets, x)
         /\ y \in Cut(nets) <=> x \in Cut(nets)
         /\ y \in FullPieces(nets) <=> x \in FullPieces(nets)
         /\ y \in VoidPieces(nets) <=> x \in VoidPieces(nets)
<1> DEFINE nets == s_networks \cup {t}
<1>1. y \in Bytes /\ y \in Block(x)
  BY DEF Block, BlockIn
<1>2. BlockIn(nets, y) = BlockIn(nets, x) /\ Block(y) = Block(x)
  BY <1>1, BlockFacts DEF Block
<1>3. s_blocks[y] = s_blocks[x]
  BY <1>1 DEF HolesInv, Alike
<1> HIDE DEF nets
<1>4. y \in Cut(nets) <=> x \in Cut(nets)
  BY <1>1, <1>2, <1>3 DEF Cut
<1>5. /\ y \in FullPieces(nets) <=> x \in FullPieces(nets)
      /\ y \in VoidPieces(nets) <=> x \in VoidPieces(nets)
  BY <1>2, <1>4 DEF FullPieces, VoidPieces
<1> QED BY <1>1, <1>2, <1>4, <1>5 DEF nets

LEMMA MergeHoles ==
  ASSUME TypeOK, HolesInv, NEW t \in Frontends, Merge(t)
  PROVE  HolesInv'
<1> DEFINE nets == s_networks \cup {t}
           full == FullPieces(nets)
           void == VoidPieces(nets)
<1>1. /\ s_networks' = nets
      /\ \A x \in Bytes : s_blocks'[x] = IF x \in void THEN "Empty"
           ELSE IF x \in full THEN "Complete" ELSE s_blocks[x]
      /\ \A x \in Bytes : s_verified_bitmap'[x] = IF x \in void THEN "missing"
           ELSE IF x \in full THEN "complete" ELSE s_verified_bitmap[x]
      /\ ranges' = ranges \ void
  BY MergeBlocks
<1>2. \A x \in Bytes : \A y \in BlockIn(nets, x) :
        /\ y \in Bytes /\ y \in Block(x)
        /\ y \in full <=> x \in full
        /\ y \in void <=> x \in void
  BY PiecesClosed DEF BlockIn
<1>3. Alike'
  <2> SUFFICES ASSUME NEW x \in Bytes, NEW y \in BlockIn(nets, x)
               PROVE  /\ s_blocks'[y] = s_blocks'[x]
                      /\ s_verified_bitmap'[y] = s_verified_bitmap'[x]
    BY <1>1 DEF Alike, Block
  <2> HIDE DEF nets, full, void
  <2> QED BY <1>1, <1>2 DEF HolesInv, Alike
<1>4. PartialBlocksHaveHoles'
  <2> SUFFICES ASSUME NEW x \in Bytes
               PROVE  s_blocks'[x] = "Partial" <=> BlockIn(nets, x) \cap ranges' # {}
    BY <1>1 DEF PartialBlocksHaveHoles, Block
  <2>1. CASE x \in void
    BY <1>1, <1>2, <2>1
  <2>2. CASE x \notin void /\ x \in full
    BY <1>1, <1>2, <2>2 DEF FullPieces
  <2>3. CASE x \notin void /\ x \notin full
    <3>1. s_blocks'[x] = s_blocks[x] /\ BlockIn(nets, x) \cap ranges' = BlockIn(nets, x) \cap ranges
      BY <1>1, <1>2, <2>3
    <3>2. CASE s_blocks[x] = "Partial" /\ x \in Cut(nets)
      BY <2>3, <3>1, <3>2 DEF FullPieces
    <3>3. CASE s_blocks[x] = "Partial" /\ x \notin Cut(nets)
      BY <3>1, <3>3 DEF Cut, HolesInv, PartialBlocksHaveHoles
    <3>4. CASE s_blocks[x] # "Partial"
      BY <1>2, <3>1, <3>4 DEF HolesInv, PartialBlocksHaveHoles
    <3> QED BY <3>2, <3>3, <3>4
  <2> QED BY <2>1, <2>2, <2>3
<1> QED BY <1>3, <1>4 DEF HolesInv

\* What a restart finds in the ini files: verified chunks of the primary,
\* complete blocks, and blocks of which a part is present.
RestV == {x \in Bytes : ChunkOf(Primary, x) \in Held(Primary, "verified")}
RestC == {x \in Bytes \ RestV :
            \/ \E t \in saved.networks : ChunkOf(t, x) \in Held(t, "complete")
            \/ WithinPresent(saved.networks, x)}
RestP == {x \in Bytes \ (RestV \cup RestC) :
            BlockIn(saved.networks, x) \cap saved.present # {}}

LEMMA RestartBlocks ==
  ASSUME TypeOK, NEW lost \in BOOLEAN, Restart(lost)
  PROVE  /\ s_networks' = saved.networks
         /\ s_blocks' = [x \in Bytes |->
              IF x \in RestV THEN "Verified" ELSE IF x \in RestC THEN "Complete"
              ELSE IF x \in RestP THEN "Partial" ELSE "Empty"]
         /\ s_verified_bitmap' = [x \in Bytes |->
              IF x \in RestV THEN "verified" ELSE IF x \in RestC THEN "complete"
              ELSE IF x \in RestP THEN "partial" ELSE "missing"]
         /\ ranges' = RestP \ saved.present
BY DEF Restart, RestV, RestC, RestP

LEMMA RestartHoles ==
  ASSUME TypeOK, NEW lost \in BOOLEAN, Restart(lost)
  PROVE  HolesInv'
<1> DEFINE nets == saved.networks
<1>1. ASSUME NEW x \in Bytes, NEW y \in BlockIn(nets, x)
      PROVE  /\ y \in Bytes /\ BlockIn(nets, y) = BlockIn(nets, x)
             /\ y \in RestV <=> x \in RestV
             /\ y \in RestC <=> x \in RestC
             /\ y \in RestP <=> x \in RestP
  <2>1. /\ y \in Bytes /\ BlockIn(nets, y) = BlockIn(nets, x)
        /\ \A t \in nets : ChunkOf(t, y) = ChunkOf(t, x)
    BY BlockFacts
  <2>2. Primary \in nets
    BY DEF TypeOK
  <2>3. y \in RestV <=> x \in RestV
    BY <2>1, <2>2 DEF RestV
  <2>4. y \in RestC <=> x \in RestC
    BY <2>1, <2>3 DEF RestC, WithinPresent
  <2> QED BY <2>1, <2>3, <2>4 DEF RestP
<1>2. Alike'
  BY <1>1, RestartBlocks DEF Alike, Block
<1>3. PartialBlocksHaveHoles'
  <2> SUFFICES ASSUME NEW x \in Bytes
               PROVE  s_blocks'[x] = "Partial"
                        <=> BlockIn(nets, x) \cap (RestP \ saved.present) # {}
    BY RestartBlocks DEF PartialBlocksHaveHoles, Block
  <2>1. s_blocks'[x] = "Partial" <=> x \in RestP
    BY RestartBlocks DEF RestP
  <2>2. CASE x \in RestP
    <3>1. ~(BlockIn(nets, x) \subseteq saved.present)
      BY <2>2 DEF RestP, RestC, WithinPresent
    <3> QED BY <1>1, <2>1, <2>2, <3>1
  <2>3. CASE x \notin RestP
    BY <1>1, <2>1, <2>3
  <2> QED BY <2>2, <2>3
<1> QED BY <1>2, <1>3 DEF HolesInv

LEMMA OtherHoles ==
  ASSUME HolesInv, UNCHANGED <<s_networks, s_blocks, s_verified_bitmap, ranges>>
  PROVE  HolesInv'
BY DEF HolesInv, Alike, PartialBlocksHaveHoles, Block

LEMMA HolesNext == TypeOK /\ HolesInv /\ [Next]_vars => HolesInv'
<1> SUFFICES ASSUME TypeOK, HolesInv, [Next]_vars PROVE HolesInv'
  OBVIOUS
<1>1. ASSUME NEW x \in Bytes, NewBlock(x) PROVE HolesInv'
  BY <1>1, NewBlockHoles
<1>2. ASSUME NEW u \in Frontends, NEW a \in Bytes, NEW b \in Bytes, NEW ok \in BOOLEAN,
             Received(u, a, b, ok)
      PROVE  HolesInv'
  BY <1>2, ReceivedHoles
<1>3. ASSUME NEW t \in Frontends, NEW j \in Chunks(t), VerifyChunk(t, j) PROVE HolesInv'
  BY <1>3, VerifyChunkHoles
<1>4. ASSUME NEW t \in Frontends, NEW j \in Chunks(t), PropagateChunk(t, j) PROVE HolesInv'
  BY <1>4, PropagateHoles
<1>5. ASSUME NEW t \in Frontends, SetVerifier(t) \/ Finish(t) PROVE HolesInv'
  BY <1>5, OtherHoles DEF SetVerifier, Finish, bitmaps
<1>6. ASSUME NEW t \in Frontends, Merge(t) PROVE HolesInv'
  BY <1>6, MergeHoles
<1>7. CASE VerifySomeChunks
  BY <1>7, <1>3 DEF VerifySomeChunks
<1>8. CASE VerifyAllChunks
  BY <1>8, VerifyAllHoles
<1>9. ASSUME NEW b \in BOOLEAN, Restart(b) PROVE HolesInv'
  BY <1>9, RestartHoles
<1>10. CASE \/ Flush \/ (\E x \in Bytes : Rot(x)) \/ (\E b \in BOOLEAN : Save(b))
            \/ UNCHANGED vars
  BY <1>10, OtherHoles DEF Flush, Rot, Save, bitmaps, vars
<1> QED
  BY <1>1, <1>2, <1>3, <1>4, <1>5, <1>6, <1>7, <1>8, <1>9, <1>10 DEF Next

\* A PartialBlock has a hole, and only PartialBlocks have: no block is left
\* that is never asked for again and never completes, whatever is received,
\* split by a merge, verified, rechecked or restored after a crash.
THEOREM HolesArePlaced == Spec => []PartialBlocksHaveHoles
<1>1. Init => TypeOK /\ HolesInv
  BY InitType, HolesInit
<1>2. TypeOK /\ HolesInv /\ [Next]_vars => TypeOK' /\ HolesInv'
  BY NextType, HolesNext
<1>3. HolesInv => PartialBlocksHaveHoles
  BY DEF HolesInv
<1> QED BY <1>1, <1>2, <1>3, PTL DEF Spec

-----------------------------------------------------------------------------
(* What the operations do to the bitmaps of the frontends *)

LEMMA NewBlockBitmap ==
  ASSUME TypeOK, NEW x \in Bytes, NewBlock(x), NEW t \in Frontends, NEW j \in Bytes
  PROVE  \/ t_bitmap'[t][j] = t_bitmap[t][j]
         \/ t_bitmap[t][j] = "missing" /\ t_bitmap'[t][j] = "partial"
<1>1. CASE s_verified_bitmap[x] = "missing" /\ t \in s_networks
  <2>1. t_bitmap'[t] = Put(t_bitmap[t],
          {k \in Touched(t, Block(x)) : t_bitmap[t][k] = "missing"}, "partial")
    BY <1>1 DEF NewBlock
  <2>2. t_bitmap[t] \in [Bytes -> VBState]
    BY DEF TypeOK
  <2> QED BY <2>1, <2>2 DEF Put
<1>2. CASE ~(s_verified_bitmap[x] = "missing" /\ t \in s_networks)
  BY <1>2 DEF NewBlock
<1> QED BY <1>1, <1>2

\* The chunks of the primary that set_completed_block makes complete.
Completes(D) ==
  Escalated(Put(s_verified_bitmap, D, "complete"), {y \in D : s_verified_bitmap[y] # "complete"})

LEMMA SetCompletedBitmap ==
  ASSUME TypeOK, NEW D, NEW block, SetCompleted(D, block)
  PROVE  /\ \A t \in Frontends \ {Primary} : t_bitmap'[t] = t_bitmap[t]
         /\ \A j \in Bytes : t_bitmap'[Primary][j] =
              IF j \in Completes(D) THEN "complete" ELSE t_bitmap[Primary][j]
<1>1. t_bitmap' = [t_bitmap EXCEPT ![Primary] = Put(@, Completes(D), "complete")]
  BY DEF SetCompleted, Completes
<1> QED BY <1>1, FrontendsAssumption DEF Put, TypeOK

\* The chunks of the frontend u that set_swarmer_state_verified passes a
\* verification of the chunks J of t on to.
Trusts(u) == t_verifier[u] \in {"None", "NotAvailable"}
Passed(t, J, u) ==
  {k \in Touched(u, VerifiedBlocks(t, J)) :
     /\ u \in s_networks \ {Primary}
     /\ t_verifier[Primary] \notin {"None", "NotAvailable"}
     /\ AllBlocksAre(Put(s_verified_bitmap, VerifiedBlocks(t, J), "verified"), u, k, "verified")
     /\ t_bitmap[u][k] \in IF Trusts(u) THEN {"missing", "partial", "complete"}
                           ELSE {"missing", "partial"}}

LEMMA SetVerifiedBitmap ==
  ASSUME TypeOK, NEW t \in Frontends, NEW J, SetVerified(t, J)
  PROVE  /\ \A j \in Bytes : t_bitmap'[t][j] = IF j \in J THEN "verified" ELSE t_bitmap[t][j]
         /\ \A u \in Frontends \ {t} : \A j \in Bytes : t_bitmap'[u][j] =
              IF j \in Passed(t, J, u) THEN (IF Trusts(u) THEN "verified" ELSE "complete")
              ELSE t_bitmap[u][j]
         /\ \A u \in Frontends : \A k \in Passed(t, J, u) :
              AllBlocksAre(s_verified_bitmap', u, k, "verified")
<1>1. t_bitmap' = [u \in Frontends |->
        IF u = t THEN Put(t_bitmap[u], J, "verified")
        ELSE Put(t_bitmap[u], Passed(t, J, u), IF Trusts(u) THEN "verified" ELSE "complete")]
  BY DEF SetVerified, Passed, Trusts
<1>2. s_verified_bitmap' = Put(s_verified_bitmap, VerifiedBlocks(t, J), "verified")
  BY DEF SetVerified
<1>3. t_bitmap'[t] = Put(t_bitmap[t], J, "verified") /\ t_bitmap[t] \in [Bytes -> VBState]
  BY <1>1 DEF TypeOK
<1>4. ASSUME NEW u \in Frontends \ {t}, NEW j \in Bytes
      PROVE  t_bitmap'[u][j] =
               IF j \in Passed(t, J, u) THEN (IF Trusts(u) THEN "verified" ELSE "complete")
               ELSE t_bitmap[u][j]
  <2>1. /\ t_bitmap'[u] = Put(t_bitmap[u], Passed(t, J, u),
                              IF Trusts(u) THEN "verified" ELSE "complete")
        /\ t_bitmap[u] \in [Bytes -> VBState]
    BY <1>1 DEF TypeOK
  <2> QED BY <2>1 DEF Put
<1>5. \A j \in Bytes : t_bitmap'[t][j] = IF j \in J THEN "verified" ELSE t_bitmap[t][j]
  BY <1>3 DEF Put
<1>6. \A u \in Frontends : \A k \in Passed(t, J, u) :
        AllBlocksAre(s_verified_bitmap', u, k, "verified")
  BY <1>2 DEF Passed
<1> QED BY <1>4, <1>5, <1>6

\* The chunks of u that lost all that they had.
Emptied(t, J, u) ==
  {k \in Touched(u, Missed(t, J)) :
     /\ u \in s_networks /\ t_bitmap[u][k] = "partial"
     /\ AllBlocksAre(Put(s_verified_bitmap, Missed(t, J), "missing"), u, k, "missing")}

LEMMA SetMissingBitmap ==
  ASSUME TypeOK, NEW t \in Frontends, NEW J, SetMissing(t, J)
  PROVE  /\ \A j \in Bytes : t_bitmap'[t][j] = IF j \in Reset(t, J) THEN "missing"
              ELSE IF j \in Reached(t, J) THEN "partial" ELSE t_bitmap[t][j]
         /\ \A u \in Frontends \ {t} : \A j \in Bytes : t_bitmap'[u][j] =
              IF j \in Emptied(t, J, u) THEN "missing" ELSE t_bitmap[u][j]
<1>1. t_bitmap' = [u \in Frontends |->
        IF u = t THEN [j \in Bytes |-> IF j \in Reset(t, J) THEN "missing"
                         ELSE IF j \in Reached(t, J) THEN "partial" ELSE t_bitmap[t][j]]
        ELSE Put(t_bitmap[u], Emptied(t, J, u), "missing")]
  BY DEF SetMissing, Failing, Reached, Reset, Above, Dropped, Missed, Emptied
<1>2. \A j \in Bytes : t_bitmap'[t][j] = IF j \in Reset(t, J) THEN "missing"
              ELSE IF j \in Reached(t, J) THEN "partial" ELSE t_bitmap[t][j]
  BY <1>1
<1>3. ASSUME NEW u \in Frontends \ {t}, NEW j \in Bytes
      PROVE  t_bitmap'[u][j] = IF j \in Emptied(t, J, u) THEN "missing" ELSE t_bitmap[u][j]
  <2>1. /\ t_bitmap'[u] = Put(t_bitmap[u], Emptied(t, J, u), "missing")
        /\ t_bitmap[u] \in [Bytes -> VBState]
    BY <1>1 DEF TypeOK
  <2> QED BY <2>1 DEF Put
<1> QED BY <1>2, <1>3

LEMMA MergeBitmap ==
  ASSUME TypeOK, NEW t \in Frontends, Merge(t)
  PROVE  /\ t # Primary
         /\ \A j \in Bytes : t_bitmap'[t][j] = "missing"
         /\ \A u \in Frontends \ {t} : t_bitmap'[u] = t_bitmap[u]
BY DEF Merge, TypeOK

RestVerified(t) == IF t \in saved.networks THEN Held(t, "verified") ELSE {}

LEMMA RestartBitmap ==
  ASSUME TypeOK, NEW lost \in BOOLEAN, Restart(lost)
  PROVE  /\ \A j \in Bytes : t_bitmap'[Primary][j] =
              IF j \in Held(Primary, "verified") THEN "verified"
              ELSE IF j \in WholeChunks(RestC) THEN "complete"
              ELSE IF j \in Touched(Primary, RestP) THEN "partial" ELSE "missing"
         /\ \A t \in Frontends \ {Primary} : \A j \in Bytes : t_bitmap'[t][j] =
              IF j \in RestVerified(t) THEN "verified" ELSE "missing"
<1>1. t_bitmap' = [t \in Frontends |-> [j \in Bytes |->
        IF j \in RestVerified(t) THEN "verified"
        ELSE IF t = Primary /\ j \in WholeChunks(RestC) THEN "complete"
        ELSE IF t = Primary /\ j \in Touched(Primary, RestP) THEN "partial" ELSE "missing"]]
  BY DEF Restart, RestVerified, RestV, RestC, RestP
<1>2. RestVerified(Primary) = Held(Primary, "verified")
  BY DEF RestVerified, TypeOK
<1> QED BY <1>1, <1>2, FrontendsAssumption

-----------------------------------------------------------------------------
(* Coherence of the bitmaps, without rechecks *)

LEMMA NoneNext == TypeOK /\ NoneIsAlone /\ [Next]_vars => NoneIsAlone'
<1> SUFFICES ASSUME TypeOK, NoneIsAlone, [Next]_vars PROVE NoneIsAlone'
  OBVIOUS
<1>1. ASSUME UNCHANGED <<s_networks, saved, t_verifier>> PROVE NoneIsAlone'
  BY <1>1 DEF NoneIsAlone, Unverified
<1>2. ASSUME NEW t \in Frontends, SetVerifier(t) PROVE NoneIsAlone'
  <2>1. s_networks' = s_networks /\ saved' = saved
    BY <1>2 DEF SetVerifier
  <2>2. Unverified' <=> Unverified
    BY <1>2, FrontendsAssumption DEF SetVerifier, TypeOK, Unverified
  <2> QED BY <2>1, <2>2 DEF NoneIsAlone
<1>3. ASSUME NEW t \in Frontends, Merge(t) PROVE NoneIsAlone'
  <2>1. saved' = saved /\ t_verifier' = t_verifier /\ ~Unverified
    BY <1>3 DEF Merge, Unverified, Hashing
  <2> QED BY <2>1 DEF NoneIsAlone, Unverified
<1>4. ASSUME NEW b \in BOOLEAN, Save(b) PROVE NoneIsAlone'
  BY <1>4 DEF Save, Snapshot, NoneIsAlone, Unverified
<1>5. ASSUME NEW b \in BOOLEAN, Restart(b) PROVE NoneIsAlone'
  BY <1>5 DEF Restart, NoneIsAlone, Unverified
<1>6. CASE \/ \E x \in Bytes : NewBlock(x) \/ Rot(x)
           \/ \E u \in Frontends : \E a, b \in Bytes : \E ok \in BOOLEAN : Received(u, a, b, ok)
           \/ \E t \in Frontends : \/ \E j \in Chunks(t) : VerifyChunk(t, j) \/ PropagateChunk(t, j)
                                   \/ Finish(t)
           \/ VerifySomeChunks \/ VerifyAllChunks \/ Flush \/ UNCHANGED vars
  <2>1. ASSUME NEW x \in Bytes, NewBlock(x) \/ Rot(x)
        PROVE  UNCHANGED <<s_networks, saved, t_verifier>>
    BY <2>1 DEF NewBlock, Rot
  <2>2. ASSUME NEW u \in Frontends, NEW a \in Bytes, NEW b \in Bytes, NEW ok \in BOOLEAN,
               Received(u, a, b, ok)
        PROVE  UNCHANGED <<s_networks, saved, t_verifier>>
    BY <2>2 DEF Received
  <2>3. ASSUME NEW t \in Frontends, NEW j \in Chunks(t), VerifyChunk(t, j)
        PROVE  UNCHANGED <<s_networks, saved, t_verifier>>
    BY <2>3 DEF VerifyChunk
  <2>4. ASSUME NEW t \in Frontends, NEW j \in Chunks(t), PropagateChunk(t, j)
        PROVE  UNCHANGED <<s_networks, saved, t_verifier>>
    BY <2>4 DEF PropagateChunk
  <2>5. ASSUME NEW t \in Frontends, Finish(t)
        PROVE  UNCHANGED <<s_networks, saved, t_verifier>>
    BY <2>5 DEF Finish
  <2>6. ASSUME VerifySomeChunks PROVE UNCHANGED <<s_networks, saved, t_verifier>>
    BY <2>3, <2>6 DEF VerifySomeChunks
  <2>7. ASSUME VerifyAllChunks \/ Flush \/ UNCHANGED vars
        PROVE  UNCHANGED <<s_networks, saved, t_verifier>>
    BY <2>7 DEF VerifyAllChunks, Flush, vars
  <2> QED BY <1>1, <1>6, <2>1, <2>2, <2>3, <2>4, <2>5, <2>6, <2>7
<1> QED BY <1>2, <1>3, <1>4, <1>5, <1>6 DEF Next

CoreInv == DataInv /\ HolesInv /\ NoneIsAlone

LEMMA CoreInit == Init => CoreInv
<1>1. Init => NoneIsAlone
  BY DEF Init, Snapshot, NoneIsAlone, Unverified
<1> QED BY <1>1, InitType, DataInit, HolesInit DEF CoreInv, DataInv

LEMMA CoreNext == CoreInv /\ [Next]_vars => CoreInv'
BY DataNext, HolesNext, NoneNext DEF CoreInv, DataInv

\* What is left to show of a step that leaves the ini files, the frontends
\* and the verifiers alone.
LEMMA CoherentStep ==
  ASSUME CoreInv, CoreInv', CoherentInv, saved' = saved,
         s_networks' = s_networks, Unverified' <=> Unverified,
         SwarmerInvariant', CompletionEscalates',
         \A x \in Bytes : s_blocks[x] = "Verified" => s_blocks'[x] = "Verified",
         \A j \in Bytes : t_bitmap[Primary][j] = "verified" => t_bitmap'[Primary][j] = "verified",
         ~Unverified => \A x \in Bytes : s_blocks'[x] = "Verified" /\ s_blocks[x] # "Verified" =>
                          t_bitmap'[Primary][ChunkOf(Primary, x)] = "verified",
         \A t \in s_networks \ {Primary} : \A x \in Bytes :
           t_bitmap'[t][ChunkOf(t, x)] \in {"complete", "verified"} =>
             Chosen(t, x) \in {"complete", "verified"} \/ s_blocks'[x] = "Verified"
  PROVE  CoherentInv'
<1>1. \A t \in Frontends : \A x \in Bytes : ChunkOf(t, x) \in Bytes
  BY ChunkInRange
<1>2. \A x \in Bytes : (s_verified_bitmap[x] = "verified" <=> s_blocks[x] = "Verified")
  BY DEF CoherentInv, SwarmerInvariant
<1>3. \A x \in Bytes : s_verified_bitmap'[x] = "verified" <=> s_blocks'[x] = "Verified"
  BY DEF SwarmerInvariant
<1>4. PrimaryCoherent'
  <2> SUFFICES ASSUME ~Unverified', NEW x \in Bytes
               PROVE  t_bitmap'[Primary][ChunkOf(Primary, x)] = "verified"
                        <=> s_verified_bitmap'[x] = "verified"
    BY DEF PrimaryCoherent, Unverified, Chosen
  <2>1. t_bitmap'[Primary][ChunkOf(Primary, x)] = "verified" => s_blocks'[x] = "Verified"
    BY DEF CoreInv, DataInv, Grounded, VerifiedIsBlock, Chosen
  <2>2. s_blocks[x] = "Verified" => t_bitmap[Primary][ChunkOf(Primary, x)] = "verified"
    BY <1>2 DEF CoherentInv, PrimaryCoherent, Unverified, Chosen
  <2>3. s_blocks'[x] = "Verified" => t_bitmap'[Primary][ChunkOf(Primary, x)] = "verified"
    BY <1>1, <2>2, FrontendsAssumption
  <2> QED BY <1>3, <2>1, <2>3
<1>5. SecondaryCoherent'
  <2> SUFFICES ASSUME NEW t \in s_networks \ {Primary}, NEW x \in Bytes,
                      t_bitmap'[t][ChunkOf(t, x)] \in {"complete", "verified"}
               PROVE  s_verified_bitmap'[x] = "verified"
    BY DEF SecondaryCoherent, Chosen
  <2>1. s_blocks'[x] = "Verified"
    BY <1>2 DEF CoherentInv, SecondaryCoherent
  <2> QED BY <1>3, <2>1
<1>6. SavedStaysVerified'
  BY ChunksType, FrontendsAssumption DEF CoherentInv, SavedStaysVerified
<1>7. SavedCoherent'
  BY DEF CoherentInv, SavedCoherent
<1> QED BY <1>4, <1>5, <1>6, <1>7 DEF CoherentInv

\* The chunks of the primary have bytes.
LEMMA ChunkNotEmpty ==
  ASSUME NEW j \in Chunks(Primary)
  PROVE  \E x \in Bytes : x \in BytesOf(Primary, j)
BY DEF Chunks, BytesOf

LEMMA NewBlockCoherent ==
  ASSUME CoreInv, CoreInv', CoherentInv, NEW x \in Bytes, NewBlock(x)
  PROVE  CoherentInv'
<1> DEFINE B == Block(x)
<1>1. /\ \A y \in Bytes : s_blocks'[y] = IF y \in B THEN "Partial" ELSE s_blocks[y]
      /\ \A y \in B : s_blocks[y] = "Empty"
      /\ UNCHANGED <<s_networks, t_verifier, saved>>
      /\ x \in B
  BY BlockFacts DEF NewBlock, Put, CoreInv, DataInv, TypeOK, Block
<1>2. s_verified_bitmap[x] = "missing"
  BY <1>1 DEF CoherentInv, SwarmerInvariant
<1>3. \A y \in Bytes : s_verified_bitmap'[y] = IF y \in B THEN "partial" ELSE s_verified_bitmap[y]
  BY <1>2 DEF NewBlock, Put, CoreInv, DataInv, TypeOK
<1>4. \A t \in Frontends : \A j \in Bytes :
        \/ t_bitmap'[t][j] = t_bitmap[t][j]
        \/ t_bitmap[t][j] = "missing" /\ t_bitmap'[t][j] = "partial"
  BY NewBlockBitmap DEF CoreInv, DataInv
<1> HIDE DEF B
<1>5. SwarmerInvariant'
  BY <1>1, <1>3 DEF CoherentInv, SwarmerInvariant
<1>6. CompletionEscalates'
  <2> SUFFICES ASSUME NEW j \in Chunks(Primary),
                      \A y \in BytesOf(Primary, j) : s_blocks'[y] = "Complete"
               PROVE  t_bitmap'[Primary][j] = "complete"
    BY DEF CompletionEscalates
  <2>1. \A y \in BytesOf(Primary, j) : s_blocks[y] = "Complete"
    BY <1>1 DEF BytesOf
  <2>2. t_bitmap[Primary][j] = "complete" /\ j \in Bytes
    BY <2>1, ChunksType, FrontendsAssumption DEF CoherentInv, CompletionEscalates
  <2> QED BY <1>4, <2>2, FrontendsAssumption
<1>7. \A y \in Bytes : s_blocks'[y] = "Verified" <=> s_blocks[y] = "Verified"
  BY <1>1
<1>8. \A j \in Bytes : t_bitmap[Primary][j] = "verified" => t_bitmap'[Primary][j] = "verified"
  BY <1>4, FrontendsAssumption
<1>9. \A t \in s_networks \ {Primary} : \A y \in Bytes :
        t_bitmap'[t][ChunkOf(t, y)] \in {"complete", "verified"} =>
          Chosen(t, y) \in {"complete", "verified"}
  BY <1>4, ChunkInRange DEF Chosen, CoreInv, DataInv, TypeOK
<1>10. Unverified' <=> Unverified
  BY <1>1 DEF Unverified
<1> QED BY <1>1, <1>5, <1>6, <1>7, <1>8, <1>9, <1>10, CoherentStep

\* set_completed_block, over blocks that are empty or partial.
LEMMA SetCompletedCoherent ==
  ASSUME CoreInv, CoreInv', CoherentInv, NEW D, D \subseteq Bytes,
         \A y \in D : s_blocks[y] \in {"Empty", "Partial"},
         NEW block \in {"Complete", "Verified"}, block = "Verified" => Unverified,
         SetCompleted(D, block), UNCHANGED <<s_networks, t_verifier, saved>>
  PROVE  CoherentInv'
<1>1. TypeOK
  BY DEF CoreInv, DataInv
<1>2. /\ \A y \in Bytes : s_blocks'[y] = IF y \in D THEN block ELSE s_blocks[y]
      /\ \A y \in Bytes : s_verified_bitmap'[y] =
           IF y \in D THEN (IF block = "Verified" THEN "verified" ELSE "complete")
           ELSE s_verified_bitmap[y]
  BY <1>1, SetCompletedBlocks
<1>3. /\ \A t \in Frontends \ {Primary} : t_bitmap'[t] = t_bitmap[t]
      /\ \A j \in Bytes : t_bitmap'[Primary][j] =
           IF j \in Completes(D) THEN "complete" ELSE t_bitmap[Primary][j]
  BY <1>1, SetCompletedBitmap
<1>4. SwarmerInvariant'
  BY <1>2 DEF CoherentInv, SwarmerInvariant
<1>5. \A j \in Completes(D) : t_bitmap[Primary][j] \in {"missing", "partial"}
  BY DEF Completes, Escalated
<1>6. CompletionEscalates'
  <2> SUFFICES ASSUME NEW j \in Chunks(Primary),
                      \A y \in BytesOf(Primary, j) : s_blocks'[y] = "Complete"
               PROVE  t_bitmap'[Primary][j] = "complete"
    BY DEF CompletionEscalates
  <2>1. j \in Bytes /\ t_bitmap[Primary][j] \in VBState
    BY <1>1, ChunksType, FrontendsAssumption DEF TypeOK
  <2>2. CASE BytesOf(Primary, j) \cap D = {}
    <3>1. \A y \in BytesOf(Primary, j) : s_blocks[y] = "Complete"
      BY <1>2, <2>2 DEF BytesOf
    <3>2. t_bitmap[Primary][j] = "complete"
      BY <3>1 DEF CoherentInv, CompletionEscalates
    <3> QED BY <1>3, <2>1, <3>2
  <2>3. ASSUME NEW y \in BytesOf(Primary, j) \cap D
        PROVE  t_bitmap'[Primary][j] = "complete"
    <3>1. y \in Bytes /\ ChunkOf(Primary, y) = j /\ s_verified_bitmap[y] # "complete"
      BY DEF BytesOf, CoherentInv, SwarmerInvariant
    <3>2. j \in Touched(Primary, {z \in D : s_verified_bitmap[z] # "complete"})
      BY <3>1 DEF Touched
    <3>3. AllBlocksAre(Put(s_verified_bitmap, D, "complete"), Primary, j, "complete")
      <4> SUFFICES ASSUME NEW z \in BytesOf(Primary, j)
                   PROVE  Put(s_verified_bitmap, D, "complete")[z] = "complete"
        BY DEF AllBlocksAre
      <4>1. z \in Bytes /\ (z \notin D => s_blocks[z] = "Complete")
        BY <1>2 DEF BytesOf
      <4>2. z \notin D => s_verified_bitmap[z] = "complete"
        BY <4>1 DEF CoherentInv, SwarmerInvariant
      <4> QED BY <1>1, <4>1, <4>2 DEF Put, TypeOK
    <3>4. t_bitmap[Primary][j] # "verified"
      BY <3>1 DEF CoreInv, DataInv, Grounded, VerifiedIsBlock, Chosen
    <3>5. t_bitmap[Primary][j] \in {"missing", "partial"} => j \in Completes(D)
      BY <3>2, <3>3 DEF Completes, Escalated
    <3> QED BY <1>3, <2>1, <3>4, <3>5 DEF VBState
  <2> QED BY <2>2, <2>3
<1>7. \A y \in Bytes : s_blocks[y] = "Verified" => s_blocks'[y] = "Verified"
  BY <1>2
<1>8. \A j \in Bytes : t_bitmap[Primary][j] = "verified" => t_bitmap'[Primary][j] = "verified"
  BY <1>3, <1>5
<1>9. ~Unverified => \A y \in Bytes : s_blocks'[y] = "Verified" => s_blocks[y] = "Verified"
  BY <1>2
<1>10. \A t \in s_networks \ {Primary} : \A y \in Bytes :
         t_bitmap'[t][ChunkOf(t, y)] = Chosen(t, y)
  BY <1>1, <1>3 DEF Chosen, TypeOK
<1>11. Unverified' <=> Unverified
  BY DEF Unverified
<1> QED BY <1>4, <1>6, <1>7, <1>8, <1>9, <1>10, <1>11, CoherentStep

LEMMA ReceivedCoherent ==
  ASSUME CoreInv, CoreInv', CoherentInv, NEW u \in Frontends, NEW a \in Bytes, NEW b \in Bytes,
         NEW ok \in BOOLEAN, Received(u, a, b, ok)
  PROVE  CoherentInv'
<1> DEFINE D == Filled((a .. b) \cap ranges)
           block == IF t_verifier[Primary] = "None" THEN "Verified" ELSE "Complete"
<1>1. SetCompleted(D, block) /\ UNCHANGED <<s_networks, t_verifier, saved>>
  BY DEF Received, Filled
<1>2. D \subseteq Bytes /\ \A y \in D : s_blocks[y] \in {"Empty", "Partial"}
  BY DEF Filled
<1>3. block \in {"Complete", "Verified"} /\ (block = "Verified" => Unverified)
  BY DEF Unverified
<1> HIDE DEF D, block
<1> QED BY <1>1, <1>2, <1>3, SetCompletedCoherent

LEMMA PropagateCoherent ==
  ASSUME CoreInv, CoreInv', CoherentInv, NEW t \in Frontends, NEW j \in Chunks(t),
         PropagateChunk(t, j)
  PROVE  CoherentInv'
<1> DEFINE D == {x \in BytesOf(t, j) : s_blocks[x] \in {"Empty", "Partial"}}
<1>1. SetCompleted(D, "Complete") /\ UNCHANGED <<s_networks, t_verifier, saved>>
  BY DEF PropagateChunk
<1>2. D \subseteq Bytes /\ \A y \in D : s_blocks[y] \in {"Empty", "Partial"}
  BY DEF BytesOf
<1> HIDE DEF D
<1> QED BY <1>1, <1>2, SetCompletedCoherent

\* set_frontend_state_verified, over complete chunks.
LEMMA SetVerifiedCoherent ==
  ASSUME CoreInv, CoreInv', CoherentInv, NEW t \in s_networks, NEW J, J \subseteq CompleteChunks(t),
         SetVerified(t, J), UNCHANGED <<s_networks, t_verifier, saved>>
  PROVE  CoherentInv'
<1> DEFINE V == VerifiedBlocks(t, J)
<1>1. TypeOK /\ t \in Frontends
  BY DEF CoreInv, DataInv, TypeOK
<1>2. /\ \A y \in Bytes : s_blocks'[y] = IF y \in V THEN "Verified" ELSE s_blocks[y]
      /\ \A y \in Bytes : s_verified_bitmap'[y] = IF y \in V THEN "verified"
                                                  ELSE s_verified_bitmap[y]
  BY <1>1, SetVerifiedBlocks
<1>3. /\ \A j \in Bytes : t_bitmap'[t][j] = IF j \in J THEN "verified" ELSE t_bitmap[t][j]
      /\ \A u \in Frontends \ {t} : \A j \in Bytes : t_bitmap'[u][j] =
           IF j \in Passed(t, J, u) THEN (IF Trusts(u) THEN "verified" ELSE "complete")
           ELSE t_bitmap[u][j]
      /\ \A u \in Frontends : \A k \in Passed(t, J, u) :
           AllBlocksAre(s_verified_bitmap', u, k, "verified")
  BY <1>1, SetVerifiedBitmap
<1>4. SwarmerInvariant'
  BY <1>2 DEF CoherentInv, SwarmerInvariant
<1>5. \A y \in Bytes : y \in V <=>
        t = Primary /\ ChunkOf(Primary, y) \in J /\ s_blocks[y] # "Verified"
  BY DEF VerifiedBlocks
<1>6. Passed(t, J, Primary) = {}
  BY DEF Passed
<1> HIDE DEF V
<1>7. CompletionEscalates'
  <2> SUFFICES ASSUME NEW j \in Chunks(Primary),
                      \A y \in BytesOf(Primary, j) : s_blocks'[y] = "Complete"
               PROVE  t_bitmap'[Primary][j] = "complete"
    BY DEF CompletionEscalates
  <2>1. \A y \in BytesOf(Primary, j) : s_blocks[y] = "Complete" /\ y \notin V
    BY <1>2 DEF BytesOf
  <2>2. t_bitmap[Primary][j] = "complete" /\ j \in Bytes
    BY <2>1, ChunksType, FrontendsAssumption DEF CoherentInv, CompletionEscalates
  <2>3. t = Primary => j \notin J
    BY <1>5, <2>1, ChunkNotEmpty DEF BytesOf
  <2> QED BY <1>3, <1>6, <2>2, <2>3, FrontendsAssumption
<1>8. \A y \in Bytes : s_blocks[y] = "Verified" => s_blocks'[y] = "Verified"
  BY <1>2
<1>9. \A j \in Bytes : t_bitmap[Primary][j] = "verified" => t_bitmap'[Primary][j] = "verified"
  BY <1>3, <1>6, FrontendsAssumption
<1>10. \A y \in Bytes : s_blocks'[y] = "Verified" /\ s_blocks[y] # "Verified" =>
         t_bitmap'[Primary][ChunkOf(Primary, y)] = "verified"
  BY <1>2, <1>3, <1>5, ChunkInRange, FrontendsAssumption
<1>11. ASSUME NEW u \in s_networks \ {Primary}, NEW y \in Bytes,
              t_bitmap'[u][ChunkOf(u, y)] \in {"complete", "verified"}
       PROVE  Chosen(u, y) \in {"complete", "verified"} \/ s_blocks'[y] = "Verified"
  <2>1. u \in Frontends /\ ChunkOf(u, y) \in Bytes
    BY <1>1, ChunkInRange DEF TypeOK
  <2>2. CASE u = t
    BY <1>3, <1>11, <2>1, <2>2 DEF Chosen, CompleteChunks
  <2>3. CASE u # t /\ ChunkOf(u, y) \in Passed(t, J, u)
    <3>1. s_verified_bitmap'[y] = "verified"
      BY <1>3, <2>1, <2>3 DEF AllBlocksAre, BytesOf
    <3> QED BY <1>4, <3>1 DEF SwarmerInvariant
  <2>4. CASE u # t /\ ChunkOf(u, y) \notin Passed(t, J, u)
    BY <1>3, <1>11, <2>1, <2>4 DEF Chosen
  <2> QED BY <2>2, <2>3, <2>4
<1>12. Unverified' <=> Unverified
  BY DEF Unverified
<1> QED BY <1>4, <1>7, <1>8, <1>9, <1>10, <1>11, <1>12, CoherentStep

\* set_frontend_state_missing, over complete chunks.
LEMMA SetMissingCoherent ==
  ASSUME CoreInv, CoreInv', CoherentInv, NEW t \in s_networks, NEW J, J \subseteq CompleteChunks(t),
         SetMissing(t, J), UNCHANGED <<s_networks, t_verifier, saved>>
  PROVE  CoherentInv'
<1>1. TypeOK /\ t \in Frontends
  BY DEF CoreInv, DataInv, TypeOK
<1>2. /\ \A y \in Bytes : s_blocks'[y] = IF y \in Dropped(t, J) THEN "Empty" ELSE s_blocks[y]
      /\ \A y \in Bytes : s_verified_bitmap'[y] =
           IF y \in Missed(t, J) THEN "missing" ELSE s_verified_bitmap[y]
  BY <1>1, SetMissingBlocks
<1>3. /\ \A j \in Bytes : t_bitmap'[t][j] = IF j \in Reset(t, J) THEN "missing"
           ELSE IF j \in Reached(t, J) THEN "partial" ELSE t_bitmap[t][j]
      /\ \A u \in Frontends \ {t} : \A j \in Bytes : t_bitmap'[u][j] =
           IF j \in Emptied(t, J, u) THEN "missing" ELSE t_bitmap[u][j]
  BY <1>1, SetMissingBitmap
<1>4. SwarmerInvariant'
  BY <1>2 DEF CoherentInv, SwarmerInvariant, Dropped, Missed
<1>5. /\ \A j \in Reset(t, J) \cup Reached(t, J) : t_bitmap[t][j] = "complete"
      /\ \A u \in Frontends : \A k \in Emptied(t, J, u) : t_bitmap[u][k] = "partial"
  BY DEF Reset, Reached, CompleteChunks, Emptied
<1>6. CompletionEscalates'
  <2> SUFFICES ASSUME NEW j \in Chunks(Primary),
                      \A y \in BytesOf(Primary, j) : s_blocks'[y] = "Complete"
               PROVE  t_bitmap'[Primary][j] = "complete"
    BY DEF CompletionEscalates
  <2>1. \A y \in BytesOf(Primary, j) : s_blocks[y] = "Complete" /\ y \notin Dropped(t, J)
    BY <1>2 DEF BytesOf
  <2>2. t_bitmap[Primary][j] = "complete" /\ j \in Bytes
    BY <2>1, ChunksType, FrontendsAssumption DEF CoherentInv, CompletionEscalates
  <2>3. CASE t # Primary
    BY <1>3, <1>5, <2>2, <2>3, FrontendsAssumption
  <2>4. CASE t = Primary
    <3>1. j \in Reached(t, J) => j \in Reset(t, J)
      BY <2>1, <2>4 DEF Reset, AllBlocksAre, BytesOf, CoherentInv, SwarmerInvariant
    <3>2. PICK x \in Bytes : x \in BytesOf(Primary, j)
      BY ChunkNotEmpty
    <3>3. ChunkOf(Primary, x) = j /\ s_blocks[x] = "Complete" /\ x \notin Dropped(t, J)
      BY <2>1, <3>2 DEF BytesOf
    <3>4. j \notin Reset(t, J)
      BY <2>1, <2>4, <3>3 DEF Dropped, Above
    <3> QED BY <1>3, <2>2, <2>4, <3>1, <3>4
  <2> QED BY <2>3, <2>4
<1>7. \A y \in Bytes : s_blocks[y] = "Verified" <=> s_blocks'[y] = "Verified"
  BY <1>2 DEF Dropped
<1>8. \A j \in Bytes : t_bitmap[Primary][j] = "verified" => t_bitmap'[Primary][j] = "verified"
  BY <1>3, <1>5, FrontendsAssumption
<1>9. ASSUME NEW u \in s_networks \ {Primary}, NEW y \in Bytes,
             t_bitmap'[u][ChunkOf(u, y)] \in {"complete", "verified"}
      PROVE  Chosen(u, y) \in {"complete", "verified"}
  <2>1. u \in Frontends /\ ChunkOf(u, y) \in Bytes
    BY <1>1, ChunkInRange DEF TypeOK
  <2> QED BY <1>3, <1>9, <2>1 DEF Chosen
<1>10. Unverified' <=> Unverified
  BY DEF Unverified
<1> QED BY <1>4, <1>6, <1>7, <1>8, <1>9, <1>10, CoherentStep

\* The chunks that verify_chunk decides on, all complete.
LEMMA VerifyChunkCases ==
  ASSUME TypeOK, NEW t \in Frontends, NEW j \in Chunks(t), VerifyChunk(t, j)
  PROVE  /\ t \in s_networks /\ UNCHANGED <<s_networks, t_verifier, saved>>
         /\ \E J \in SUBSET CompleteChunks(t) : SetVerified(t, J) \/ SetMissing(t, J)
<1>1. {j} \in SUBSET CompleteChunks(t) /\ CompleteChunks(t) \in SUBSET CompleteChunks(t)
  BY DEF VerifyChunk, CompleteChunks
<1>2. \E J \in {{j}, CompleteChunks(t)} : SetVerified(t, J) \/ SetMissing(t, J)
  BY DEF VerifyChunk
<1> QED BY <1>1, <1>2 DEF VerifyChunk

LEMMA VerifyChunkCoherent ==
  ASSUME CoreInv, CoreInv', CoherentInv, NEW t \in Frontends, NEW j \in Chunks(t),
         VerifyChunk(t, j)
  PROVE  CoherentInv'
<1>1. TypeOK
  BY DEF CoreInv, DataInv
<1> QED BY <1>1, VerifyChunkCases, SetVerifiedCoherent, SetMissingCoherent

\* split_blocks tells the primary nothing, and need not: a block that is cut
\* has a hole, so that its chunk has a piece that is not complete.
LEMMA MergeCoherent ==
  ASSUME CoreInv, CoreInv', CoherentInv, NEW t \in Frontends, Merge(t)
  PROVE  CoherentInv'
<1> DEFINE nets == s_networks \cup {t}
           full == FullPieces(nets)
           void == VoidPieces(nets)
<1>1. TypeOK
  BY DEF CoreInv, DataInv
<1>2. /\ s_networks' = nets
      /\ \A x \in Bytes : s_blocks'[x] = IF x \in void THEN "Empty"
           ELSE IF x \in full THEN "Complete" ELSE s_blocks[x]
      /\ \A x \in Bytes : s_verified_bitmap'[x] = IF x \in void THEN "missing"
           ELSE IF x \in full THEN "complete" ELSE s_verified_bitmap[x]
  BY <1>1, MergeBlocks
<1>3. /\ t # Primary
      /\ \A j \in Bytes : t_bitmap'[t][j] = "missing"
      /\ \A u \in Frontends \ {t} : t_bitmap'[u] = t_bitmap[u]
  BY <1>1, MergeBitmap
<1>4. saved' = saved /\ t_verifier' = t_verifier
  BY DEF Merge
<1>5. \A x \in full \cup void : s_blocks[x] = "Partial"
  BY DEF FullPieces, VoidPieces, Cut
<1>6. \A x \in full : x \notin ranges
  BY BlockFacts DEF FullPieces, Cut
<1> HIDE DEF full, void
<1>7. SwarmerInvariant'
  BY <1>2 DEF CoherentInv, SwarmerInvariant
<1>8. \A x \in Bytes : s_verified_bitmap'[x] = "verified" <=> s_verified_bitmap[x] = "verified"
  BY <1>2, <1>5 DEF CoherentInv, SwarmerInvariant
<1>9. PrimaryCoherent'
  BY <1>3, <1>4, <1>8, FrontendsAssumption DEF CoherentInv, PrimaryCoherent, Chosen
<1>10. SecondaryCoherent'
  <2> SUFFICES ASSUME NEW u \in nets \ {Primary}, NEW x \in Bytes,
                      t_bitmap'[u][ChunkOf(u, x)] \in {"complete", "verified"}
               PROVE  s_verified_bitmap'[x] = "verified"
    BY <1>2 DEF SecondaryCoherent, Chosen
  <2>1. u \in Frontends /\ ChunkOf(u, x) \in Bytes
    BY <1>1, ChunkInRange DEF TypeOK
  <2>2. u # t /\ u \in s_networks \ {Primary}
    BY <1>3, <2>1
  <2>3. Chosen(u, x) \in {"complete", "verified"}
    BY <1>3, <2>1, <2>2 DEF Chosen
  <2> QED BY <1>8, <2>2, <2>3 DEF CoherentInv, SecondaryCoherent
<1>11. SavedStaysVerified' /\ SavedCoherent'
  BY <1>3, <1>4, FrontendsAssumption DEF CoherentInv, SavedStaysVerified, SavedCoherent
<1>12. CompletionEscalates'
  <2> SUFFICES ASSUME NEW j \in Chunks(Primary),
                      \A y \in BytesOf(Primary, j) : s_blocks'[y] = "Complete"
               PROVE  t_bitmap'[Primary][j] = "complete"
    BY DEF CompletionEscalates
  <2>1. ASSUME NEW x \in BytesOf(Primary, j), s_blocks[x] # "Complete"
        PROVE  FALSE
    <3>1. x \in Bytes /\ ChunkOf(Primary, x) = j /\ x \in full
      BY <1>2, <2>1 DEF BytesOf
    <3>2. s_blocks[x] = "Partial"
      BY <1>5, <3>1
    <3>3. PICK z \in Block(x) : z \in ranges
      BY <3>1, <3>2 DEF CoreInv, HolesInv, PartialBlocksHaveHoles
    <3>4. z \in Bytes /\ ChunkOf(Primary, z) = j /\ s_blocks[z] = "Partial"
      BY <1>1, <3>1, <3>2, <3>3, BlockFacts DEF Block, CoreInv, HolesInv, Alike, TypeOK
    <3>5. s_blocks'[z] # "Complete"
      BY <1>2, <1>6, <3>3, <3>4
    <3> QED BY <3>4, <3>5 DEF BytesOf
  <2>2. t_bitmap[Primary][j] = "complete"
    BY <2>1 DEF CoherentInv, CompletionEscalates
  <2> QED BY <1>3, <2>2, FrontendsAssumption
<1> QED BY <1>7, <1>9, <1>10, <1>11, <1>12 DEF CoherentInv

LEMMA SaveCoherent ==
  ASSUME CoreInv, CoherentInv, NEW flushed \in BOOLEAN, Save(flushed)
  PROVE  CoherentInv'
<1>1. /\ UNCHANGED <<s_networks, s_blocks, s_verified_bitmap, t_bitmap, t_verifier>>
      /\ saved'.bitmap = t_bitmap /\ saved'.networks = s_networks
  BY DEF Save, Snapshot, bitmaps
<1>2. SwarmerInvariant' /\ PrimaryCoherent' /\ SecondaryCoherent' /\ CompletionEscalates'
  BY <1>1 DEF CoherentInv, SwarmerInvariant, PrimaryCoherent, SecondaryCoherent,
     CompletionEscalates, Chosen
<1>3. SavedStaysVerified'
  BY <1>1 DEF SavedStaysVerified
<1>4. SavedCoherent'
  <2> SUFFICES ASSUME NEW t \in s_networks \ {Primary}, NEW x \in Bytes,
                      t_bitmap[t][ChunkOf(t, x)] \in {"complete", "verified"}
               PROVE  t_bitmap[Primary][ChunkOf(Primary, x)] = "verified"
    BY <1>1 DEF SavedCoherent
  <2>1. ~Unverified
    BY DEF CoreInv, NoneIsAlone
  <2>2. s_verified_bitmap[x] = "verified"
    BY DEF CoherentInv, SecondaryCoherent, Chosen
  <2> QED BY <2>1, <2>2 DEF CoherentInv, PrimaryCoherent, Chosen, Unverified
<1> QED BY <1>2, <1>3, <1>4 DEF CoherentInv

LEMMA RestartCoherent ==
  ASSUME CoreInv, CoherentInv, NEW lost \in BOOLEAN, Restart(lost)
  PROVE  CoherentInv'
<1>1. TypeOK
  BY DEF CoreInv, DataInv
<1>2. /\ s_networks' = saved.networks /\ saved' = saved
      /\ \A x \in Bytes : s_blocks'[x] =
           IF x \in RestV THEN "Verified" ELSE IF x \in RestC THEN "Complete"
           ELSE IF x \in RestP THEN "Partial" ELSE "Empty"
      /\ \A x \in Bytes : s_verified_bitmap'[x] =
           IF x \in RestV THEN "verified" ELSE IF x \in RestC THEN "complete"
           ELSE IF x \in RestP THEN "partial" ELSE "missing"
  BY <1>1, RestartBlocks DEF Restart
<1>3. /\ \A j \in Bytes : t_bitmap'[Primary][j] =
           IF j \in Held(Primary, "verified") THEN "verified"
           ELSE IF j \in WholeChunks(RestC) THEN "complete"
           ELSE IF j \in Touched(Primary, RestP) THEN "partial" ELSE "missing"
      /\ \A t \in Frontends \ {Primary} : \A j \in Bytes : t_bitmap'[t][j] =
           IF j \in RestVerified(t) THEN "verified" ELSE "missing"
  BY <1>1, RestartBitmap
<1>4. SwarmerInvariant'
  BY <1>2 DEF SwarmerInvariant
<1>5. \A x \in Bytes : x \in RestV <=> ChunkOf(Primary, x) \in Held(Primary, "verified")
  BY DEF RestV
<1>6. PrimaryCoherent'
  <2> SUFFICES ASSUME NEW x \in Bytes
               PROVE  t_bitmap'[Primary][ChunkOf(Primary, x)] = "verified"
                        <=> s_verified_bitmap'[x] = "verified"
    BY DEF PrimaryCoherent, Chosen
  <2>1. ChunkOf(Primary, x) \in Bytes
    BY ChunkInRange, FrontendsAssumption
  <2> QED BY <1>2, <1>3, <1>5, <2>1
<1>7. SecondaryCoherent'
  <2> SUFFICES ASSUME NEW u \in saved.networks \ {Primary}, NEW x \in Bytes,
                      t_bitmap'[u][ChunkOf(u, x)] \in {"complete", "verified"}
               PROVE  s_verified_bitmap'[x] = "verified"
    BY <1>2 DEF SecondaryCoherent, Chosen
  <2>1. u \in Frontends /\ ChunkOf(u, x) \in Bytes
    BY <1>1, ChunkInRange DEF TypeOK
  <2>2. saved.bitmap[u][ChunkOf(u, x)] = "verified"
    BY <1>3, <2>1 DEF RestVerified, Held
  <2>3. saved.bitmap[Primary][ChunkOf(Primary, x)] = "verified"
    BY <2>2 DEF CoherentInv, SavedCoherent
  <2>4. x \in RestV
    BY <2>3 DEF RestV, Held, Chunks
  <2> QED BY <1>2, <2>4
<1>8. SavedStaysVerified'
  BY <1>2, <1>3, ChunksType, FrontendsAssumption DEF SavedStaysVerified, Held
<1>9. SavedCoherent'
  BY <1>2 DEF CoherentInv, SavedCoherent
<1>10. CompletionEscalates'
  <2> SUFFICES ASSUME NEW j \in Chunks(Primary),
                      \A y \in BytesOf(Primary, j) : s_blocks'[y] = "Complete"
               PROVE  t_bitmap'[Primary][j] = "complete"
    BY DEF CompletionEscalates
  <2>1. \A y \in BytesOf(Primary, j) : y \in RestC /\ y \notin RestV
    BY <1>2 DEF BytesOf
  <2>2. j \in WholeChunks(RestC)
    BY <2>1 DEF WholeChunks
  <2>3. j \notin Held(Primary, "verified")
    BY <1>5, <2>1, ChunkNotEmpty DEF BytesOf
  <2> QED BY <1>3, <2>2, <2>3, ChunksType, FrontendsAssumption
<1> QED BY <1>4, <1>6, <1>7, <1>8, <1>9, <1>10 DEF CoherentInv

LEMMA OtherCoherent ==
  ASSUME CoherentInv, UNCHANGED <<s_networks, s_blocks, s_verified_bitmap, t_bitmap, saved>>,
         Unverified' <=> Unverified
  PROVE  CoherentInv'
BY DEF CoherentInv, SwarmerInvariant, PrimaryCoherent, SecondaryCoherent, SavedCoherent,
   SavedStaysVerified, CompletionEscalates, Chosen, Unverified

LEMMA CoherentInit == Init => CoherentInv
<1> SUFFICES ASSUME Init PROVE CoherentInv
  OBVIOUS
<1>1. \A t \in Frontends : \A j \in Bytes : t_bitmap[t][j] = "missing" /\ saved.bitmap[t][j] = "missing"
  BY DEF Init, Snapshot
<1>2. \A t \in Frontends : \A x \in Bytes : ChunkOf(t, x) \in Bytes
  BY ChunkInRange
<1>3. s_networks = {Primary} /\ saved.networks = {Primary}
  BY DEF Init, Snapshot
<1>4. CompletionEscalates
  BY ChunkNotEmpty DEF CompletionEscalates, Init, BytesOf
<1>5. SwarmerInvariant
  BY DEF SwarmerInvariant, Init
<1>6. PrimaryCoherent
  BY <1>1, <1>2, FrontendsAssumption DEF PrimaryCoherent, Chosen, Init
<1>7. SecondaryCoherent /\ SavedCoherent
  BY <1>3 DEF SecondaryCoherent, SavedCoherent
<1>8. SavedStaysVerified
  BY <1>1, ChunksType, FrontendsAssumption DEF SavedStaysVerified
<1> QED BY <1>4, <1>5, <1>6, <1>7, <1>8 DEF CoherentInv

LEMMA RecheckNever ==
  ASSUME NoRecheck, TypeOK
  PROVE  ~VerifyAllChunks
BY DEF NoRecheck, VerifyAllChunks, Spend, TypeOK, EnvKinds

LEMMA CoherentNext ==
  ASSUME NoRecheck, CoreInv, CoreInv', CoherentInv, [Next]_vars
  PROVE  CoherentInv'
<1>1. ASSUME NEW x \in Bytes, NewBlock(x) PROVE CoherentInv'
  BY <1>1, NewBlockCoherent
<1>2. ASSUME NEW u \in Frontends, NEW a \in Bytes, NEW b \in Bytes, NEW ok \in BOOLEAN,
             Received(u, a, b, ok)
      PROVE  CoherentInv'
  BY <1>2, ReceivedCoherent
<1>3. ASSUME NEW t \in Frontends, NEW j \in Chunks(t), VerifyChunk(t, j) PROVE CoherentInv'
  BY <1>3, VerifyChunkCoherent
<1>4. ASSUME NEW t \in Frontends, NEW j \in Chunks(t), PropagateChunk(t, j) PROVE CoherentInv'
  BY <1>4, PropagateCoherent
<1>5. ASSUME NEW t \in Frontends, SetVerifier(t) PROVE CoherentInv'
  <2>1. UNCHANGED <<s_networks, s_blocks, s_verified_bitmap, t_bitmap, saved>>
    BY <1>5 DEF SetVerifier, bitmaps
  <2>2. Unverified' <=> Unverified
    BY <1>5, FrontendsAssumption DEF SetVerifier, Unverified, CoreInv, DataInv, TypeOK
  <2> QED BY <2>1, <2>2, OtherCoherent
<1>6. ASSUME NEW t \in Frontends, Merge(t) PROVE CoherentInv'
  BY <1>6, MergeCoherent
<1>7. CASE VerifySomeChunks
  BY <1>7, <1>3 DEF VerifySomeChunks
<1>8. ~VerifyAllChunks
  BY RecheckNever DEF CoreInv, DataInv
<1>9. ASSUME NEW b \in BOOLEAN, Save(b) \/ Restart(b) PROVE CoherentInv'
  BY <1>9, SaveCoherent, RestartCoherent
<1>10. CASE \/ Flush \/ (\E x \in Bytes : Rot(x)) \/ (\E t \in Frontends : Finish(t))
            \/ UNCHANGED vars
  BY <1>10, OtherCoherent DEF Flush, Rot, Finish, bitmaps, vars, Unverified
<1> QED
  BY <1>1, <1>2, <1>3, <1>4, <1>5, <1>6, <1>7, <1>8, <1>9, <1>10 DEF Next

-----------------------------------------------------------------------------
(* The theorems about coherence *)

AgreeInv == CoreInv /\ (NoRecheck => CoherentInv)

LEMMA AgreeAlways == Spec => []AgreeInv
<1>1. Init => AgreeInv
  BY CoreInit, CoherentInit DEF AgreeInv
<1>2. AgreeInv /\ [Next]_vars => AgreeInv'
  <2> SUFFICES ASSUME AgreeInv, [Next]_vars PROVE CoreInv' /\ (NoRecheck => CoherentInv')
    BY DEF AgreeInv, NoRecheck
  <2>1. CoreInv'
    BY CoreNext DEF AgreeInv
  <2> QED BY <2>1, CoherentNext DEF AgreeInv
<1> QED BY <1>1, <1>2, PTL DEF Spec

\* Unless a recheck is asked for, s_verified_bitmap tells the same as s_blocks
\* after every step: what is received, split, verified, failed or restored.
THEOREM BitmapTellsBlocks == Spec => [](NoRecheck => SwarmerInvariant)
<1>1. AgreeInv => (NoRecheck => SwarmerInvariant)
  BY DEF AgreeInv, CoherentInv
<1> QED BY <1>1, AgreeAlways, PTL

\* Unless a recheck is asked for, a chunk of the primary is verified exactly
\* when its blocks are, as check_swarmer asserts.
THEOREM PrimaryAgrees == Spec => [](NoRecheck => PrimaryCoherent)
<1>1. AgreeInv => (NoRecheck => PrimaryCoherent)
  BY DEF AgreeInv, CoherentInv
<1> QED BY <1>1, AgreeAlways, PTL

\* Unless a recheck is asked for, a secondary has no chunk complete or
\* verified that the primary has not verified, over any merges and restarts.
THEOREM SecondaryFollows == Spec => [](NoRecheck => SecondaryCoherent)
<1>1. AgreeInv => (NoRecheck => SecondaryCoherent)
  BY DEF AgreeInv, CoherentInv
<1> QED BY <1>1, AgreeAlways, PTL

\* Unless a recheck is asked for, a chunk of the primary all of whose blocks
\* are complete is complete itself, so that a timer verifies it.
THEOREM CompletionIsNoticed == Spec => [](NoRecheck => CompletionEscalates)
<1>1. AgreeInv => (NoRecheck => CompletionEscalates)
  BY DEF AgreeInv, CoherentInv
<1> QED BY <1>1, AgreeAlways, PTL

\* Unless a recheck is asked for, what the ini files call verified is verified
\* in memory, before and after a restart.
THEOREM SavedIsVerified == Spec => [](NoRecheck => SavedStaysVerified)
<1>1. AgreeInv => (NoRecheck => SavedStaysVerified)
  BY DEF AgreeInv, CoherentInv
<1> QED BY <1>1, AgreeAlways, PTL

\* Unless a recheck is asked for, what a secondary calls verified has the
\* content the hashes of the primary expect, or rotted since.
THEOREM SecondaryDataSafe == Spec => [](NoRecheck => SecondaryVerifiedIsGood)
<1>1. AgreeInv => (NoRecheck => SecondaryVerifiedIsGood)
  <2> SUFFICES ASSUME CoreInv, CoherentInv, Trusted, NEW t \in s_networks, NEW x \in Bytes,
                      Chosen(t, x) = "verified"
               PROVE  x \in good \cup rotted
    BY DEF AgreeInv, SecondaryVerifiedIsGood
  <2>1. s_blocks[x] = "Verified"
    <3>1. CASE t = Primary
      BY <3>1 DEF CoreInv, DataInv, Grounded, VerifiedIsBlock
    <3>2. CASE t # Primary
      BY <3>2 DEF CoherentInv, SecondaryCoherent, SwarmerInvariant
    <3> QED BY <3>1, <3>2
  <2> QED BY <2>1 DEF CoreInv, DataInv, Grounded, BlocksOnDisk
<1> QED BY <1>1, AgreeAlways, PTL

-----------------------------------------------------------------------------
(* The assertions of set_frontend_state_missing *)

\* The chunks of a frontend that are given up: with its blocks, no chunk
\* that is reset may hold a VerifiedBlock, and of the primary's no refused one
\* is left, as it is verified exactly when its blocks are.
LEMMA SetMissingRaises ==
  ASSUME PrimaryCanFail, CoherentInv, NEW t \in Frontends, t_verifier[t] # "None",
         NEW J \in SUBSET CompleteChunks(t), SetMissing(t, J)
  PROVE  PrimaryCanFail'
<1>1. Halting(t, J) = {}
  BY DEF Halting, AllBlocksAre, BytesOf, CoherentInv, SwarmerInvariant
<1>2. raised' = raised \cup {<<t, IF i \in Halting(t, J) THEN "VerifiedBlock" ELSE "State_verified">> :
                               i \in {k \in Refused(t, J) \cup Halting(t, J) :
                                       \A l \in Refused(t, J) \cup Halting(t, J) : k <= l}}
  BY DEF SetMissing
<1>3. CASE t = Primary
  <2>1. ~Unverified
    BY <1>3 DEF Unverified
  <2>2. Refused(t, J) = {}
    <3> SUFFICES ASSUME NEW k \in J, NEW x \in BytesOf(Primary, k),
                        s_verified_bitmap[x] = "verified"
                 PROVE  FALSE
      BY <1>3 DEF Refused
    <3>1. Chosen(Primary, x) = "verified" /\ ChunkOf(Primary, x) = k
      BY <2>1 DEF CoherentInv, PrimaryCoherent, Unverified, BytesOf
    <3> QED BY <1>3, <3>1 DEF Chosen, CompleteChunks
  <2> QED BY <1>1, <1>2, <2>2 DEF PrimaryCanFail
<1>4. CASE t # Primary
  <2>1. \A r \in raised' : r \in raised \/ r = <<t, "State_verified">>
    BY <1>1, <1>2
  <2> QED BY <1>4, <2>1 DEF PrimaryCanFail
<1> QED BY <1>3, <1>4

LEMMA VerifyChunkRaises ==
  ASSUME PrimaryCanFail, CoherentInv, NEW t \in Frontends, NEW j \in Chunks(t),
         VerifyChunk(t, j)
  PROVE  PrimaryCanFail'
<1>1. t_bitmap[t][j] = "complete" /\ t_verifier[t] # "None"
  BY DEF VerifyChunk
<1>2. {j} \in SUBSET CompleteChunks(t) /\ CompleteChunks(t) \in SUBSET CompleteChunks(t)
  BY <1>1 DEF CompleteChunks
<1>3. PICK J \in SUBSET CompleteChunks(t) : SetVerified(t, J) \/ SetMissing(t, J)
  BY <1>2 DEF VerifyChunk
<1>4. CASE SetVerified(t, J)
  BY <1>4 DEF SetVerified, PrimaryCanFail
<1>5. CASE SetMissing(t, J)
  BY <1>1, <1>5, SetMissingRaises
<1> QED BY <1>3, <1>4, <1>5

LEMMA RaisesNext ==
  ASSUME AgreeInv, NoRecheck, PrimaryCanFail, [Next]_vars
  PROVE  PrimaryCanFail'
<1>1. CoherentInv
  BY DEF AgreeInv
<1>2. ASSUME NEW t \in Frontends, NEW j \in Chunks(t), VerifyChunk(t, j) PROVE PrimaryCanFail'
  BY <1>1, <1>2, VerifyChunkRaises
<1>3. CASE VerifySomeChunks
  BY <1>2, <1>3 DEF VerifySomeChunks
<1>4. ASSUME \/ \E x \in Bytes : NewBlock(x) \/ Rot(x)
             \/ \E u \in Frontends : \E a, b \in Bytes : \E ok \in BOOLEAN : Received(u, a, b, ok)
             \/ \E t \in Frontends : \/ \E j \in Chunks(t) : PropagateChunk(t, j)
                                     \/ SetVerifier(t) \/ Merge(t) \/ Finish(t)
             \/ VerifyAllChunks \/ Flush
             \/ (\E b \in BOOLEAN : Save(b) \/ Restart(b)) \/ UNCHANGED vars
      PROVE  raised' = raised
  BY <1>4 DEF NewBlock, Rot, Received, PropagateChunk, SetVerifier, Merge, Finish,
              VerifyAllChunks, Flush, Save, Restart, vars
<1> QED BY <1>2, <1>3, <1>4 DEF Next, PrimaryCanFail

\* Unless a recheck is asked for, a complete chunk of the primary holds no
\* verified block, whatever was split, merged, copied or verified above other
\* chunks, so that no assertion of set_frontend_state_missing keeps a failed
\* chunk of the primary complete; and a secondary that fails never meets a
\* VerifiedBlock halfway, with the blocks below already reset.
THEOREM PrimaryNeverRaises == Spec => [](NoRecheck => PrimaryCanFail)
<1> DEFINE I == AgreeInv /\ (NoRecheck => PrimaryCanFail)
<1>1. Init => I
  <2>1. Init => AgreeInv
    BY CoreInit, CoherentInit DEF AgreeInv
  <2>2. Init => PrimaryCanFail
    BY DEF Init, PrimaryCanFail
  <2> QED BY <2>1, <2>2
<1>2. I /\ [Next]_vars => I'
  <2> SUFFICES ASSUME AgreeInv, NoRecheck => PrimaryCanFail, [Next]_vars
               PROVE  CoreInv' /\ (NoRecheck => CoherentInv') /\ (NoRecheck => PrimaryCanFail')
    BY DEF AgreeInv, NoRecheck
  <2>1. CoreInv'
    BY CoreNext DEF AgreeInv
  <2>2. NoRecheck => CoherentInv'
    BY <2>1, CoherentNext DEF AgreeInv
  <2>3. NoRecheck => PrimaryCanFail'
    BY RaisesNext
  <2> QED BY <2>1, <2>2, <2>3
<1>3. I => (NoRecheck => PrimaryCanFail)
  OBVIOUS
<1> QED BY <1>1, <1>2, <1>3, PTL DEF Spec

=============================================================================
