------------------------ MODULE SwarmerCountsProofs ------------------------
(***************************************************************************)
(* Proofs that the numbers a swarmer keeps are right: the downloaded size  *)
(* is the size of the data, the counters of the frontends count their      *)
(* bitmaps, and the bytes of a finished file were written. They rest on    *)
(* SwarmerBlocksProofs.                                                    *)
(***************************************************************************)
EXTENDS SwarmerBlocksProofs

-----------------------------------------------------------------------------
(* Counting sets of bytes and chunks *)

LEMMA CardAdd ==
  ASSUME NEW A \in SUBSET Bytes, NEW B \in SUBSET Bytes, A \cap B = {}
  PROVE  Cardinality(A \cup B) = Cardinality(A) + Cardinality(B)
<1>1. IsFiniteSet(A) /\ Cardinality(A) \in Nat /\ IsFiniteSet(B) /\ Cardinality(B) \in Nat
  BY BytesCardinality
<1>2. Cardinality(A \cap B) = 0
  BY FS_EmptySet
<1>3. Cardinality(A \cup B) = Cardinality(A) + Cardinality(B) - Cardinality(A \cap B)
  BY <1>1, FS_Union
<1> QED BY <1>1, <1>2, <1>3

LEMMA CardSub ==
  ASSUME NEW A \in SUBSET Bytes, NEW B \in SUBSET A
  PROVE  Cardinality(A \ B) = Cardinality(A) - Cardinality(B)
<1>1. IsFiniteSet(A) /\ A \cap B = B
  BY BytesCardinality
<1>2. Cardinality(A \ B) = Cardinality(A) - Cardinality(A \cap B)
  BY <1>1, FS_Difference
<1> QED BY <1>1, <1>2

\* Size bytes are all the bytes.
LEMMA CardAll ==
  ASSUME NEW A \in SUBSET Bytes, Cardinality(A) = Size
  PROVE  A = Bytes
<1>1. IsFiniteSet(Bytes) /\ Cardinality(Bytes) = Size
  <2>1. /\ IsFiniteSet(0 .. Size - 1)
        /\ Cardinality(0 .. Size - 1) = IF 0 > Size - 1 THEN 0 ELSE Size - 1 - 0 + 1
    BY SizeAssumption, FS_Interval
  <2> QED BY <2>1, SizeAssumption DEF Bytes
<1> QED BY <1>1, FS_Subset

-----------------------------------------------------------------------------
(* The downloaded size *)

\* A recheck counts the missing blocks as downloaded.
SizeInv == NoRecheck => DownloadedIsPresent

LEMMA PresentType == Present \in SUBSET Bytes
BY DEF Present

\* Holes are in PartialBlocks, and are not present.
LEMMA HolesAreAbsent ==
  ASSUME TypeOK, HolesInv, NEW x \in ranges
  PROVE  x \in Bytes /\ s_blocks[x] = "Partial" /\ x \notin Present
<1>1. x \in Bytes /\ x \in Block(x)
  BY BlockFacts DEF TypeOK, Block
<1>2. s_blocks[x] = "Partial"
  BY <1>1 DEF HolesInv, PartialBlocksHaveHoles
<1> QED BY <1>1, <1>2 DEF Present

\* The downloaded size of the primary changes by what is asked for.
LEMMA CreditPrimary ==
  ASSUME TypeOK, NEW u, NEW n \in Int, file_downloaded' = Credit(u, n)
  PROVE  file_downloaded'[Primary] = file_downloaded[Primary] + n
BY FrontendsAssumption DEF Credit, Credited, TypeOK

LEMMA SizeGrows ==
  ASSUME TypeOK, DownloadedIsPresent, NEW D \in SUBSET Bytes, D \cap Present = {},
         Present' = Present \cup D, NEW u, file_downloaded' = Credit(u, Cardinality(D))
  PROVE  DownloadedIsPresent'
<1>1. Cardinality(Present \cup D) = Cardinality(Present) + Cardinality(D)
  BY PresentType, CardAdd
<1>2. file_downloaded'[Primary] = file_downloaded[Primary] + Cardinality(D)
  BY BytesCardinality, CreditPrimary
<1> QED BY <1>1, <1>2 DEF DownloadedIsPresent

LEMMA NewBlockSize ==
  ASSUME TypeOK, HolesInv, DownloadedIsPresent, NEW x \in Bytes, NewBlock(x)
  PROVE  DownloadedIsPresent'
<1>1. /\ \A y \in Bytes : s_blocks'[y] = IF y \in Block(x) THEN "Partial" ELSE s_blocks[y]
      /\ \A y \in Block(x) : s_blocks[y] = "Empty"
      /\ ranges' = ranges \cup Block(x)
      /\ file_downloaded' = file_downloaded
  BY DEF NewBlock, Put, TypeOK
<1>2. Present' = Present
  BY <1>1 DEF Present
<1> QED BY <1>1, <1>2 DEF DownloadedIsPresent

LEMMA ReceivedSize ==
  ASSUME TypeOK, HolesInv, DownloadedIsPresent, NEW u \in Frontends, NEW a \in Bytes,
         NEW b \in Bytes, NEW ok \in BOOLEAN, Received(u, a, b, ok)
  PROVE  DownloadedIsPresent'
<1> DEFINE D == (a .. b) \cap ranges
           block == IF t_verifier[Primary] = "None" THEN "Verified" ELSE "Complete"
<1>1. /\ SetCompleted(Filled(D), block) /\ ranges' = ranges \ D
      /\ file_downloaded' = Credit(u, Cardinality(D))
  BY DEF Received, CloseRanges, Filled
<1>2. block \in {"Verified", "Complete"} /\ D \subseteq ranges
  OBVIOUS
<1> HIDE DEF D, block
<1>3. \A y \in Bytes : s_blocks'[y] = IF y \in Filled(D) THEN block ELSE s_blocks[y]
  BY <1>1, SetCompletedBlocks
<1>4. D \in SUBSET Bytes /\ D \cap Present = {} /\ \A y \in D : s_blocks[y] = "Partial"
  BY <1>2, HolesAreAbsent
<1>5. \A y \in Filled(D) : y \in Bytes /\ (y \in ranges => y \in D) /\ s_blocks[y] = "Partial"
  BY BlockFacts DEF Filled, Block
<1>6. Present' = Present \cup D
  <2> SUFFICES ASSUME NEW y \in Bytes PROVE y \in Present' <=> y \in Present \cup D
    BY <1>4 DEF Present
  <2>1. CASE y \in Filled(D)
    BY <1>2, <1>3, <1>5, <2>1 DEF Present
  <2>2. CASE y \notin Filled(D)
    BY <1>1, <1>3, <1>4, <2>2 DEF Present
  <2> QED BY <2>1, <2>2
<1> QED BY <1>1, <1>4, <1>6, SizeGrows

LEMMA PropagateSize ==
  ASSUME TypeOK, HolesInv, DownloadedIsPresent, NEW t \in Frontends, NEW j \in Chunks(t),
         PropagateChunk(t, j)
  PROVE  DownloadedIsPresent'
<1> DEFINE D == {x \in BytesOf(t, j) : s_blocks[x] \in {"Empty", "Partial"}}
<1>1. /\ SetCompleted(D, "Complete") /\ ranges' = ranges \ D
      /\ file_downloaded' = Credit(Primary, Cardinality(D \ Present))
  BY DEF PropagateChunk, CloseRanges
<1>2. D \in SUBSET Bytes
  BY DEF BytesOf
<1> HIDE DEF D
<1>3. \A y \in Bytes : s_blocks'[y] = IF y \in D THEN "Complete" ELSE s_blocks[y]
  BY <1>1, SetCompletedBlocks
<1>4. Present' = Present \cup (D \ Present)
  BY <1>1, <1>2, <1>3 DEF Present
<1>5. D \ Present \in SUBSET Bytes /\ (D \ Present) \cap Present = {}
  BY <1>2
<1> QED BY <1>1, <1>4, <1>5, SizeGrows

LEMMA SetVerifiedSize ==
  ASSUME TypeOK, HolesInv, DownloadedIsPresent, NEW t \in Frontends, NEW J, SetVerified(t, J)
  PROVE  DownloadedIsPresent'
<1> DEFINE V == VerifiedBlocks(t, J)
<1>1. /\ \A y \in Bytes : s_blocks'[y] = IF y \in V THEN "Verified" ELSE s_blocks[y]
      /\ ranges' = ranges \ V
  BY SetVerifiedBlocks
<1>2. file_downloaded' = Credit(Primary,
        Cardinality({x \in V : s_blocks[x] = "Empty"} \cup (ranges \cap V)))
  BY DEF SetVerified
<1>3. V \in SUBSET Bytes /\ \A x \in V : s_blocks[x] \in {"Empty", "Partial", "Complete"}
  BY DEF VerifiedBlocks, TypeOK, BlockState
<1> HIDE DEF V
<1>4. {x \in V : s_blocks[x] = "Empty"} \cup (ranges \cap V) = V \ Present
  <2>1. ASSUME NEW x \in V
        PROVE  s_blocks[x] = "Empty" \/ x \in ranges <=> x \notin Present
    BY <1>3, HolesAreAbsent DEF Present
  <2> QED BY <2>1
<1>5. Present' = Present \cup (V \ Present)
  BY <1>1, <1>3 DEF Present
<1>6. V \ Present \in SUBSET Bytes /\ (V \ Present) \cap Present = {}
  BY <1>3
<1>7. file_downloaded' = Credit(Primary, Cardinality(V \ Present))
  BY <1>2, <1>4
<1> QED BY <1>5, <1>6, <1>7, SizeGrows

LEMMA SetMissingSize ==
  ASSUME TypeOK, DownloadedIsPresent, NEW t \in Frontends, NEW J, SetMissing(t, J)
  PROVE  DownloadedIsPresent'
<1>1. /\ \A y \in Bytes : s_blocks'[y] = IF y \in Dropped(t, J) THEN "Empty" ELSE s_blocks[y]
      /\ ranges' = ranges
  BY SetMissingBlocks
<1>2. file_downloaded' = Credit(Primary, 0 - Cardinality(Dropped(t, J)))
  BY DEF SetMissing, Failing, Reached, Reset, Above, Dropped
<1>3. Dropped(t, J) \in SUBSET Present
  BY DEF Dropped, Above, Present
<1>4. Present' = Present \ Dropped(t, J)
  BY <1>1 DEF Present
<1>5. Cardinality(Present \ Dropped(t, J)) = Cardinality(Present) - Cardinality(Dropped(t, J))
  BY <1>3, PresentType, CardSub
<1>6. Cardinality(Dropped(t, J)) \in Nat /\ Cardinality(Present) \in Nat
  BY <1>3, PresentType, BytesCardinality
<1>7. 0 - Cardinality(Dropped(t, J)) \in Int
  BY <1>6
<1>8. file_downloaded'[Primary] = file_downloaded[Primary] + (0 - Cardinality(Dropped(t, J)))
  BY <1>2, <1>7, CreditPrimary
<1> QED BY <1>4, <1>5, <1>6, <1>8 DEF DownloadedIsPresent

LEMMA VerifyChunkSize ==
  ASSUME TypeOK, HolesInv, DownloadedIsPresent, NEW t \in Frontends, NEW j \in Chunks(t),
         VerifyChunk(t, j)
  PROVE  DownloadedIsPresent'
BY VerifyChunkCases, SetVerifiedSize, SetMissingSize

\* A piece without a hole was present, one that is all hole was not.
LEMMA MergeSize ==
  ASSUME TypeOK, HolesInv, DownloadedIsPresent, NEW t \in Frontends, Merge(t)
  PROVE  DownloadedIsPresent'
<1> DEFINE nets == s_networks \cup {t}
           full == FullPieces(nets)
           void == VoidPieces(nets)
<1>1. /\ \A x \in Bytes : s_blocks'[x] = IF x \in void THEN "Empty"
           ELSE IF x \in full THEN "Complete" ELSE s_blocks[x]
      /\ ranges' = ranges \ void
  BY MergeBlocks
<1>2. \A x \in void : x \in Bytes /\ s_blocks[x] = "Partial" /\ x \in ranges
  BY BlockFacts DEF VoidPieces, Cut
<1>3. \A x \in full : x \in Bytes /\ s_blocks[x] = "Partial" /\ x \notin ranges
  BY BlockFacts DEF FullPieces, Cut
<1>4. t # Primary /\ file_downloaded' = [file_downloaded EXCEPT ![t] = 0]
  BY DEF Merge, TypeOK
<1> HIDE DEF full, void
<1>5. Present' = Present
  BY <1>1, <1>2, <1>3 DEF Present
<1>6. file_downloaded'[Primary] = file_downloaded[Primary]
  BY <1>4, FrontendsAssumption DEF TypeOK
<1> QED BY <1>5, <1>6 DEF DownloadedIsPresent

LEMMA RestartSize ==
  ASSUME TypeOK, NEW lost \in BOOLEAN, Restart(lost)
  PROVE  DownloadedIsPresent'
<1>1. file_downloaded'[Primary] = Cardinality(RestV \cup RestC \cup (RestP \cap saved.present))
  BY FrontendsAssumption DEF Restart, RestV, RestC, RestP
<1>2. /\ \A x \in Bytes : s_blocks'[x] =
           IF x \in RestV THEN "Verified" ELSE IF x \in RestC THEN "Complete"
           ELSE IF x \in RestP THEN "Partial" ELSE "Empty"
      /\ ranges' = RestP \ saved.present
  BY RestartBlocks
<1>3. RestV \subseteq Bytes /\ RestC \subseteq Bytes /\ RestP \subseteq Bytes
      /\ RestP \cap (RestV \cup RestC) = {}
  BY DEF RestV, RestC, RestP
<1>4. Present' = RestV \cup RestC \cup (RestP \cap saved.present)
  BY <1>2, <1>3 DEF Present
<1> QED BY <1>1, <1>4 DEF DownloadedIsPresent

LEMMA OtherSize ==
  ASSUME DownloadedIsPresent, UNCHANGED <<s_blocks, ranges, file_downloaded>>
  PROVE  DownloadedIsPresent'
BY DEF DownloadedIsPresent, Present

LEMMA SizeInit == Init => SizeInv
<1>1. Init => Present = {} /\ file_downloaded[Primary] = 0
  BY FrontendsAssumption DEF Init, Present
<1> QED BY <1>1, FS_EmptySet DEF SizeInv, DownloadedIsPresent

LEMMA SizeNext ==
  ASSUME CoreInv, SizeInv, [Next]_vars
  PROVE  SizeInv'
<1> SUFFICES ASSUME NoRecheck, DownloadedIsPresent PROVE DownloadedIsPresent'
  BY DEF SizeInv, NoRecheck
<1>0. TypeOK /\ HolesInv
  BY DEF CoreInv, DataInv
<1>1. ASSUME NEW x \in Bytes, NewBlock(x) PROVE DownloadedIsPresent'
  BY <1>0, <1>1, NewBlockSize
<1>2. ASSUME NEW u \in Frontends, NEW a \in Bytes, NEW b \in Bytes, NEW ok \in BOOLEAN,
             Received(u, a, b, ok)
      PROVE  DownloadedIsPresent'
  BY <1>0, <1>2, ReceivedSize
<1>3. ASSUME NEW t \in Frontends, NEW j \in Chunks(t), VerifyChunk(t, j)
      PROVE  DownloadedIsPresent'
  BY <1>0, <1>3, VerifyChunkSize
<1>4. ASSUME NEW t \in Frontends, NEW j \in Chunks(t), PropagateChunk(t, j)
      PROVE  DownloadedIsPresent'
  BY <1>0, <1>4, PropagateSize
<1>5. ASSUME NEW t \in Frontends, Merge(t) PROVE DownloadedIsPresent'
  BY <1>0, <1>5, MergeSize
<1>6. CASE VerifySomeChunks
  BY <1>3, <1>6 DEF VerifySomeChunks
<1>7. ~VerifyAllChunks
  BY <1>0, RecheckNever
<1>8. ASSUME NEW b \in BOOLEAN, Restart(b) PROVE DownloadedIsPresent'
  BY <1>0, <1>8, RestartSize
<1>9. CASE \/ Flush \/ (\E x \in Bytes : Rot(x)) \/ (\E b \in BOOLEAN : Save(b))
           \/ (\E t \in Frontends : SetVerifier(t) \/ Finish(t)) \/ UNCHANGED vars
  BY <1>9, OtherSize DEF Flush, Rot, Save, SetVerifier, Finish, bitmaps, vars
<1> QED BY <1>1, <1>2, <1>3, <1>4, <1>5, <1>6, <1>7, <1>8, <1>9 DEF Next

LEMMA SizeAlways == Spec => [](CoreInv /\ SizeInv)
<1>1. Init => CoreInv /\ SizeInv
  BY CoreInit, SizeInit
<1>2. CoreInv /\ SizeInv /\ [Next]_vars => CoreInv' /\ SizeInv'
  BY CoreNext, SizeNext
<1> QED BY <1>1, <1>2, PTL DEF Spec

\* Unless a recheck is asked for, the downloaded size of the primary's file is
\* the size of its data: what a failed verification, a split, a copy or a
\* restart takes away or gives back is counted once.
THEOREM DownloadedIsRight == Spec => [](NoRecheck => DownloadedIsPresent)
<1>1. CoreInv /\ SizeInv => (NoRecheck => DownloadedIsPresent)
  BY DEF SizeInv
<1> QED BY <1>1, SizeAlways, PTL

-----------------------------------------------------------------------------
(* Finished files *)

\* A primary that verifies finishes with VerifiedBlocks only, which nothing
\* takes back; one that does not trusts the downloaded size.
FinishedStays ==
  file_state[Primary] = "FileDownloaded" =>
    \/ \A x \in Bytes : s_blocks[x] = "Verified"
    \/ Unverified /\ (NoRecheck => Present = Bytes)

\* A step that takes no data away.
LEMMA FinishedStep ==
  ASSUME FinishedStays, UNCHANGED file_state, Unverified' <=> Unverified,
         \A x \in Bytes : s_blocks[x] = "Verified" => s_blocks'[x] = "Verified",
         Unverified => Present \subseteq Present'
  PROVE  FinishedStays'
<1>1. Present' \subseteq Bytes
  BY DEF Present
<1>2. NoRecheck' <=> NoRecheck
  BY DEF NoRecheck
<1> QED BY <1>1, <1>2 DEF FinishedStays

LEMMA NewBlockFinished ==
  ASSUME TypeOK, FinishedStays, NEW x \in Bytes, NewBlock(x)
  PROVE  FinishedStays'
<1>1. /\ \A y \in Bytes : s_blocks'[y] = IF y \in Block(x) THEN "Partial" ELSE s_blocks[y]
      /\ \A y \in Block(x) : s_blocks[y] = "Empty"
      /\ ranges' = ranges \cup Block(x)
      /\ UNCHANGED <<file_state, t_verifier>>
  BY DEF NewBlock, Put, TypeOK
<1>2. Present' = Present
  BY <1>1 DEF Present
<1>3. \A y \in Bytes : s_blocks[y] = "Verified" => s_blocks'[y] = "Verified"
  BY <1>1
<1>4. Unverified' <=> Unverified
  BY <1>1 DEF Unverified
<1> QED BY <1>1, <1>2, <1>3, <1>4, FinishedStep

LEMMA SetCompletedFinished ==
  ASSUME TypeOK, FinishedStays, NEW D, \A y \in D : s_blocks[y] \in {"Empty", "Partial"},
         NEW block \in {"Complete", "Verified"}, SetCompleted(D, block), ranges' \subseteq ranges,
         UNCHANGED <<file_state, t_verifier>>
  PROVE  FinishedStays'
<1>1. \A y \in Bytes : s_blocks'[y] = IF y \in D THEN block ELSE s_blocks[y]
  BY SetCompletedBlocks
<1>2. \A y \in Bytes : s_blocks[y] = "Verified" => s_blocks'[y] = "Verified"
  BY <1>1
<1>3. Present \subseteq Present'
  BY <1>1 DEF Present
<1>4. Unverified' <=> Unverified
  BY DEF Unverified
<1> QED BY <1>2, <1>3, <1>4, FinishedStep

LEMMA VerifyChunkFinished ==
  ASSUME CoreInv, FinishedStays, NEW t \in Frontends, NEW j \in Chunks(t), VerifyChunk(t, j)
  PROVE  FinishedStays'
<1>1. TypeOK
  BY DEF CoreInv, DataInv
<1>2. t \in s_networks /\ UNCHANGED <<file_state, t_verifier>> /\ t_verifier[t] # "None"
  BY DEF VerifyChunk
<1>3. ~Unverified
  BY <1>2 DEF CoreInv, NoneIsAlone, Unverified
<1>4. \A x \in Bytes : s_blocks[x] = "Verified" => s_blocks'[x] = "Verified"
  <2>1. ASSUME NEW J, SetVerified(t, J), NEW x \in Bytes, s_blocks[x] = "Verified"
        PROVE  s_blocks'[x] = "Verified"
    BY <1>1, <2>1, SetVerifiedBlocks
  <2>2. ASSUME NEW J, SetMissing(t, J), NEW x \in Bytes, s_blocks[x] = "Verified"
        PROVE  s_blocks'[x] = "Verified"
    BY <1>1, <2>2, SetMissingBlocks DEF Dropped
  <2> QED BY <1>1, <2>1, <2>2, VerifyChunkCases
<1>5. Unverified' <=> Unverified
  BY <1>2 DEF Unverified
<1> QED BY <1>2, <1>3, <1>4, <1>5, FinishedStep

LEMMA FinishFinished ==
  ASSUME CoreInv, SizeInv, FinishedStays, NEW t \in Frontends, Finish(t)
  PROVE  FinishedStays'
<1>1. /\ UNCHANGED <<s_blocks, ranges, t_verifier>>
      /\ file_state' = [file_state EXCEPT ![t] = "FileDownloaded"]
  BY DEF Finish, bitmaps
<1>2. CASE t # Primary
  <2>1. file_state'[Primary] = file_state[Primary]
    BY <1>1, <1>2, FrontendsAssumption DEF CoreInv, DataInv, TypeOK
  <2> QED BY <1>1, <2>1 DEF FinishedStays, Unverified, Present, NoRecheck
<1>3. CASE t = Primary /\ Unverified
  <2>1. NoRecheck => Present = Bytes
    BY <1>3, PresentType, CardAll DEF Finish, Unverified, SizeInv, DownloadedIsPresent
  <2> QED BY <1>1, <1>3, <2>1 DEF FinishedStays, Unverified, Present, NoRecheck
<1>4. CASE t = Primary /\ ~Unverified
  <2>1. \A j \in Chunks(Primary) : t_bitmap[Primary][j] = "verified"
    BY <1>4 DEF Finish, Unverified
  <2>2. \A x \in Bytes : Chosen(Primary, x) = "verified"
    BY <2>1 DEF Chosen, Chunks
  <2>3. \A x \in Bytes : s_blocks[x] = "Verified"
    BY <2>2 DEF CoreInv, DataInv, Grounded, VerifiedIsBlock
  <2> QED BY <1>1, <2>3 DEF FinishedStays
<1> QED BY <1>2, <1>3, <1>4

LEMMA OtherFinished ==
  ASSUME FinishedStays, UNCHANGED <<s_blocks, ranges, file_state>>, Unverified' <=> Unverified
  PROVE  FinishedStays'
BY DEF FinishedStays, Present, NoRecheck

LEMMA FinishedNext ==
  ASSUME CoreInv, SizeInv, FinishedStays, [Next]_vars
  PROVE  FinishedStays'
<1>0. TypeOK
  BY DEF CoreInv, DataInv
<1>1. ASSUME NEW x \in Bytes, NewBlock(x) PROVE FinishedStays'
  BY <1>0, <1>1, NewBlockFinished
<1>2. ASSUME NEW u \in Frontends, NEW a \in Bytes, NEW b \in Bytes, NEW ok \in BOOLEAN,
             Received(u, a, b, ok)
      PROVE  FinishedStays'
  <2> DEFINE D == Filled((a .. b) \cap ranges)
             block == IF t_verifier[Primary] = "None" THEN "Verified" ELSE "Complete"
  <2>1. /\ SetCompleted(D, block) /\ ranges' \subseteq ranges
        /\ UNCHANGED <<file_state, t_verifier>>
    BY <1>2 DEF Received, Filled, CloseRanges
  <2>2. \A y \in D : s_blocks[y] \in {"Empty", "Partial"}
    BY DEF Filled
  <2>3. block \in {"Complete", "Verified"}
    OBVIOUS
  <2> HIDE DEF D, block
  <2> QED BY <1>0, <2>1, <2>2, <2>3, SetCompletedFinished
<1>3. ASSUME NEW t \in Frontends, NEW j \in Chunks(t), VerifyChunk(t, j) PROVE FinishedStays'
  BY <1>3, VerifyChunkFinished
<1>4. ASSUME NEW t \in Frontends, NEW j \in Chunks(t), PropagateChunk(t, j)
      PROVE  FinishedStays'
  <2> DEFINE D == {x \in BytesOf(t, j) : s_blocks[x] \in {"Empty", "Partial"}}
  <2>1. /\ SetCompleted(D, "Complete") /\ ranges' \subseteq ranges
        /\ UNCHANGED <<file_state, t_verifier>>
    BY <1>4 DEF PropagateChunk, CloseRanges
  <2>2. \A y \in D : s_blocks[y] \in {"Empty", "Partial"}
    OBVIOUS
  <2> HIDE DEF D
  <2> QED BY <1>0, <2>1, <2>2, SetCompletedFinished
<1>5. ASSUME NEW t \in Frontends, SetVerifier(t) PROVE FinishedStays'
  <2>1. Unverified' <=> Unverified
    BY <1>0, <1>5, FrontendsAssumption DEF SetVerifier, Unverified, TypeOK
  <2> QED BY <1>5, <2>1, OtherFinished DEF SetVerifier, bitmaps
<1>6. ASSUME NEW t \in Frontends, Finish(t) PROVE FinishedStays'
  BY <1>6, FinishFinished
<1>7. ASSUME \/ \E t \in Frontends : Merge(t)
             \/ \E b \in BOOLEAN : Restart(b)
      PROVE  FinishedStays'
  <2>1. file_state'[Primary] = "FileDownloading"
    BY <1>0, <1>7, FrontendsAssumption DEF Merge, Restart, Associated, TypeOK
  <2> QED BY <2>1 DEF FinishedStays
<1>8. CASE VerifySomeChunks
  BY <1>3, <1>8 DEF VerifySomeChunks
<1>9. CASE \/ VerifyAllChunks \/ Flush \/ (\E x \in Bytes : Rot(x))
           \/ (\E b \in BOOLEAN : Save(b)) \/ UNCHANGED vars
  BY <1>9, OtherFinished DEF VerifyAllChunks, Flush, Rot, Save, bitmaps, vars, Unverified
<1> QED BY <1>1, <1>2, <1>3, <1>4, <1>5, <1>6, <1>7, <1>8, <1>9 DEF Next

-----------------------------------------------------------------------------
(* What is counted was written *)

\* What was written to the file on disk, or will be by the next flush.
InFile == stored \cup buffered

\* No recheck, no lost file, no save that failed to flush.
Unspoilt == NoRecheck /\ env["lost"] = 0 /\ env["unflushed"] = 0

\* The bytes that s_blocks or the bitmap of the primary count were written.
Backed ==
  \A x \in Bytes :
    x \in Present \/ Chosen(Primary, x) \in {"complete", "verified"} => x \in InFile

\* The bytes that a restart takes from the ini files are on disk, whichever
\* frontend saved them: RestV, RestC and the present part of RestP.
SavedBacked ==
  /\ saved.present \subseteq stored
  /\ \A t \in saved.networks : \A x \in Bytes :
       saved.bitmap[t][ChunkOf(t, x)] = "complete" => x \in stored
  /\ \A x \in Bytes : saved.bitmap[Primary][ChunkOf(Primary, x)] = "verified" => x \in stored

FileInv == Backed /\ SavedBacked

\* Once lost or unflushed, always so.
LEMMA UnspoiltBefore ==
  ASSUME TypeOK, [Next]_vars, Unspoilt'
  PROVE  Unspoilt
<1>1. ASSUME NEW k \in EnvKinds, Spend(k) \/ env' = env PROVE Unspoilt
  <2>1. /\ env["lost"] \in Nat /\ env["unflushed"] \in Nat
        /\ env["lost"] <= env'["lost"] /\ env["unflushed"] <= env'["unflushed"]
    BY <1>1 DEF Spend, TypeOK, EnvKinds
  <2> QED BY <2>1 DEF Unspoilt, NoRecheck
<1>2. \E k \in EnvKinds : Spend(k) \/ env' = env
  <2>1. ASSUME NEW x \in Bytes, NewBlock(x) \/ Rot(x) PROVE env' = env \/ Spend("rot")
    BY <2>1 DEF NewBlock, Rot
  <2>2. ASSUME NEW u \in Frontends, NEW a \in Bytes, NEW b \in Bytes, NEW ok \in BOOLEAN,
               Received(u, a, b, ok)
        PROVE  env' = env \/ Spend("bad")
    BY <2>2 DEF Received
  <2>3. ASSUME NEW t \in Frontends, NEW j \in Chunks(t), VerifyChunk(t, j)
        PROVE  env' = env \/ Spend("fail")
    BY <2>3 DEF VerifyChunk, FileVerify
  <2>4. ASSUME NEW t \in Frontends, NEW j \in Chunks(t), PropagateChunk(t, j)
        PROVE  Spend("copy")
    BY <2>4 DEF PropagateChunk
  <2>5. ASSUME NEW t \in Frontends, SetVerifier(t) \/ Merge(t) \/ Finish(t)
        PROVE  env' = env \/ Spend("hash")
    BY <2>5 DEF SetVerifier, Merge, Finish
  <2>6. ASSUME VerifySomeChunks PROVE env' = env \/ Spend("fail")
    BY <2>3, <2>6 DEF VerifySomeChunks
  <2>7. ASSUME NEW b \in BOOLEAN, Save(b) \/ Restart(b) \/ VerifyAllChunks
        PROVE  \/ Spend("save") \/ Spend("unflushed") \/ Spend("lost") \/ Spend("crash")
               \/ Spend("recheck")
    BY <2>7 DEF Save, Restart, VerifyAllChunks
  <2>8. ASSUME Flush \/ UNCHANGED vars PROVE env' = env
    BY <2>8 DEF Flush, vars
  <2>9. {"bad", "rot", "fail", "save", "unflushed", "crash", "lost", "recheck", "copy", "hash"}
           = EnvKinds
    BY DEF EnvKinds
  <2> QED BY <2>1, <2>2, <2>3, <2>4, <2>5, <2>6, <2>7, <2>8, <2>9 DEF Next
<1> QED BY <1>1, <1>2

\* A step that removes nothing from the file and leaves the ini files alone.
LEMMA FileStep ==
  ASSUME FileInv, saved' = saved, stored \subseteq stored', InFile \subseteq InFile',
         \A x \in Present' : x \in Present \/ x \in InFile',
         \A x \in Bytes : t_bitmap'[Primary][ChunkOf(Primary, x)] \in {"complete", "verified"} =>
           Chosen(Primary, x) \in {"complete", "verified"} \/ x \in InFile'
  PROVE  FileInv'
<1>1. Backed'
  BY DEF FileInv, Backed, Chosen
<1>2. SavedBacked'
  BY DEF FileInv, SavedBacked
<1> QED BY <1>1, <1>2 DEF FileInv

LEMMA NewBlockFile ==
  ASSUME TypeOK, FileInv, NEW x \in Bytes, NewBlock(x)
  PROVE  FileInv'
<1>1. /\ \A y \in Bytes : s_blocks'[y] = IF y \in Block(x) THEN "Partial" ELSE s_blocks[y]
      /\ ranges' = ranges \cup Block(x)
      /\ UNCHANGED <<saved, stored, buffered>>
  BY DEF NewBlock, Put, TypeOK, disk
<1>2. Present' \subseteq Present
  BY <1>1 DEF Present
<1>3. \A y \in Bytes : t_bitmap'[Primary][ChunkOf(Primary, y)] \in {"complete", "verified"} =>
        Chosen(Primary, y) \in {"complete", "verified"}
  BY NewBlockBitmap, ChunkInRange, FrontendsAssumption DEF Chosen
<1> QED BY <1>1, <1>2, <1>3, FileStep DEF InFile

\* set_completed_block: the chunk that becomes complete has no other block
\* than complete ones.
LEMMA SetCompletedFile ==
  ASSUME TypeOK, SwarmerInvariant, FileInv, NEW D \in SUBSET Bytes, NEW block, SetCompleted(D, block),
         saved' = saved, stored \subseteq stored', InFile \subseteq InFile', D \subseteq InFile',
         ranges \ ranges' \subseteq InFile'
  PROVE  FileInv'
<1>1. \A y \in Bytes : s_blocks'[y] = IF y \in D THEN block ELSE s_blocks[y]
  BY SetCompletedBlocks
<1>2. \A x \in Present' : x \in Present \/ x \in InFile'
  BY <1>1 DEF Present
<1>3. ASSUME NEW x \in Bytes,
             t_bitmap'[Primary][ChunkOf(Primary, x)] \in {"complete", "verified"}
      PROVE  Chosen(Primary, x) \in {"complete", "verified"} \/ x \in InFile'
  <2>1. ChunkOf(Primary, x) \in Bytes
    BY ChunkInRange, FrontendsAssumption
  <2>2. CASE ChunkOf(Primary, x) \in Completes(D)
    <3>1. Put(s_verified_bitmap, D, "complete")[x] = "complete"
      BY <2>2 DEF Completes, Escalated, AllBlocksAre, BytesOf
    <3>2. x \in D \/ s_verified_bitmap[x] = "complete"
      BY <3>1 DEF Put, TypeOK
    <3>3. s_verified_bitmap[x] = "complete" => x \in Present
      BY DEF SwarmerInvariant, Present
    <3> QED BY <3>2, <3>3 DEF FileInv, Backed
  <2>3. CASE ChunkOf(Primary, x) \notin Completes(D)
    BY <1>3, <2>1, <2>3, SetCompletedBitmap DEF Chosen
  <2> QED BY <2>2, <2>3
<1> QED BY <1>2, <1>3, FileStep

LEMMA ReceivedFile ==
  ASSUME TypeOK, SwarmerInvariant, FileInv, NEW u \in Frontends, NEW a \in Bytes, NEW b \in Bytes,
         NEW ok \in BOOLEAN, Received(u, a, b, ok)
  PROVE  FileInv'
<1> DEFINE R == (a .. b) \cap ranges
           block == IF t_verifier[Primary] = "None" THEN "Verified" ELSE "Complete"
<1>1. /\ SetCompleted(Filled(R), block) /\ ranges' = ranges \ R
      /\ buffered' = buffered \cup R /\ UNCHANGED <<saved, stored>>
  BY DEF Received, CloseRanges, Filled
<1>2. Filled(R) \in SUBSET Bytes
  BY DEF Filled
<1>3. InFile' = InFile \cup R
  BY <1>1 DEF InFile
<1>4. ASSUME NEW x \in Filled(R) PROVE x \in InFile \cup R
  <2>1. x \in Bytes /\ x \in Block(x) /\ s_blocks[x] = "Partial" /\ Block(x) \cap ranges \subseteq R
    BY BlockFacts DEF Filled, Block
  <2>2. CASE x \in ranges
    BY <2>1, <2>2
  <2>3. CASE x \notin ranges
    BY <2>1, <2>3 DEF FileInv, Backed, Present
  <2> QED BY <2>2, <2>3
<1> HIDE DEF R, block
<1>5. Filled(R) \subseteq InFile' /\ ranges \ ranges' \subseteq InFile'
  BY <1>1, <1>3, <1>4
<1> QED BY <1>1, <1>2, <1>3, <1>5, SetCompletedFile

LEMMA PropagateFile ==
  ASSUME TypeOK, SwarmerInvariant, FileInv, NEW t \in Frontends, NEW j \in Chunks(t),
         PropagateChunk(t, j)
  PROVE  FileInv'
<1> DEFINE D == {x \in BytesOf(t, j) : s_blocks[x] \in {"Empty", "Partial"}}
<1>1. /\ SetCompleted(D, "Complete") /\ ranges' = ranges \ D /\ saved' = saved
      /\ stored' = stored \cup buffered \cup BytesOf(t, j) /\ buffered' = {}
  BY DEF PropagateChunk, CloseRanges
<1>2. D \in SUBSET Bytes /\ D \subseteq BytesOf(t, j)
  BY DEF BytesOf
<1> HIDE DEF D
<1>3. /\ stored \subseteq stored' /\ InFile \subseteq InFile' /\ D \subseteq InFile'
      /\ ranges \ ranges' \subseteq InFile'
  BY <1>1, <1>2 DEF InFile
<1> QED BY <1>1, <1>2, <1>3, SetCompletedFile

\* Only complete chunks are verified, and data is only taken away otherwise.
LEMMA VerifyChunkFile ==
  ASSUME TypeOK, FileInv, NEW t \in Frontends, NEW j \in Chunks(t), VerifyChunk(t, j)
  PROVE  FileInv'
<1>1. saved' = saved /\ stored \subseteq stored' /\ InFile' = InFile
  BY DEF VerifyChunk, FlushFd, InFile
<1>2. \A x \in Bytes : ChunkOf(Primary, x) \in Bytes
  BY ChunkInRange, FrontendsAssumption
<1>3. ASSUME NEW J \in SUBSET CompleteChunks(t), SetVerified(t, J) PROVE FileInv'
  <2>1. ASSUME NEW x \in VerifiedBlocks(t, J) PROVE x \in InFile
    BY <1>3, <2>1 DEF VerifiedBlocks, CompleteChunks, FileInv, Backed, Chosen
  <2>2. \A x \in Present' : x \in Present \/ x \in InFile'
    BY <1>1, <1>3, <2>1, SetVerifiedBlocks DEF Present
  <2>3. ASSUME NEW x \in Bytes,
               t_bitmap'[Primary][ChunkOf(Primary, x)] \in {"complete", "verified"}
        PROVE  Chosen(Primary, x) \in {"complete", "verified"}
    <3>1. CASE t = Primary
      BY <1>2, <1>3, <2>3, <3>1, SetVerifiedBitmap DEF Chosen, CompleteChunks
    <3>2. CASE t # Primary
      <4>1. ChunkOf(Primary, x) \notin Passed(t, J, Primary)
        BY DEF Passed
      <4> QED BY <1>2, <1>3, <2>3, <3>2, <4>1, FrontendsAssumption, SetVerifiedBitmap DEF Chosen
    <3> QED BY <3>1, <3>2
  <2> QED BY <1>1, <2>2, <2>3, FileStep
<1>4. ASSUME NEW J \in SUBSET CompleteChunks(t), SetMissing(t, J) PROVE FileInv'
  <2>1. Present' \subseteq Present
    BY <1>4, SetMissingBlocks DEF Present
  <2>2. \A x \in Bytes : t_bitmap'[Primary][ChunkOf(Primary, x)] \in {"complete", "verified"} =>
          Chosen(Primary, x) \in {"complete", "verified"}
    BY <1>2, <1>4, FrontendsAssumption, SetMissingBitmap DEF Chosen
  <2> QED BY <1>1, <2>1, <2>2, FileStep
<1> QED BY <1>3, <1>4, VerifyChunkCases

LEMMA MergeFile ==
  ASSUME TypeOK, FileInv, NEW t \in Frontends, Merge(t)
  PROVE  FileInv'
<1> DEFINE nets == s_networks \cup {t}
<1>1. /\ \A x \in Bytes : s_blocks'[x] = IF x \in VoidPieces(nets) THEN "Empty"
           ELSE IF x \in FullPieces(nets) THEN "Complete" ELSE s_blocks[x]
      /\ ranges' = ranges \ VoidPieces(nets)
  BY MergeBlocks
<1>2. \A x \in FullPieces(nets) : s_blocks[x] = "Partial" /\ x \notin ranges
  BY BlockFacts DEF FullPieces, Cut
<1>3. UNCHANGED <<saved, stored, buffered>>
  BY DEF Merge, disk
<1>4. t_bitmap'[Primary] = t_bitmap[Primary]
  BY MergeBitmap, FrontendsAssumption
<1> HIDE DEF nets
<1>5. Present' \subseteq Present
  BY <1>1, <1>2 DEF Present
<1> QED BY <1>3, <1>4, <1>5, FileStep DEF InFile, Chosen

\* save_config: what the frontends hold complete is flushed with the rest; a
\* secondary's complete chunks are verified blocks.
LEMMA SaveFile ==
  ASSUME TypeOK, CoherentInv, FileInv, Save(TRUE)
  PROVE  FileInv'
<1>1. /\ stored' = InFile /\ buffered' = {} /\ saved' = Snapshot
      /\ UNCHANGED <<s_blocks, ranges, t_bitmap>>
  BY DEF Save, FlushFd, InFile, bitmaps
<1>2. Present' = Present /\ InFile' = InFile
  BY <1>1 DEF Present, InFile
<1>3. Backed'
  BY <1>1, <1>2 DEF FileInv, Backed, Chosen
<1>4. saved'.present \subseteq stored'
  BY <1>1 DEF Snapshot, Present, FileInv, Backed
<1>5. \A x \in Bytes : saved'.bitmap[Primary][ChunkOf(Primary, x)] \in {"complete", "verified"}
                         => x \in stored'
  BY <1>1 DEF Snapshot, FileInv, Backed, Chosen
<1>6. ASSUME NEW t \in saved'.networks, NEW x \in Bytes,
             saved'.bitmap[t][ChunkOf(t, x)] = "complete"
      PROVE  x \in stored'
  <2>1. CASE t = Primary
    BY <1>5, <1>6, <2>1
  <2>2. CASE t # Primary
    <3>1. t \in s_networks \ {Primary} /\ Chosen(t, x) = "complete"
      BY <1>1, <1>6, <2>2 DEF Snapshot, Chosen
    <3>2. s_blocks[x] = "Verified"
      BY <3>1 DEF CoherentInv, SecondaryCoherent, SwarmerInvariant
    <3> QED BY <1>1, <3>2 DEF Present, FileInv, Backed
  <2> QED BY <2>1, <2>2
<1> QED BY <1>3, <1>4, <1>5, <1>6 DEF FileInv, SavedBacked

\* A crash drops the buffers, and the restart relies on no byte of them.
LEMMA RestartFile ==
  ASSUME TypeOK, FileInv, Restart(FALSE)
  PROVE  FileInv'
<1>1. saved' = saved /\ stored' = stored /\ InFile' = stored
  BY DEF Restart, InFile
<1>2. \A x \in RestV : x \in Bytes /\ x \in stored
  BY DEF RestV, Held, FileInv, SavedBacked
<1>3. \A x \in RestC : x \in Bytes /\ x \in stored
  <2> SUFFICES ASSUME NEW x \in RestC PROVE x \in stored
    BY DEF RestC
  <2>1. CASE \E t \in saved.networks : ChunkOf(t, x) \in Held(t, "complete")
    BY <2>1 DEF RestC, Held, FileInv, SavedBacked
  <2>2. CASE WithinPresent(saved.networks, x)
    BY <2>2, BlockFacts DEF RestC, WithinPresent, FileInv, SavedBacked
  <2> QED BY <2>1, <2>2 DEF RestC
<1>4. saved.present \subseteq stored
  BY DEF FileInv, SavedBacked
<1>5. /\ s_blocks' = [x \in Bytes |->
           IF x \in RestV THEN "Verified" ELSE IF x \in RestC THEN "Complete"
           ELSE IF x \in RestP THEN "Partial" ELSE "Empty"]
      /\ ranges' = RestP \ saved.present
  BY RestartBlocks
<1>6. Present' \subseteq stored
  BY <1>2, <1>3, <1>4, <1>5 DEF Present
<1>7. ASSUME NEW x \in Bytes,
             t_bitmap'[Primary][ChunkOf(Primary, x)] \in {"complete", "verified"}
      PROVE  x \in stored
  <2>1. ChunkOf(Primary, x) \in Bytes
    BY ChunkInRange, FrontendsAssumption
  <2>2. \/ ChunkOf(Primary, x) \in Held(Primary, "verified")
        \/ ChunkOf(Primary, x) \in WholeChunks(RestC)
    BY <1>7, <2>1, RestartBitmap
  <2>3. x \in RestV \cup RestC
    BY <2>2 DEF RestV, WholeChunks, BytesOf
  <2> QED BY <2>3, <1>2, <1>3
<1> QED BY <1>1, <1>6, <1>7 DEF FileInv, Backed, SavedBacked, Chosen

LEMMA FileNext ==
  ASSUME AgreeInv, Unspoilt, Unspoilt', FileInv, [Next]_vars
  PROVE  FileInv'
<1>0. TypeOK /\ CoherentInv /\ SwarmerInvariant
  BY DEF AgreeInv, CoreInv, DataInv, CoherentInv, Unspoilt
<1>1. ASSUME NEW x \in Bytes, NewBlock(x) PROVE FileInv'
  BY <1>0, <1>1, NewBlockFile
<1>2. ASSUME NEW u \in Frontends, NEW a \in Bytes, NEW b \in Bytes, NEW ok \in BOOLEAN,
             Received(u, a, b, ok)
      PROVE  FileInv'
  BY <1>0, <1>2, ReceivedFile
<1>3. ASSUME NEW t \in Frontends, NEW j \in Chunks(t), VerifyChunk(t, j) PROVE FileInv'
  BY <1>0, <1>3, VerifyChunkFile
<1>4. ASSUME NEW t \in Frontends, NEW j \in Chunks(t), PropagateChunk(t, j) PROVE FileInv'
  BY <1>0, <1>4, PropagateFile
<1>5. ASSUME NEW t \in Frontends, Merge(t) PROVE FileInv'
  BY <1>0, <1>5, MergeFile
<1>6. CASE VerifySomeChunks
  BY <1>3, <1>6 DEF VerifySomeChunks
<1>7. ~VerifyAllChunks
  BY <1>0, RecheckNever DEF Unspoilt
<1>8. ~Save(FALSE) /\ ~Restart(TRUE)
  BY <1>0 DEF Save, Restart, Spend, Unspoilt, TypeOK, EnvKinds
<1>9. ASSUME NEW b \in BOOLEAN, Save(b) PROVE FileInv'
  <2>1. b = TRUE
    BY <1>8, <1>9
  <2> QED BY <1>0, <1>9, <2>1, SaveFile
<1>10. ASSUME NEW b \in BOOLEAN, Restart(b) PROVE FileInv'
  <2>1. b = FALSE
    BY <1>8, <1>10
  <2> QED BY <1>0, <1>10, <2>1, RestartFile
<1>11. CASE \/ Flush \/ (\E x \in Bytes : Rot(x))
            \/ (\E t \in Frontends : SetVerifier(t) \/ Finish(t)) \/ UNCHANGED vars
  <2>1. /\ UNCHANGED <<s_blocks, ranges, t_bitmap, saved>>
        /\ stored \subseteq stored' /\ InFile' = InFile
    BY <1>11 DEF Flush, FlushFd, Rot, SetVerifier, Finish, bitmaps, disk, vars, InFile
  <2> QED BY <2>1, FileStep DEF Present, Chosen
<1> QED BY <1>1, <1>2, <1>3, <1>4, <1>5, <1>6, <1>7, <1>9, <1>10, <1>11 DEF Next

\* Unless a recheck is asked for, the temporary file is lost or a save fails
\* to flush, every byte of a finished file was written to it: what escalates,
\* splits, is copied, is saved by whichever frontend and restored after a
\* crash is never more than what reached the file or its buffers.
THEOREM FinishedIsWritten == Spec => [](NoRecheck => FinishedIsStored)
<1> DEFINE I == AgreeInv /\ SizeInv /\ FinishedStays /\ (Unspoilt => FileInv)
<1>1. Init => I
  <2>1. Init => FinishedStays
    BY FrontendsAssumption DEF Init, FinishedStays
  <2>2. Init => AgreeInv
    BY CoreInit, CoherentInit DEF AgreeInv
  <2>3. Init => FileInv
    BY ChunkInRange, FrontendsAssumption
    DEF Init, Snapshot, FileInv, Backed, SavedBacked, Present, Chosen
  <2> QED BY <2>1, <2>2, <2>3, SizeInit
<1>2. I /\ [Next]_vars => I'
  <2> SUFFICES ASSUME I, [Next]_vars
               PROVE  AgreeInv' /\ SizeInv' /\ FinishedStays' /\ (Unspoilt' => FileInv')
    OBVIOUS
  <2>1. TypeOK /\ CoreInv
    BY DEF AgreeInv, CoreInv, DataInv
  <2>2. CoreInv' /\ SizeInv' /\ FinishedStays'
    BY <2>1, CoreNext, SizeNext, FinishedNext
  <2>3. AgreeInv'
    BY <2>2, CoherentNext DEF AgreeInv, NoRecheck
  <2>4. Unspoilt' => FileInv'
    BY <2>1, UnspoiltBefore, FileNext
  <2> QED BY <2>2, <2>3, <2>4
<1>3. I => (NoRecheck => FinishedIsStored)
  <2> SUFFICES ASSUME I, Unspoilt, file_state[Primary] = "FileDownloaded"
               PROVE  InFile = Bytes
    BY DEF FinishedIsStored, Unspoilt, InFile
  <2>1. TypeOK
    BY DEF AgreeInv, CoreInv, DataInv
  <2>2. Bytes \subseteq Present
    BY DEF FinishedStays, Present, Unspoilt
  <2>3. Bytes \subseteq InFile
    BY <2>2 DEF FileInv, Backed
  <2> QED BY <2>1, <2>3 DEF TypeOK, InFile
<1> QED BY <1>1, <1>2, <1>3, PTL DEF Spec

-----------------------------------------------------------------------------
(* The counters of the frontends *)

\* Nothing is counted before a merge: associate starts the bitmap of a
\* frontend again, but not its counters.
NothingSolo == SoloChunks \subseteq {0}

Done(t) == {j \in Chunks(t) : t_bitmap[t][j] \in {"complete", "verified"}}
Veri(t) == {j \in Chunks(t) : t_bitmap[t][j] = "verified"}

Counted(t) == /\ t_ncomplete_chunks[t] = Cardinality(Done(t))
              /\ t_nverified_chunks[t] = Cardinality(Veri(t))
Unmerged(t) == t_ncomplete_chunks[t] = 0 /\ t_nverified_chunks[t] = 0

CountsInv == \A t \in Frontends : IF t \in s_networks THEN Counted(t) ELSE Unmerged(t)

LEMMA DoneType ==
  ASSUME NEW t \in Frontends
  PROVE  Done(t) \in SUBSET Bytes /\ Veri(t) \in SUBSET Bytes
BY ChunksType DEF Done, Veri

\* The counters of t follow its bitmap.
LEMMA CountedSame ==
  ASSUME NEW t \in Frontends, Counted(t),
         t_ncomplete_chunks'[t] = t_ncomplete_chunks[t],
         t_nverified_chunks'[t] = t_nverified_chunks[t],
         \A j \in Chunks(t) :
           /\ t_bitmap'[t][j] \in {"complete", "verified"}
                <=> t_bitmap[t][j] \in {"complete", "verified"}
           /\ t_bitmap'[t][j] = "verified" <=> t_bitmap[t][j] = "verified"
  PROVE  Counted(t)'
<1>1. Done(t)' = Done(t) /\ Veri(t)' = Veri(t)
  BY DEF Done, Veri, Chunks
<1> QED BY <1>1 DEF Counted

LEMMA CountedMore ==
  ASSUME NEW t \in Frontends, Counted(t), NEW A \in SUBSET Bytes, NEW B \in SUBSET Bytes,
         t_ncomplete_chunks'[t] = t_ncomplete_chunks[t] + Cardinality(A),
         t_nverified_chunks'[t] = t_nverified_chunks[t] + Cardinality(B),
         Done(t)' = Done(t) \cup A, Done(t) \cap A = {},
         Veri(t)' = Veri(t) \cup B, Veri(t) \cap B = {}
  PROVE  Counted(t)'
<1>1. /\ Cardinality(Done(t) \cup A) = Cardinality(Done(t)) + Cardinality(A)
      /\ Cardinality(Veri(t) \cup B) = Cardinality(Veri(t)) + Cardinality(B)
  BY DoneType, CardAdd
<1> QED BY <1>1 DEF Counted

LEMMA NewBlockCounts ==
  ASSUME TypeOK, CountsInv, NEW x \in Bytes, NewBlock(x)
  PROVE  CountsInv'
<1>1. UNCHANGED <<s_networks, t_ncomplete_chunks, t_nverified_chunks>>
  BY DEF NewBlock
<1> SUFFICES ASSUME NEW t \in Frontends, t \in s_networks, Counted(t) PROVE Counted(t)'
  BY <1>1 DEF CountsInv, Unmerged
<1>2. \A j \in Bytes : \/ t_bitmap'[t][j] = t_bitmap[t][j]
                       \/ t_bitmap[t][j] = "missing" /\ t_bitmap'[t][j] = "partial"
  BY NewBlockBitmap
<1>3. \A j \in Chunks(t) :
        /\ t_bitmap'[t][j] \in {"complete", "verified"}
             <=> t_bitmap[t][j] \in {"complete", "verified"}
        /\ t_bitmap'[t][j] = "verified" <=> t_bitmap[t][j] = "verified"
  BY <1>2, ChunksType
<1> QED BY <1>1, <1>3, CountedSame

LEMMA SetCompletedCounts ==
  ASSUME TypeOK, CountsInv, NEW D, D \subseteq Bytes, NEW block, SetCompleted(D, block),
         s_networks' = s_networks
  PROVE  CountsInv'
<1>1. /\ \A t \in Frontends \ {Primary} : t_bitmap'[t] = t_bitmap[t]
      /\ \A j \in Bytes : t_bitmap'[Primary][j] =
           IF j \in Completes(D) THEN "complete" ELSE t_bitmap[Primary][j]
  BY SetCompletedBitmap
<1>2. /\ t_ncomplete_chunks' = [t_ncomplete_chunks EXCEPT ![Primary] = @ + Cardinality(Completes(D))]
      /\ t_nverified_chunks' = t_nverified_chunks
  BY DEF SetCompleted, Completes, AddComplete
<1>3. /\ Completes(D) \subseteq Chunks(Primary)
      /\ \A j \in Completes(D) : t_bitmap[Primary][j] \in {"missing", "partial"}
  BY DEF Completes, Escalated, Touched, Chunks
<1>4. ASSUME NEW t \in Frontends \ {Primary}
      PROVE  IF t \in s_networks THEN Counted(t)' ELSE Unmerged(t)'
  <2>1. /\ t_ncomplete_chunks'[t] = t_ncomplete_chunks[t]
        /\ t_nverified_chunks'[t] = t_nverified_chunks[t] /\ t_bitmap'[t] = t_bitmap[t]
    BY <1>1, <1>2 DEF TypeOK
  <2>2. CASE t \in s_networks
    BY <2>1, <2>2, CountedSame DEF CountsInv
  <2>3. CASE t \notin s_networks
    BY <2>1, <2>3 DEF CountsInv, Unmerged
  <2> QED BY <2>2, <2>3
<1>5. Counted(Primary)'
  <2>1. Primary \in Frontends /\ Counted(Primary) /\ Chunks(Primary) \subseteq Bytes
    BY FrontendsAssumption, ChunksType DEF CountsInv, TypeOK
  <2>2. Done(Primary)' = Done(Primary) \cup Completes(D) /\ Done(Primary) \cap Completes(D) = {}
    BY <1>1, <1>3, <2>1 DEF Done, Chunks
  <2>3. Veri(Primary)' = Veri(Primary) \cup {} /\ Veri(Primary) \cap {} = {}
    BY <1>1, <1>3, <2>1 DEF Veri, Chunks
  <2>4. t_ncomplete_chunks'[Primary] = t_ncomplete_chunks[Primary] + Cardinality(Completes(D))
    BY <1>2, <2>1 DEF TypeOK
  <2>5. t_nverified_chunks'[Primary] = t_nverified_chunks[Primary] + Cardinality({})
    BY <1>2, <2>1, FS_EmptySet DEF TypeOK
  <2>6. Completes(D) \in SUBSET Bytes /\ {} \in SUBSET Bytes
    BY <1>3, <2>1
  <2> QED BY <2>1, <2>2, <2>3, <2>4, <2>5, <2>6, CountedMore
<1> QED BY <1>4, <1>5 DEF CountsInv, TypeOK

\* set_frontend_state_verified, over complete chunks.
LEMMA SetVerifiedCounts ==
  ASSUME TypeOK, CountsInv, NEW t \in s_networks, NEW J, J \subseteq CompleteChunks(t),
         SetVerified(t, J), s_networks' = s_networks
  PROVE  CountsInv'
<1> DEFINE started(u) == {k \in Passed(t, J, u) \cup (IF u = t THEN J ELSE {}) :
                            t_bitmap[u][k] \in {"missing", "partial"}}
<1>0. t \in Frontends
  BY DEF TypeOK
<1>1. /\ \A j \in Bytes : t_bitmap'[t][j] = IF j \in J THEN "verified" ELSE t_bitmap[t][j]
      /\ \A u \in Frontends \ {t} : \A j \in Bytes : t_bitmap'[u][j] =
           IF j \in Passed(t, J, u) THEN (IF Trusts(u) THEN "verified" ELSE "complete")
           ELSE t_bitmap[u][j]
  BY <1>0, SetVerifiedBitmap
<1>2. /\ t_ncomplete_chunks' = [u \in Frontends |->
           t_ncomplete_chunks[u] + Cardinality(started(u))]
      /\ t_nverified_chunks' = [u \in Frontends |->
           t_nverified_chunks[u] + (IF u = t THEN Cardinality(J)
                                    ELSE IF Trusts(u) THEN Cardinality(Passed(t, J, u)) ELSE 0)]
  BY DEF SetVerified, Passed, Trusts
<1>3. Passed(t, J, t) = {}
  BY DEF Passed, VerifiedBlocks, Touched
<1>4. \A u \in Frontends : Passed(t, J, u) \subseteq Chunks(u)
  BY DEF Passed, VerifiedBlocks, Touched, Chunks
<1>5. ASSUME NEW u \in Frontends, NEW k \in Passed(t, J, u)
      PROVE  /\ t_bitmap[u][k] \in {"missing", "partial", "complete"}
             /\ ~Trusts(u) => t_bitmap[u][k] \in {"missing", "partial"}
             /\ u \in s_networks
  BY DEF Passed
<1>6. \A j \in J : j \in Chunks(t) /\ t_bitmap[t][j] = "complete"
  BY DEF CompleteChunks
<1>7. ASSUME NEW u \in Frontends, u \notin s_networks
      PROVE  Unmerged(u)'
  <2>1. u # t /\ Passed(t, J, u) = {}
    BY <1>5, <1>7
  <2>2. started(u) = {}
    BY <2>1
  <2>3. t_ncomplete_chunks[u] = 0 /\ t_nverified_chunks[u] = 0
    BY <1>7 DEF CountsInv, Unmerged
  <2> HIDE DEF started
  <2>4. Cardinality(started(u)) = 0 /\ Cardinality(Passed(t, J, u)) = 0
    BY <2>1, <2>2, FS_EmptySet
  <2>5. t_ncomplete_chunks'[u] = 0 + 0
    BY <1>2, <2>3, <2>4
  <2>6. t_nverified_chunks'[u] = 0 + 0
    BY <1>2, <2>1, <2>3, <2>4
  <2> QED BY <2>5, <2>6 DEF Unmerged
<1>8. Counted(t)'
  <2>1. started(t) = {}
    BY <1>3, <1>6
  <2>2. Counted(t) /\ Chunks(t) \subseteq Bytes
    BY <1>0, ChunksType DEF CountsInv
  <2> HIDE DEF started
  <2>3. Done(t)' = Done(t) \cup {} /\ Done(t) \cap {} = {}
    BY <1>1, <1>6, <2>2 DEF Done, Chunks
  <2>4. Veri(t)' = Veri(t) \cup J /\ Veri(t) \cap J = {}
    BY <1>1, <1>6, <2>2 DEF Veri, Chunks
  <2>5. J \in SUBSET Bytes /\ {} \in SUBSET Bytes
    BY <1>6, <2>2
  <2>6. /\ t_ncomplete_chunks'[t] = t_ncomplete_chunks[t] + Cardinality({})
        /\ t_nverified_chunks'[t] = t_nverified_chunks[t] + Cardinality(J)
    BY <1>0, <1>2, <2>1
  <2> QED BY <1>0, <2>2, <2>3, <2>4, <2>5, <2>6, CountedMore
<1>9. ASSUME NEW u \in Frontends, u \in s_networks, u # t
      PROVE  Counted(u)'
  <2> DEFINE P == Passed(t, J, u)
             B == IF Trusts(u) THEN P ELSE {}
  <2>1. Counted(u) /\ Chunks(u) \subseteq Bytes /\ P \subseteq Chunks(u)
    BY <1>4, <1>9, ChunksType DEF CountsInv
  <2>2. started(u) = {k \in P : t_bitmap[u][k] \in {"missing", "partial"}}
    BY <1>9
  <2>3. \A j \in Chunks(u) : t_bitmap'[u][j] =
          IF j \in P THEN (IF Trusts(u) THEN "verified" ELSE "complete") ELSE t_bitmap[u][j]
    BY <1>1, <1>9, <2>1
  <2>4. \A k \in P : /\ t_bitmap[u][k] \in {"missing", "partial", "complete"}
                     /\ ~Trusts(u) => t_bitmap[u][k] \in {"missing", "partial"}
    BY <1>5
  <2>5. t_ncomplete_chunks'[u] = t_ncomplete_chunks[u] + Cardinality(started(u))
    BY <1>2
  <2>6. t_nverified_chunks'[u] = t_nverified_chunks[u] + Cardinality(B)
    <3>1. CASE Trusts(u)
      BY <1>2, <1>9, <3>1
    <3>2. CASE ~Trusts(u)
      BY <1>2, <1>9, <3>2, FS_EmptySet
    <3> QED BY <3>1, <3>2
  <2> HIDE DEF P, started
  <2>7. Done(u)' = Done(u) \cup started(u) /\ Done(u) \cap started(u) = {}
    BY <2>1, <2>2, <2>3, <2>4 DEF Done, Chunks
  <2>8. Veri(u)' = Veri(u) \cup B /\ Veri(u) \cap B = {}
    BY <2>1, <2>3, <2>4 DEF Veri, Chunks
  <2>9. started(u) \in SUBSET Bytes /\ B \in SUBSET Bytes
    BY <2>1, <2>2
  <2> HIDE DEF B
  <2> QED BY <2>1, <2>5, <2>6, <2>7, <2>8, <2>9, CountedMore
<1> QED BY <1>7, <1>8, <1>9 DEF CountsInv

\* set_frontend_state_missing, over complete chunks.
LEMMA SetMissingCounts ==
  ASSUME TypeOK, CountsInv, NEW t \in s_networks, NEW J, J \subseteq CompleteChunks(t),
         SetMissing(t, J), s_networks' = s_networks
  PROVE  CountsInv'
<1>0. t \in Frontends
  BY DEF TypeOK
<1>1. /\ \A j \in Bytes : t_bitmap'[t][j] = IF j \in Reset(t, J) THEN "missing"
           ELSE IF j \in Reached(t, J) THEN "partial" ELSE t_bitmap[t][j]
      /\ \A u \in Frontends \ {t} : \A j \in Bytes : t_bitmap'[u][j] =
           IF j \in Emptied(t, J, u) THEN "missing" ELSE t_bitmap[u][j]
  BY <1>0, SetMissingBitmap
<1>2. /\ t_ncomplete_chunks' =
           [t_ncomplete_chunks EXCEPT ![t] = @ + (0 - Cardinality(Reached(t, J)))]
      /\ t_nverified_chunks' = t_nverified_chunks
  BY DEF SetMissing, AddComplete, Failing, Reached
<1>3. /\ Reset(t, J) \subseteq Reached(t, J)
      /\ \A j \in Reached(t, J) : j \in Chunks(t) /\ t_bitmap[t][j] = "complete"
      /\ \A u \in Frontends : \A k \in Emptied(t, J, u) : t_bitmap[u][k] = "partial"
  BY DEF Reset, Reached, CompleteChunks, Emptied
<1>4. ASSUME NEW u \in Frontends \ {t}
      PROVE  IF u \in s_networks THEN Counted(u)' ELSE Unmerged(u)'
  <2>1. /\ t_ncomplete_chunks'[u] = t_ncomplete_chunks[u]
        /\ t_nverified_chunks'[u] = t_nverified_chunks[u]
    BY <1>2 DEF TypeOK
  <2>2. \A j \in Chunks(u) :
          /\ t_bitmap'[u][j] \in {"complete", "verified"}
               <=> t_bitmap[u][j] \in {"complete", "verified"}
          /\ t_bitmap'[u][j] = "verified" <=> t_bitmap[u][j] = "verified"
    BY <1>1, <1>3, ChunksType
  <2>3. CASE u \in s_networks
    BY <2>1, <2>2, <2>3, CountedSame DEF CountsInv
  <2>4. CASE u \notin s_networks
    BY <2>1, <2>4 DEF CountsInv, Unmerged
  <2> QED BY <2>3, <2>4
<1>5. Counted(t)'
  <2> DEFINE K == Reached(t, J)
  <2>1. Counted(t) /\ Chunks(t) \subseteq Bytes
    BY <1>0, ChunksType DEF CountsInv
  <2>2. Done(t)' = Done(t) \ K /\ K \in SUBSET Done(t)
    BY <1>1, <1>3, <2>1 DEF Done, Chunks
  <2>3. Veri(t)' = Veri(t)
    BY <1>1, <1>3, <2>1 DEF Veri, Chunks
  <2> HIDE DEF K
  <2>4. Cardinality(Done(t) \ K) = Cardinality(Done(t)) - Cardinality(K)
    BY <1>0, <2>2, DoneType, CardSub
  <2>5. Cardinality(K) \in Nat /\ Cardinality(Done(t)) \in Nat
    BY <1>0, <2>2, DoneType, BytesCardinality
  <2>6. t_ncomplete_chunks'[t] = t_ncomplete_chunks[t] + (0 - Cardinality(K))
    BY <1>0, <1>2 DEF TypeOK, K
  <2>7. t_nverified_chunks'[t] = t_nverified_chunks[t]
    BY <1>2
  <2> QED BY <2>1, <2>2, <2>3, <2>4, <2>5, <2>6, <2>7 DEF Counted
<1> QED BY <1>4, <1>5 DEF CountsInv

LEMMA VerifyChunkCounts ==
  ASSUME TypeOK, CountsInv, NEW t \in Frontends, NEW j \in Chunks(t), VerifyChunk(t, j)
  PROVE  CountsInv'
BY VerifyChunkCases, SetVerifiedCounts, SetMissingCounts

\* verify_all_chunks: the chunks that escalate are counted as complete, the
\* ones that were verified no longer as verified.
LEMMA VerifyAllCounts ==
  ASSUME TypeOK, CountsInv, VerifyAllChunks
  PROVE  CountsInv'
<1> DEFINE M == {x \in Bytes : s_verified_bitmap[x] = "missing"}
           V == {x \in Bytes : s_verified_bitmap[x] = "verified"}
           E == Escalated(Put(s_verified_bitmap, M \cup V, "complete"), M)
           demoted == {j \in Touched(Primary, V) : t_bitmap[Primary][j] = "verified"}
<1>1. /\ t_bitmap' = [t_bitmap EXCEPT ![Primary] = Put(@, E \cup demoted, "complete")]
      /\ t_ncomplete_chunks' = [t_ncomplete_chunks EXCEPT ![Primary] = @ + Cardinality(E)]
      /\ t_nverified_chunks' = [t_nverified_chunks EXCEPT ![Primary] = @ - Cardinality(demoted)]
      /\ s_networks' = s_networks
  BY DEF VerifyAllChunks, AddComplete
<1>2. /\ E \subseteq Chunks(Primary)
      /\ \A j \in E : t_bitmap[Primary][j] \in {"missing", "partial"}
      /\ demoted \subseteq Chunks(Primary)
      /\ \A j \in demoted : t_bitmap[Primary][j] = "verified"
  BY DEF Escalated, Touched, Chunks
<1> HIDE DEF E, demoted
<1>3. /\ Primary \in Frontends /\ Counted(Primary) /\ Chunks(Primary) \subseteq Bytes
      /\ Primary \in s_networks
  BY FrontendsAssumption, ChunksType DEF CountsInv, TypeOK
<1>4. ASSUME NEW t \in Frontends \ {Primary}
      PROVE  IF t \in s_networks THEN Counted(t)' ELSE Unmerged(t)'
  <2>1. /\ t_ncomplete_chunks'[t] = t_ncomplete_chunks[t]
        /\ t_nverified_chunks'[t] = t_nverified_chunks[t] /\ t_bitmap'[t] = t_bitmap[t]
    BY <1>1 DEF TypeOK
  <2>2. CASE t \in s_networks
    BY <2>1, <2>2, CountedSame DEF CountsInv
  <2>3. CASE t \notin s_networks
    BY <2>1, <2>3 DEF CountsInv, Unmerged
  <2> QED BY <2>2, <2>3
<1>5. Counted(Primary)'
  <2>1. \A j \in Bytes : t_bitmap'[Primary][j] =
          IF j \in E \cup demoted THEN "complete" ELSE t_bitmap[Primary][j]
    <3>1. t_bitmap'[Primary] = Put(t_bitmap[Primary], E \cup demoted, "complete")
          /\ t_bitmap[Primary] \in [Bytes -> VBState]
      BY <1>1, <1>3 DEF TypeOK
    <3> QED BY <3>1 DEF Put
  <2>2. Done(Primary)' = Done(Primary) \cup E /\ Done(Primary) \cap E = {}
    BY <1>2, <1>3, <2>1 DEF Done, Chunks
  <2>3. Veri(Primary)' = Veri(Primary) \ demoted /\ demoted \in SUBSET Veri(Primary)
    BY <1>2, <1>3, <2>1 DEF Veri, Chunks
  <2>4. Cardinality(Done(Primary) \cup E) = Cardinality(Done(Primary)) + Cardinality(E)
    BY <1>2, <1>3, <2>2, DoneType, CardAdd
  <2>5. Cardinality(Veri(Primary) \ demoted) = Cardinality(Veri(Primary)) - Cardinality(demoted)
    BY <1>3, <2>3, DoneType, CardSub
  <2>6. /\ t_ncomplete_chunks'[Primary] = t_ncomplete_chunks[Primary] + Cardinality(E)
        /\ t_nverified_chunks'[Primary] = t_nverified_chunks[Primary] - Cardinality(demoted)
    BY <1>1, <1>3 DEF TypeOK
  <2> QED BY <1>3, <2>2, <2>3, <2>4, <2>5, <2>6 DEF Counted
<1> QED BY <1>1, <1>3, <1>4, <1>5 DEF CountsInv

\* The bitmap of a frontend that is merged starts again, and its counters
\* were zero.
LEMMA MergeCounts ==
  ASSUME TypeOK, CountsInv, NEW t \in Frontends, Merge(t)
  PROVE  CountsInv'
<1>1. /\ s_networks' = s_networks \cup {t} /\ t \notin s_networks
      /\ UNCHANGED <<t_ncomplete_chunks, t_nverified_chunks>>
  BY DEF Merge, Associated
<1>2. /\ \A j \in Bytes : t_bitmap'[t][j] = "missing"
      /\ \A u \in Frontends \ {t} : t_bitmap'[u] = t_bitmap[u]
  BY MergeBitmap
<1>3. Counted(t)'
  <2>1. Done(t)' = {} /\ Veri(t)' = {}
    BY <1>2, ChunksType DEF Done, Veri, Chunks
  <2>2. t_ncomplete_chunks[t] = 0 /\ t_nverified_chunks[t] = 0
    BY <1>1 DEF CountsInv, Unmerged
  <2> QED BY <1>1, <2>1, <2>2, FS_EmptySet DEF Counted
<1>4. ASSUME NEW u \in Frontends \ {t}, u \in s_networks PROVE Counted(u)'
  BY <1>1, <1>2, <1>4, CountedSame DEF CountsInv
<1>5. ASSUME NEW u \in Frontends \ {t}, u \notin s_networks PROVE Unmerged(u)'
  BY <1>1, <1>5 DEF CountsInv, Unmerged
<1> QED BY <1>1, <1>3, <1>4, <1>5 DEF CountsInv

LEMMA RestartCounts ==
  ASSUME TypeOK, NothingSolo, NEW lost \in BOOLEAN, Restart(lost)
  PROVE  CountsInv'
<1>1. s_networks' = saved.networks /\ Primary \in saved.networks
  BY DEF Restart, TypeOK
<1>2. PICK solo \in [Frontends -> SoloChunks \cup {0}] :
        /\ t_nverified_chunks' = [t \in Frontends |->
             IF t \in saved.networks THEN Cardinality(RestVerified(t)) ELSE solo[t]]
        /\ t_ncomplete_chunks' = [t \in Frontends |->
             IF t = Primary THEN Cardinality(RestVerified(t) \cup WholeChunks(RestC))
             ELSE IF t \in saved.networks THEN Cardinality(RestVerified(t)) ELSE solo[t]]
  BY DEF Restart, RestVerified, RestV, RestC
<1>3. \A t \in Frontends : solo[t] = 0
  BY DEF NothingSolo
<1>4. /\ \A j \in Bytes : t_bitmap'[Primary][j] =
           IF j \in Held(Primary, "verified") THEN "verified"
           ELSE IF j \in WholeChunks(RestC) THEN "complete"
           ELSE IF j \in Touched(Primary, RestP) THEN "partial" ELSE "missing"
      /\ \A t \in Frontends \ {Primary} : \A j \in Bytes : t_bitmap'[t][j] =
           IF j \in RestVerified(t) THEN "verified" ELSE "missing"
  BY RestartBitmap
<1>5. ASSUME NEW t \in Frontends
      PROVE  RestVerified(t) \subseteq Chunks(t) /\ Chunks(t) \subseteq Bytes
  BY ChunksType DEF RestVerified, Held
<1>6. Counted(Primary)'
  <2>1. Primary \in Frontends /\ WholeChunks(RestC) \subseteq Chunks(Primary)
        /\ RestVerified(Primary) = Held(Primary, "verified")
    BY <1>1, FrontendsAssumption DEF WholeChunks, RestVerified
  <2>2. Done(Primary)' = RestVerified(Primary) \cup WholeChunks(RestC)
    BY <1>4, <1>5, <2>1 DEF Done, Chunks
  <2>3. Veri(Primary)' = RestVerified(Primary)
    BY <1>4, <1>5, <2>1 DEF Veri, Chunks
  <2> QED BY <1>1, <1>2, <2>1, <2>2, <2>3 DEF Counted
<1>7. ASSUME NEW t \in Frontends \ {Primary}, t \in saved.networks PROVE Counted(t)'
  <2>1. Done(t)' = RestVerified(t) /\ Veri(t)' = RestVerified(t)
    BY <1>4, <1>5 DEF Done, Veri, Chunks
  <2> QED BY <1>2, <1>7, <2>1 DEF Counted
<1>8. ASSUME NEW t \in Frontends, t \notin saved.networks PROVE Unmerged(t)'
  BY <1>1, <1>2, <1>3, <1>8 DEF Unmerged
<1> QED BY <1>1, <1>6, <1>7, <1>8 DEF CountsInv

LEMMA OtherCounts ==
  ASSUME CountsInv, UNCHANGED <<s_networks, t_bitmap, t_ncomplete_chunks, t_nverified_chunks>>
  PROVE  CountsInv'
BY DEF CountsInv, Counted, Unmerged, Done, Veri

LEMMA CountsInit ==
  ASSUME NothingSolo, Init
  PROVE  CountsInv
<1>1. \A t \in Frontends : t_ncomplete_chunks[t] = 0 /\ t_nverified_chunks[t] = 0
  BY DEF Init, NothingSolo
<1>2. \A t \in Frontends : Done(t) = {} /\ Veri(t) = {}
  BY ChunksType DEF Done, Veri, Init
<1> QED BY <1>1, <1>2, FS_EmptySet DEF CountsInv, Counted, Unmerged

LEMMA CountsNext ==
  ASSUME NothingSolo, TypeOK, CountsInv, [Next]_vars
  PROVE  CountsInv'
<1>1. ASSUME NEW x \in Bytes, NewBlock(x) PROVE CountsInv'
  BY <1>1, NewBlockCounts
<1>2. ASSUME NEW u \in Frontends, NEW a \in Bytes, NEW b \in Bytes, NEW ok \in BOOLEAN,
             Received(u, a, b, ok)
      PROVE  CountsInv'
  <2> DEFINE D == Filled((a .. b) \cap ranges)
             block == IF t_verifier[Primary] = "None" THEN "Verified" ELSE "Complete"
  <2>1. SetCompleted(D, block) /\ s_networks' = s_networks
    BY <1>2 DEF Received, Filled
  <2>2. D \subseteq Bytes
    BY DEF Filled
  <2> HIDE DEF D, block
  <2> QED BY <2>1, <2>2, SetCompletedCounts
<1>3. ASSUME NEW t \in Frontends, NEW j \in Chunks(t), VerifyChunk(t, j) PROVE CountsInv'
  BY <1>3, VerifyChunkCounts
<1>4. ASSUME NEW t \in Frontends, NEW j \in Chunks(t), PropagateChunk(t, j) PROVE CountsInv'
  <2> DEFINE D == {x \in BytesOf(t, j) : s_blocks[x] \in {"Empty", "Partial"}}
  <2>1. SetCompleted(D, "Complete") /\ s_networks' = s_networks
    BY <1>4 DEF PropagateChunk
  <2>2. D \subseteq Bytes
    BY DEF BytesOf
  <2> HIDE DEF D
  <2> QED BY <2>1, <2>2, SetCompletedCounts
<1>5. ASSUME NEW t \in Frontends, Merge(t) PROVE CountsInv'
  BY <1>5, MergeCounts
<1>6. CASE VerifySomeChunks
  BY <1>3, <1>6 DEF VerifySomeChunks
<1>7. CASE VerifyAllChunks
  BY <1>7, VerifyAllCounts
<1>8. ASSUME NEW b \in BOOLEAN, Restart(b) PROVE CountsInv'
  BY <1>8, RestartCounts
<1>9. CASE \/ Flush \/ (\E x \in Bytes : Rot(x)) \/ (\E b \in BOOLEAN : Save(b))
           \/ (\E t \in Frontends : SetVerifier(t) \/ Finish(t)) \/ UNCHANGED vars
  BY <1>9, OtherCounts DEF Flush, Rot, Save, SetVerifier, Finish, bitmaps, vars
<1> QED BY <1>1, <1>2, <1>3, <1>4, <1>5, <1>6, <1>7, <1>8, <1>9 DEF Next

\* If nothing is counted before a merge, t_ncomplete_chunks and
\* t_nverified_chunks count the bitmap of every merged frontend, rechecks,
\* failed verifications, merges and restarts included.
THEOREM CountersCount == Spec => [](NothingSolo => FrontendInvariant)
<1> DEFINE I == TypeOK /\ (NothingSolo => CountsInv)
<1>1. Init => I
  BY InitType, CountsInit
<1>2. I /\ [Next]_vars => I'
  <2> SUFFICES ASSUME I, [Next]_vars PROVE TypeOK' /\ (NothingSolo => CountsInv')
    BY DEF NothingSolo
  <2> QED BY NextType, CountsNext
<1>3. I => (NothingSolo => FrontendInvariant)
  BY DEF CountsInv, Counted, Done, Veri, FrontendInvariant, TypeOK
<1> QED BY <1>1, <1>2, <1>3, PTL DEF Spec

=============================================================================
