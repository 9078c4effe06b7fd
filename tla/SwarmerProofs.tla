--------------------------- MODULE SwarmerProofs ---------------------------
(***************************************************************************)
(* Proofs about Swarmer, for every size, set of frontends, chunk sizes,    *)
(* verifiers and bound on the outside events.                              *)
(***************************************************************************)
EXTENDS Swarmer, FiniteSetTheorems, TLAPS

-----------------------------------------------------------------------------
(* The operators the model is built from *)

\* Chunk numbers stay below Size.
LEMMA ChunkInRange ==
  ASSUME NEW t \in Frontends, NEW x \in Bytes
  PROVE  ChunkOf(t, x) \in Bytes
BY SizeAssumption, ChunkSizeAssumption DEF ChunkOf, Bytes

\* Sets of bytes can be counted.
LEMMA BytesCardinality ==
  ASSUME NEW S, S \subseteq Bytes
  PROVE  IsFiniteSet(S) /\ Cardinality(S) \in Nat
<1>1. IsFiniteSet(Bytes)
  BY SizeAssumption, FS_Interval DEF Bytes
<1> QED
  BY <1>1, FS_Subset, FS_CardinalityType

\* Put keeps the type of the function it updates.
LEMMA PutType ==
  ASSUME NEW A, NEW B, NEW f \in [A -> B], NEW S, NEW v \in B
  PROVE  Put(f, S, v) \in [A -> B]
BY DEF Put

LEMMA TouchedType ==
  ASSUME NEW t \in Frontends, NEW D, D \subseteq Bytes
  PROVE  Touched(t, D) \subseteq Bytes
BY ChunkInRange DEF Touched

LEMMA ChunksType ==
  ASSUME NEW t \in Frontends
  PROVE  Chunks(t) \subseteq Bytes
BY ChunkInRange DEF Chunks

\* The downloaded sizes stay integers, whatever is added.
LEMMA CreditType ==
  ASSUME file_downloaded \in [Frontends -> Int], NEW t, NEW n \in Int
  PROVE  Credit(t, n) \in [Frontends -> Int]
BY DEF Credit

LEMMA SpendType ==
  ASSUME env \in [EnvKinds -> Nat], NEW k \in EnvKinds, Spend(k)
  PROVE  env' \in [EnvKinds -> Nat]
BY DEF Spend

-----------------------------------------------------------------------------
(* Type correctness *)

\* The part of TypeOK that blocks, bitmaps and counters make up.
BitmapsOK ==
  /\ s_blocks \in [Bytes -> BlockState]
  /\ ranges \subseteq Bytes
  /\ s_verified_bitmap \in [Bytes -> VBState]
  /\ t_bitmap \in [Frontends -> [Bytes -> VBState]]
  /\ t_ncomplete_chunks \in [Frontends -> Int]
  /\ t_nverified_chunks \in [Frontends -> Int]

\* A saved state is a record of the right type.
LEMMA SnapshotType ==
  ASSUME TypeOK
  PROVE  Snapshot \in [networks : SUBSET Frontends,
                       bitmap : [Frontends -> [Bytes -> VBState]],
                       present : SUBSET Bytes, verifier : [Frontends -> Verifiers]]
BY DEF TypeOK, Snapshot, Present

\* Initial states have the right types.
LEMMA InitType == Init => TypeOK
<1> SUFFICES ASSUME Init PROVE TypeOK
  OBVIOUS
<1>1. t_verifier \in [Frontends -> Verifiers]
  BY VerifierAssumption DEF Init
<1>2. BitmapsOK
  <2>1. SoloChunks \cup {0} \subseteq Int
    BY EnvAssumption
  <2>2. t_ncomplete_chunks \in [Frontends -> Int] /\ t_nverified_chunks \in [Frontends -> Int]
    BY <2>1 DEF Init
  <2> QED
    BY <2>2 DEF Init, BitmapsOK, BlockState, VBState
<1>3. Present = {}
  BY DEF Init, Present
<1>4. saved \in [networks : SUBSET Frontends, bitmap : [Frontends -> [Bytes -> VBState]],
                 present : SUBSET Bytes, verifier : [Frontends -> Verifiers]]
      /\ Primary \in saved.networks
  BY <1>1, <1>2, <1>3, FrontendsAssumption DEF Init, Snapshot, BitmapsOK
<1> QED
  BY <1>1, <1>2, <1>4, FrontendsAssumption
  DEF Init, TypeOK, BitmapsOK, FileState, EnvKinds

\* new_block
LEMMA NewBlockType ==
  ASSUME TypeOK, NEW x \in Bytes, NewBlock(x)
  PROVE  TypeOK'
<1>1. /\ s_blocks \in [Bytes -> BlockState] /\ "Partial" \in BlockState
      /\ s_verified_bitmap \in [Bytes -> VBState] /\ "partial" \in VBState
  BY DEF TypeOK, BlockState, VBState
<1>2. s_blocks' \in [Bytes -> BlockState]
  BY <1>1, PutType DEF NewBlock
<1>3. s_verified_bitmap' \in [Bytes -> VBState]
  <2>1. Put(s_verified_bitmap, Block(x), "partial") \in [Bytes -> VBState]
    BY <1>1, PutType
  <2> QED BY <2>1, <1>1 DEF NewBlock
<1>4. ASSUME NEW t \in Frontends, NEW S
      PROVE  /\ t_bitmap[t] \in [Bytes -> VBState]
             /\ Put(t_bitmap[t], S, "partial") \in [Bytes -> VBState]
  BY <1>1, PutType DEF TypeOK
<1>5. t_bitmap' \in [Frontends -> [Bytes -> VBState]]
  <2>1. CASE s_verified_bitmap[x] = "missing"
    BY <2>1, <1>4 DEF NewBlock
  <2>2. CASE s_verified_bitmap[x] # "missing"
    BY <2>2 DEF NewBlock, TypeOK
  <2> QED BY <2>1, <2>2
<1>6. ranges' \subseteq Bytes
  BY DEF NewBlock, TypeOK, Block, BlockIn
<1> QED
  BY <1>2, <1>3, <1>5, <1>6 DEF NewBlock, TypeOK, disk

\* set_completed_block
LEMMA SetCompletedType ==
  ASSUME TypeOK, NEW D, D \subseteq Bytes, NEW block \in BlockState, SetCompleted(D, block)
  PROVE  /\ s_blocks' \in [Bytes -> BlockState]
         /\ s_verified_bitmap' \in [Bytes -> VBState]
         /\ t_bitmap' \in [Frontends -> [Bytes -> VBState]]
         /\ t_ncomplete_chunks' \in [Frontends -> Int]
         /\ t_nverified_chunks' \in [Frontends -> Int]
<1> DEFINE N == {y \in D : s_verified_bitmap[y] # "complete"}
           sb == Put(s_verified_bitmap, D, "complete")
           E == Escalated(sb, N)
<1>1. /\ "complete" \in VBState /\ "verified" \in VBState
      /\ s_blocks \in [Bytes -> BlockState]
      /\ s_verified_bitmap \in [Bytes -> VBState]
      /\ t_bitmap[Primary] \in [Bytes -> VBState]
  BY FrontendsAssumption DEF TypeOK, VBState
<1>2. sb \in [Bytes -> VBState] /\ Put(sb, D, "verified") \in [Bytes -> VBState]
  BY <1>1, PutType
<1>3. Put(t_bitmap[Primary], E, "complete") \in [Bytes -> VBState]
  BY <1>1, PutType
<1>4. E \subseteq Bytes
  BY TouchedType, FrontendsAssumption DEF Escalated
<1>5. Cardinality(E) \in Nat
  BY <1>4, BytesCardinality
<1>6. s_blocks' \in [Bytes -> BlockState]
  BY <1>1, PutType DEF SetCompleted
<1>7. s_verified_bitmap' \in [Bytes -> VBState]
  BY <1>2 DEF SetCompleted
<1>8. t_bitmap' \in [Frontends -> [Bytes -> VBState]]
  BY <1>3 DEF SetCompleted, TypeOK
<1>9. t_ncomplete_chunks' \in [Frontends -> Int]
  BY <1>5 DEF SetCompleted, AddComplete, TypeOK
<1> QED
  BY <1>6, <1>7, <1>8, <1>9 DEF SetCompleted, TypeOK

\* received
LEMMA ReceivedType ==
  ASSUME TypeOK, NEW u \in Frontends, NEW a \in Bytes, NEW b \in Bytes, NEW ok \in BOOLEAN,
         Received(u, a, b, ok)
  PROVE  TypeOK'
<1> DEFINE D == (a .. b) \cap ranges
           full == {y \in Bytes : /\ s_blocks[y] = "Partial"
                                  /\ Block(y) \cap D # {}
                                  /\ Block(y) \cap ranges \subseteq D}
           done == IF t_verifier[Primary] = "None" THEN "Verified" ELSE "Complete"
<1>1. D \subseteq Bytes /\ full \subseteq Bytes /\ done \in BlockState
  BY DEF TypeOK, BlockState
<1>2. SetCompleted(full, done)
  BY DEF Received
<1>3. /\ s_blocks' \in [Bytes -> BlockState]
      /\ s_verified_bitmap' \in [Bytes -> VBState]
      /\ t_bitmap' \in [Frontends -> [Bytes -> VBState]]
      /\ t_ncomplete_chunks' \in [Frontends -> Int]
      /\ t_nverified_chunks' \in [Frontends -> Int]
  BY <1>1, <1>2, SetCompletedType
<1>4. file_downloaded' \in [Frontends -> Int]
  <2>1. Cardinality(D) \in Int
    BY <1>1, BytesCardinality
  <2> QED BY <2>1, CreditType DEF Received, TypeOK
<1>5. /\ good' \subseteq Bytes /\ buffered' \subseteq Bytes /\ stored' \subseteq Bytes
      /\ ranges' \subseteq Bytes
  BY <1>1 DEF Received, TypeOK, CloseRanges
<1>6. env' \in [EnvKinds -> Nat]
  BY SpendType DEF Received, TypeOK, EnvKinds
<1> QED
  BY <1>3, <1>4, <1>5, <1>6 DEF Received, TypeOK

\* set_frontend_state_verified
LEMMA SetVerifiedType ==
  ASSUME TypeOK, NEW t \in Frontends, NEW J, J \subseteq Bytes, SetVerified(t, J)
  PROVE  BitmapsOK' /\ file_downloaded' \in [Frontends -> Int]
<1> DEFINE V == VerifiedBlocks(t, J)
           sb == Put(s_verified_bitmap, V, "verified")
           below == {"missing", "partial", "complete"}
           trusts(u) == t_verifier[u] \in {"None", "NotAvailable"}
           passed(u) == {k \in Touched(u, V) :
                      /\ u \in s_networks \ {Primary}
                      /\ t_verifier[Primary] \notin {"None", "NotAvailable"}
                      /\ AllBlocksAre(sb, u, k, "verified")
                      /\ t_bitmap[u][k] \in IF trusts(u) THEN below
                                            ELSE {"missing", "partial"}}
           started(u) == {k \in passed(u) \cup (IF u = t THEN J ELSE {}) :
                       t_bitmap[u][k] \in {"missing", "partial"}}
           counted == {x \in V : s_blocks[x] = "Empty"} \cup (ranges \cap V)
<1>1. /\ "complete" \in VBState /\ "verified" \in VBState /\ "Verified" \in BlockState
      /\ s_blocks \in [Bytes -> BlockState]
      /\ s_verified_bitmap \in [Bytes -> VBState]
      /\ \A u \in Frontends : t_bitmap[u] \in [Bytes -> VBState]
  BY DEF TypeOK, VBState, BlockState
<1>2. V \subseteq Bytes
  BY DEF VerifiedBlocks
<1>3. ASSUME NEW u \in Frontends
      PROVE  passed(u) \subseteq Bytes /\ started(u) \subseteq Bytes
  BY <1>2, TouchedType
<1>4. ASSUME NEW u \in Frontends
      PROVE  /\ Cardinality(passed(u)) \in Nat /\ Cardinality(started(u)) \in Nat
             /\ Cardinality(J) \in Nat
  BY <1>3, BytesCardinality
<1> HIDE DEF passed, started, V
<1>5. s_blocks' \in [Bytes -> BlockState]
  BY <1>1, PutType DEF SetVerified, V
<1>6. s_verified_bitmap' \in [Bytes -> VBState]
  BY <1>1, PutType DEF SetVerified, V
<1>7. ASSUME NEW u \in Frontends, NEW S, NEW v \in VBState
      PROVE  Put(t_bitmap[u], S, v) \in [Bytes -> VBState]
  BY <1>1, PutType
<1>8. t_bitmap' \in [Frontends -> [Bytes -> VBState]]
  <2>1. t_bitmap' = [u \in Frontends |->
          IF u = t THEN Put(t_bitmap[u], J, "verified")
          ELSE Put(t_bitmap[u], passed(u), IF trusts(u) THEN "verified" ELSE "complete")]
    BY DEF SetVerified, passed, V
  <2> QED BY <2>1, <1>7, <1>1
<1>9. t_ncomplete_chunks' \in [Frontends -> Int]
  <2>1. t_ncomplete_chunks' = [u \in Frontends |->
          t_ncomplete_chunks[u] + Cardinality(started(u))]
    BY DEF SetVerified, started, passed, V
  <2> QED BY <2>1, <1>4 DEF TypeOK
<1>10. t_nverified_chunks' \in [Frontends -> Int]
  <2>1. t_nverified_chunks' = [u \in Frontends |->
          t_nverified_chunks[u] + (IF u = t THEN Cardinality(J)
                                   ELSE IF trusts(u) THEN Cardinality(passed(u)) ELSE 0)]
    BY DEF SetVerified, passed, V
  <2> QED BY <2>1, <1>4 DEF TypeOK
<1>11. file_downloaded' \in [Frontends -> Int]
  <2>1. Cardinality(counted) \in Int
    BY <1>2, BytesCardinality
  <2>2. file_downloaded' = Credit(Primary, Cardinality(counted))
    BY DEF SetVerified, V
  <2> QED BY <2>1, <2>2, CreditType DEF TypeOK
<1>12. ranges' \subseteq Bytes
  BY DEF SetVerified, TypeOK, CloseRanges
<1> QED
  BY <1>5, <1>6, <1>8, <1>9, <1>10, <1>11, <1>12 DEF BitmapsOK

\* set_frontend_state_missing
LEMMA SetMissingType ==
  ASSUME TypeOK, NEW t \in Frontends, NEW J, J \subseteq Bytes, SetMissing(t, J)
  PROVE  /\ BitmapsOK' /\ file_downloaded' \in [Frontends -> Int]
         /\ raised' \subseteq Frontends \X {"State_verified", "VerifiedBlock"}
<1> DEFINE bad == Refused(t, J) \cup Halting(t, J)
           K == {j \in J \ Refused(t, J) : \A i \in bad : j <= i}
           full == {j \in K : AllBlocksAre(s_verified_bitmap, t, j, "complete")}
           R == {x \in Bytes :
              /\ ChunkOf(t, x) \in full
              /\ \A y \in BytesOf(t, ChunkOf(t, x)) : s_blocks[y] = "Verified" => y < x}
           dropped == {x \in R : s_blocks[x] = "Complete"}
           M == dropped \cup {x \in R : s_blocks[x] = "Empty"}
           sb == Put(s_verified_bitmap, M, "missing")
           own == [j \in Bytes |-> IF j \in full THEN "missing"
                              ELSE IF j \in K THEN "partial" ELSE t_bitmap[t][j]]
           emptied(u) == {k \in Touched(u, M) : /\ u \in s_networks
                                           /\ t_bitmap[u][k] = "partial"
                                           /\ AllBlocksAre(sb, u, k, "missing")}
<1>1. /\ "missing" \in VBState /\ "partial" \in VBState /\ "Empty" \in BlockState
      /\ s_blocks \in [Bytes -> BlockState]
      /\ s_verified_bitmap \in [Bytes -> VBState]
      /\ \A u \in Frontends : t_bitmap[u] \in [Bytes -> VBState]
  BY DEF TypeOK, VBState, BlockState
<1>2. K \subseteq Bytes /\ dropped \subseteq Bytes
  OBVIOUS
<1>3. Cardinality(K) \in Nat /\ Cardinality(dropped) \in Nat
  BY <1>2, BytesCardinality
<1>4. own \in [Bytes -> VBState]
  BY <1>1
<1> HIDE DEF K, full, dropped, M, emptied, own, bad
<1>5. s_blocks' \in [Bytes -> BlockState]
  <2>1. s_blocks' = Put(s_blocks, dropped, "Empty")
    BY DEF SetMissing, dropped, full, K, bad
  <2> QED BY <2>1, <1>1, PutType
<1>6. s_verified_bitmap' \in [Bytes -> VBState]
  <2>1. s_verified_bitmap' = Put(s_verified_bitmap, M, "missing")
    BY DEF SetMissing, M, dropped, full, K, bad
  <2> QED BY <2>1, <1>1, PutType
<1>7. ASSUME NEW u \in Frontends, NEW S
      PROVE  Put(t_bitmap[u], S, "missing") \in [Bytes -> VBState]
  BY <1>1, PutType
<1>8. t_bitmap' \in [Frontends -> [Bytes -> VBState]]
  <2>1. t_bitmap' = [u \in Frontends |->
          IF u = t THEN own ELSE Put(t_bitmap[u], emptied(u), "missing")]
    BY DEF SetMissing, own, emptied, M, dropped, full, K, bad
  <2> QED BY <2>1, <1>4, <1>7
<1>9. t_ncomplete_chunks' \in [Frontends -> Int]
  <2>1. t_ncomplete_chunks' = [t_ncomplete_chunks EXCEPT ![t] = @ + (0 - Cardinality(K))]
    BY DEF SetMissing, AddComplete, K, bad
  <2> QED BY <2>1, <1>3 DEF TypeOK
<1>10. file_downloaded' \in [Frontends -> Int]
  <2>1. file_downloaded' = Credit(Primary, 0 - Cardinality(dropped))
    BY DEF SetMissing, dropped, full, K, bad
  <2>2. 0 - Cardinality(dropped) \in Int
    BY <1>3
  <2> QED BY <2>1, <2>2, CreditType DEF TypeOK
<1>11. raised' \subseteq Frontends \X {"State_verified", "VerifiedBlock"}
  BY DEF SetMissing, TypeOK
<1> QED
  BY <1>5, <1>6, <1>8, <1>9, <1>10, <1>11 DEF BitmapsOK, SetMissing, TypeOK

\* verify_chunk
LEMMA VerifyChunkType ==
  ASSUME TypeOK, NEW t \in Frontends, NEW j \in Chunks(t), VerifyChunk(t, j)
  PROVE  TypeOK'
<1>1. {j} \subseteq Bytes /\ CompleteChunks(t) \subseteq Bytes
  BY ChunksType DEF CompleteChunks
<1>2. PICK J \in {{j}, CompleteChunks(t)} : SetVerified(t, J) \/ SetMissing(t, J)
  BY DEF VerifyChunk
<1>3. /\ BitmapsOK' /\ file_downloaded' \in [Frontends -> Int]
      /\ raised' \subseteq Frontends \X {"State_verified", "VerifiedBlock"}
  <2>1. CASE SetVerified(t, J)
    <3>1. raised' = raised
      BY <2>1 DEF SetVerified
    <3> QED BY <1>1, <2>1, <3>1, SetVerifiedType DEF TypeOK
  <2>2. CASE SetMissing(t, J)
    BY <1>1, <2>2, SetMissingType
  <2> QED BY <1>2, <2>1, <2>2
<1>4. buffered' \subseteq Bytes /\ stored' \subseteq Bytes
  BY DEF VerifyChunk, FlushFd, TypeOK
<1>5. env' \in [EnvKinds -> Nat]
  <2>1. env' = env \/ Spend("fail")
    BY DEF VerifyChunk, FileVerify
  <2> QED BY <2>1, SpendType DEF TypeOK, EnvKinds
<1> QED
  BY <1>3, <1>4, <1>5 DEF VerifyChunk, TypeOK, BitmapsOK

\* verify_all_chunks
LEMMA VerifyAllChunksType ==
  ASSUME TypeOK, VerifyAllChunks
  PROVE  TypeOK'
<1> DEFINE M == {x \in Bytes : s_verified_bitmap[x] = "missing"}
           V == {x \in Bytes : s_verified_bitmap[x] = "verified"}
           sb == Put(s_verified_bitmap, M \cup V, "complete")
           E == Escalated(sb, M)
           demoted == {j \in Touched(Primary, V) : t_bitmap[Primary][j] = "verified"}
<1>1. /\ "complete" \in VBState
      /\ s_verified_bitmap \in [Bytes -> VBState]
      /\ t_bitmap[Primary] \in [Bytes -> VBState]
  BY FrontendsAssumption DEF TypeOK, VBState
<1>2. E \subseteq Bytes /\ demoted \subseteq Bytes /\ M \subseteq Bytes
  BY TouchedType, FrontendsAssumption DEF Escalated
<1>3. Cardinality(E) \in Nat /\ Cardinality(demoted) \in Nat /\ Cardinality(M) \in Nat
  BY <1>2, BytesCardinality
<1>4. sb \in [Bytes -> VBState]
      /\ Put(t_bitmap[Primary], E \cup demoted, "complete") \in [Bytes -> VBState]
  <2>1. ASSUME NEW S
        PROVE  /\ Put(s_verified_bitmap, S, "complete") \in [Bytes -> VBState]
               /\ Put(t_bitmap[Primary], S, "complete") \in [Bytes -> VBState]
    BY <1>1, PutType
  <2> QED BY <2>1
<1>5. s_verified_bitmap' \in [Bytes -> VBState]
  BY <1>4 DEF VerifyAllChunks
<1>6. t_bitmap' \in [Frontends -> [Bytes -> VBState]]
  BY <1>4 DEF VerifyAllChunks, TypeOK
<1>7. /\ t_ncomplete_chunks' \in [Frontends -> Int]
      /\ t_nverified_chunks' \in [Frontends -> Int]
  BY <1>3 DEF VerifyAllChunks, AddComplete, TypeOK
<1>8. file_downloaded' \in [Frontends -> Int]
  <2>1. file_downloaded' = Credit(Primary, Cardinality(M))
    BY DEF VerifyAllChunks
  <2>2. Cardinality(M) \in Int
    BY <1>3
  <2> HIDE DEF M
  <2> QED BY <2>1, <2>2, CreditType DEF TypeOK
<1>9. env' \in [EnvKinds -> Nat]
  BY SpendType DEF VerifyAllChunks, TypeOK, EnvKinds
<1> QED
  BY <1>5, <1>6, <1>7, <1>8, <1>9 DEF VerifyAllChunks, TypeOK, disk

\* set_verifier
LEMMA SetVerifierType ==
  ASSUME TypeOK, NEW t \in Frontends, SetVerifier(t)
  PROVE  TypeOK'
<1>1. t_verifier' \in [Frontends -> Verifiers]
  BY DEF SetVerifier, TypeOK, Verifiers
<1>2. env' \in [EnvKinds -> Nat]
  BY SpendType DEF SetVerifier, TypeOK, EnvKinds
<1> QED
  BY <1>1, <1>2 DEF SetVerifier, TypeOK, bitmaps, disk

\* propagate_chunk
LEMMA PropagateChunkType ==
  ASSUME TypeOK, NEW t \in Frontends, NEW j \in Chunks(t), PropagateChunk(t, j)
  PROVE  TypeOK'
<1> DEFINE D == {x \in BytesOf(t, j) : s_blocks[x] \in {"Empty", "Partial"}}
<1>1. D \subseteq Bytes /\ BytesOf(t, j) \subseteq Bytes /\ "Complete" \in BlockState
  BY DEF BytesOf, BlockState
<1>2. SetCompleted(D, "Complete")
  BY DEF PropagateChunk
<1>3. /\ s_blocks' \in [Bytes -> BlockState]
      /\ s_verified_bitmap' \in [Bytes -> VBState]
      /\ t_bitmap' \in [Frontends -> [Bytes -> VBState]]
      /\ t_ncomplete_chunks' \in [Frontends -> Int]
      /\ t_nverified_chunks' \in [Frontends -> Int]
  BY <1>1, <1>2, SetCompletedType
<1>4. file_downloaded' \in [Frontends -> Int]
  <2>1. Cardinality(D \ Present) \in Int
    BY <1>1, BytesCardinality
  <2> QED BY <2>1, CreditType DEF PropagateChunk, TypeOK
<1>5. /\ good' \subseteq Bytes /\ buffered' \subseteq Bytes /\ stored' \subseteq Bytes
      /\ ranges' \subseteq Bytes
  BY <1>1 DEF PropagateChunk, TypeOK, CloseRanges
<1>6. env' \in [EnvKinds -> Nat]
  BY SpendType DEF PropagateChunk, TypeOK, EnvKinds
<1> QED
  BY <1>3, <1>4, <1>5, <1>6 DEF PropagateChunk, TypeOK

\* merge
LEMMA MergeType ==
  ASSUME TypeOK, NEW t \in Frontends, Merge(t)
  PROVE  TypeOK'
<1> DEFINE full == FullPieces(Associated(t))
           void == VoidPieces(Associated(t))
<1>1. /\ {"complete", "missing"} \subseteq VBState
      /\ {"Complete", "Empty"} \subseteq BlockState
      /\ s_blocks \in [Bytes -> BlockState]
      /\ s_verified_bitmap \in [Bytes -> VBState]
  BY DEF TypeOK, VBState, BlockState
<1>2. s_blocks' \in [Bytes -> BlockState]
  <2>1. Put(s_blocks, full, "Complete") \in [Bytes -> BlockState]
    BY <1>1, PutType
  <2>2. Put(Put(s_blocks, full, "Complete"), void, "Empty") \in [Bytes -> BlockState]
    BY <2>1, <1>1, PutType
  <2> QED BY <2>2 DEF Merge
<1>3. s_verified_bitmap' \in [Bytes -> VBState]
  <2>1. Put(s_verified_bitmap, full, "complete") \in [Bytes -> VBState]
    BY <1>1, PutType
  <2>2. Put(Put(s_verified_bitmap, full, "complete"), void, "missing") \in [Bytes -> VBState]
    BY <2>1, <1>1, PutType
  <2> QED BY <2>2 DEF Merge, SplitBitmap
<1>4. t_bitmap' \in [Frontends -> [Bytes -> VBState]]
  BY <1>1 DEF Merge, TypeOK
<1>5. file_downloaded' \in [Frontends -> Int]
  BY DEF Merge, TypeOK
<1>6. s_networks' \subseteq Frontends /\ Primary \in s_networks' /\ ranges' \subseteq Bytes
  BY DEF Merge, TypeOK, Associated, CloseRanges
<1> QED
  BY <1>2, <1>3, <1>4, <1>5, <1>6 DEF Merge, TypeOK, disk

\* save_config
LEMMA SaveType ==
  ASSUME TypeOK, NEW flushed \in BOOLEAN, Save(flushed)
  PROVE  TypeOK'
<1>1. saved' \in [networks : SUBSET Frontends, bitmap : [Frontends -> [Bytes -> VBState]],
                  present : SUBSET Bytes, verifier : [Frontends -> Verifiers]]
  BY SnapshotType DEF Save
<1>2. Primary \in saved'.networks
  BY DEF Save, Snapshot, TypeOK
<1>3. env' \in [EnvKinds -> Nat]
  BY SpendType DEF Save, TypeOK, EnvKinds
<1>4. buffered' \subseteq Bytes /\ stored' \subseteq Bytes
  BY DEF Save, TypeOK, FlushFd
<1> QED
  BY <1>1, <1>2, <1>3, <1>4 DEF Save, TypeOK, bitmaps

\* value_to_swarmer and value_to_frontend
LEMMA RestartType ==
  ASSUME TypeOK, NEW lost \in BOOLEAN, Restart(lost)
  PROVE  TypeOK'
<1> DEFINE nets == saved.networks
           V == {x \in Bytes : ChunkOf(Primary, x) \in Held(Primary, "verified")}
           C == {x \in Bytes \ V :
              \/ \E t \in nets : ChunkOf(t, x) \in Held(t, "complete")
              \/ WithinPresent(nets, x)}
           P == {x \in Bytes \ (V \cup C) : BlockIn(nets, x) \cap saved.present # {}}
           whole == WholeChunks(C)
           verified(t) == IF t \in nets THEN Held(t, "verified") ELSE {}
<1>1. s_networks' \subseteq Frontends /\ Primary \in s_networks'
  BY DEF Restart, TypeOK
<1>2. s_blocks' \in [Bytes -> BlockState]
  BY DEF Restart, BlockState
<1>3. s_verified_bitmap' \in [Bytes -> VBState]
  BY DEF Restart, VBState
<1>4. t_bitmap' \in [Frontends -> [Bytes -> VBState]]
  BY DEF Restart, VBState
<1>5. ranges' \subseteq Bytes
  BY DEF Restart
<1>6. ASSUME NEW t \in Frontends
      PROVE  verified(t) \subseteq Bytes /\ whole \subseteq Bytes
  BY ChunksType, FrontendsAssumption DEF Held, WholeChunks
<1>7. ASSUME NEW t \in Frontends
      PROVE  Cardinality(verified(t)) \in Int /\ Cardinality(verified(t) \cup whole) \in Int
  <2>1. verified(t) \subseteq Bytes /\ verified(t) \cup whole \subseteq Bytes
    BY <1>6
  <2> HIDE DEF verified, whole
  <2> QED BY <2>1, BytesCardinality
<1>8. Cardinality(V \cup C \cup (P \cap saved.present)) \in Int
  BY BytesCardinality
<1>9. file_downloaded' \in [Frontends -> Int]
  BY <1>8 DEF Restart
<1> HIDE DEF verified, whole
<1>10. /\ t_ncomplete_chunks' \in [Frontends -> Int]
       /\ t_nverified_chunks' \in [Frontends -> Int]
  <2>1. PICK solo \in [Frontends -> SoloChunks \cup {0}] :
          /\ t_nverified_chunks' = [t \in Frontends |->
               IF t \in nets THEN Cardinality(verified(t)) ELSE solo[t]]
          /\ t_ncomplete_chunks' = [t \in Frontends |->
               IF t = Primary THEN Cardinality(verified(t) \cup whole)
               ELSE IF t \in nets THEN Cardinality(verified(t)) ELSE solo[t]]
    BY DEF Restart, verified, whole
  <2>2. \A t \in Frontends : solo[t] \in Int
    <3>1. SoloChunks \cup {0} \subseteq Int
      BY EnvAssumption
    <3> QED BY <3>1
  <2> QED BY <2>1, <2>2, <1>7
<1>11. env' \in [EnvKinds -> Nat]
  BY SpendType DEF Restart, TypeOK, EnvKinds
<1>12. t_verifier' \in [Frontends -> Verifiers] /\ file_state' \in [Frontends -> FileState]
       /\ registered' \in BOOLEAN
  BY DEF Restart, TypeOK, FileState
<1>13. good' \subseteq Bytes /\ buffered' \subseteq Bytes /\ stored' \subseteq Bytes
  BY DEF Restart, TypeOK
<1> QED
  BY <1>1, <1>2, <1>3, <1>4, <1>5, <1>9, <1>10, <1>11, <1>12, <1>13 DEF Restart, TypeOK

\* Flushes, bit rot and finished files.
LEMMA OtherType ==
  ASSUME TypeOK, Flush \/ (\E x \in Bytes : Rot(x)) \/ (\E t \in Frontends : Finish(t))
  PROVE  TypeOK'
<1>1. CASE Flush
  BY <1>1 DEF Flush, FlushFd, TypeOK, bitmaps
<1>2. ASSUME NEW x \in Bytes, Rot(x) PROVE TypeOK'
  <2>1. env' \in [EnvKinds -> Nat]
    BY <1>2, SpendType DEF Rot, TypeOK, EnvKinds
  <2> QED BY <1>2, <2>1 DEF Rot, TypeOK, bitmaps
<1>3. ASSUME NEW t \in Frontends, Finish(t) PROVE TypeOK'
  <2>1. file_state' \in [Frontends -> FileState] /\ registered' \in BOOLEAN
    BY <1>3 DEF Finish, TypeOK, FileState
  <2> QED BY <1>3, <2>1 DEF Finish, TypeOK, bitmaps, disk
<1> QED BY <1>1, <1>2, <1>3

\* Every step keeps the types.
LEMMA NextType == TypeOK /\ [Next]_vars => TypeOK'
<1> SUFFICES ASSUME TypeOK, [Next]_vars PROVE TypeOK'
  OBVIOUS
<1>1. ASSUME NEW x \in Bytes, NewBlock(x) PROVE TypeOK'
  BY <1>1, NewBlockType
<1>2. ASSUME NEW u \in Frontends, NEW a \in Bytes, NEW b \in Bytes, NEW ok \in BOOLEAN,
             Received(u, a, b, ok)
      PROVE  TypeOK'
  BY <1>2, ReceivedType
<1>3. ASSUME NEW t \in Frontends, NEW j \in Chunks(t), VerifyChunk(t, j) PROVE TypeOK'
  BY <1>3, VerifyChunkType
<1>4. ASSUME NEW t \in Frontends, NEW j \in Chunks(t), PropagateChunk(t, j) PROVE TypeOK'
  BY <1>4, PropagateChunkType
<1>5. ASSUME NEW t \in Frontends, SetVerifier(t) \/ Merge(t) \/ Finish(t) PROVE TypeOK'
  BY <1>5, SetVerifierType, MergeType, OtherType
<1>6. CASE VerifySomeChunks
  BY <1>6, <1>3 DEF VerifySomeChunks
<1>7. CASE VerifyAllChunks
  BY <1>7, VerifyAllChunksType
<1>8. ASSUME NEW b \in BOOLEAN, Save(b) \/ Restart(b) PROVE TypeOK'
  BY <1>8, SaveType, RestartType
<1>9. CASE Flush \/ \E x \in Bytes : Rot(x)
  BY <1>9, OtherType
<1>10. CASE UNCHANGED vars
  BY <1>10 DEF vars, TypeOK, bitmaps, disk
<1> QED
  BY <1>1, <1>2, <1>3, <1>4, <1>5, <1>6, <1>7, <1>8, <1>9, <1>10 DEF Next

\* Type correctness, for every instance: in particular the primary is never
\* lost from s_networks, and no chunk number leaves its bitmap.
THEOREM TypeCorrect == Spec => []TypeOK
<1>1. Init => TypeOK
  BY InitType
<1>2. TypeOK /\ [Next]_vars => TypeOK'
  BY NextType
<1> QED
  BY <1>1, <1>2, PTL DEF Spec

-----------------------------------------------------------------------------
(* Verified data is good *)

\* No outside event undermines the verifications of the primary.
NothingLost == EnvBound["hash"] = 0 /\ EnvBound["lost"] = 0

TrustedVerifiers == Hashing \cup {"NotAvailable"}

\* Only PartialBlocks have holes.
HolesArePartial == \A x \in ranges : s_blocks[x] = "Partial"

\* What the primary or the ini files call verified is a VerifiedBlock.
VerifiedIsBlock ==
  \A x \in Bytes :
    Chosen(Primary, x) = "verified" \/ saved.bitmap[Primary][ChunkOf(Primary, x)] = "verified"
      => s_blocks[x] = "Verified"

\* The content of a VerifiedBlock is on disk, as it was when it was hashed.
BlocksOnDisk ==
  \A x \in Bytes : s_blocks[x] = "Verified" => x \notin buffered /\ x \in good \cup rotted

\* The ini files and the memory agree on whether the primary verifies.
SameTrust == saved.verifier[Primary] \in TrustedVerifiers <=> t_verifier[Primary] \in TrustedVerifiers

\* The inductive invariant, next to the types.
Grounded ==
  /\ HolesArePartial
  /\ VerifiedIsBlock
  /\ NothingLost => SameTrust
  /\ Trusted => BlocksOnDisk

DataInv == TypeOK /\ Grounded

LEMMA DataInit == Init => Grounded
BY ChunkInRange, FrontendsAssumption
DEF Init, Grounded, HolesArePartial, VerifiedIsBlock, SameTrust, BlocksOnDisk, Chosen, Snapshot

\* What is left to show of a step that changes neither the ini files nor
\* the verifiers.
LEMMA SteadyStep ==
  ASSUME DataInv, saved' = saved, t_verifier' = t_verifier,
         \A x \in Bytes : s_blocks[x] = "Verified" => s_blocks'[x] = "Verified",
         \A x \in Bytes : t_bitmap'[Primary][ChunkOf(Primary, x)] = "verified"
                            => s_blocks'[x] = "Verified",
         Trusted => \A x \in Bytes : s_blocks'[x] = "Verified" =>
                      x \notin buffered' /\ x \in good' \cup rotted',
         HolesArePartial'
  PROVE  Grounded'
<1>1. VerifiedIsBlock'
  BY DEF DataInv, Grounded, VerifiedIsBlock, Chosen
<1>2. NothingLost => SameTrust'
  BY DEF DataInv, Grounded, SameTrust
<1>3. Trusted' => BlocksOnDisk'
  BY DEF Trusted, BlocksOnDisk
<1> QED BY <1>1, <1>2, <1>3 DEF Grounded, NothingLost

LEMMA NewBlockData ==
  ASSUME DataInv, NEW x \in Bytes, NewBlock(x)
  PROVE  Grounded'
<1>1. s_blocks' = [y \in Bytes |-> IF y \in Block(x) THEN "Partial" ELSE s_blocks[y]]
  BY DEF NewBlock, Put, DataInv, TypeOK
<1>2. \A y \in Block(x) : s_blocks[y] = "Empty"
  BY DEF NewBlock
<1>3. Block(x) \subseteq Bytes
  BY DEF Block, BlockIn
<1>4. \A y \in Bytes : t_bitmap'[Primary][ChunkOf(Primary, y)] = "verified"
                         => t_bitmap[Primary][ChunkOf(Primary, y)] = "verified"
  <2>1. CASE s_verified_bitmap[x] = "missing"
    <3>1. t_bitmap'[Primary] = Put(t_bitmap[Primary],
            {j \in Touched(Primary, Block(x)) : t_bitmap[Primary][j] = "missing"}, "partial")
      BY <2>1, FrontendsAssumption DEF NewBlock, DataInv, TypeOK
    <3> QED BY <3>1, ChunkInRange, FrontendsAssumption DEF Put, DataInv, TypeOK
  <2>2. CASE s_verified_bitmap[x] # "missing"
    BY <2>2 DEF NewBlock
  <2> QED BY <2>1, <2>2
<1>5. ranges' = ranges \cup Block(x) /\ UNCHANGED disk /\ saved' = saved /\ t_verifier' = t_verifier
  BY DEF NewBlock
<1>6. HolesArePartial'
  BY <1>1, <1>3, <1>5 DEF HolesArePartial, DataInv, Grounded, TypeOK
<1>7. \A y \in Bytes : s_blocks'[y] = "Verified" <=> s_blocks[y] = "Verified"
  BY <1>1, <1>2
<1>8. \A y \in Bytes : t_bitmap'[Primary][ChunkOf(Primary, y)] = "verified"
                         => s_blocks'[y] = "Verified"
  BY <1>4, <1>7 DEF DataInv, Grounded, VerifiedIsBlock, Chosen
<1>9. Trusted => \A y \in Bytes : s_blocks'[y] = "Verified" =>
                   y \notin buffered' /\ y \in good' \cup rotted'
  BY <1>5, <1>7 DEF DataInv, Grounded, BlocksOnDisk, disk
<1> QED BY <1>5, <1>6, <1>7, <1>8, <1>9, SteadyStep

\* set_completed_block touches no VerifiedBlock and verifies no chunk.
LEMMA SetCompletedData ==
  ASSUME DataInv, NEW D, D \subseteq Bytes, NEW block \in {"Complete", "Verified"},
         \A x \in D : s_blocks[x] # "Verified", SetCompleted(D, block)
  PROVE  /\ \A x \in Bytes : s_blocks'[x] = IF x \in D THEN block ELSE s_blocks[x]
         /\ \A x \in Bytes : t_bitmap'[Primary][ChunkOf(Primary, x)] = "verified"
                               => s_blocks'[x] = "Verified"
<1>1. \A x \in Bytes : s_blocks'[x] = IF x \in D THEN block ELSE s_blocks[x]
  BY DEF SetCompleted, Put, DataInv, TypeOK
<1>2. PICK E : t_bitmap' = [t_bitmap EXCEPT ![Primary] = Put(@, E, "complete")]
  BY DEF SetCompleted
<1>3. \A x \in Bytes : t_bitmap'[Primary][ChunkOf(Primary, x)] = "verified"
                         => t_bitmap[Primary][ChunkOf(Primary, x)] = "verified"
  BY <1>2, ChunkInRange, FrontendsAssumption DEF Put, DataInv, TypeOK
<1>4. \A x \in Bytes : Chosen(Primary, x) = "verified" => s_blocks[x] = "Verified"
  BY DEF DataInv, Grounded, VerifiedIsBlock
<1> QED BY <1>1, <1>3, <1>4 DEF Chosen

LEMMA ReceivedData ==
  ASSUME DataInv, NEW u \in Frontends, NEW a \in Bytes, NEW b \in Bytes, NEW ok \in BOOLEAN,
         Received(u, a, b, ok)
  PROVE  Grounded'
<1> DEFINE D == (a .. b) \cap ranges
           full == {y \in Bytes : /\ s_blocks[y] = "Partial"
                                  /\ Block(y) \cap D # {}
                                  /\ Block(y) \cap ranges \subseteq D}
           block == IF t_verifier[Primary] = "None" THEN "Verified" ELSE "Complete"
<1>1. SetCompleted(full, block)
  BY DEF Received
<1>2. full \subseteq Bytes /\ block \in {"Complete", "Verified"}
      /\ \A x \in full : s_blocks[x] # "Verified"
  OBVIOUS
<1>3. /\ \A x \in Bytes : s_blocks'[x] = IF x \in full THEN block ELSE s_blocks[x]
      /\ \A x \in Bytes : t_bitmap'[Primary][ChunkOf(Primary, x)] = "verified"
                            => s_blocks'[x] = "Verified"
  <2> HIDE DEF full, block
  <2> QED BY <1>1, <1>2, SetCompletedData
<1>4. /\ ranges' = ranges \ D /\ buffered' = buffered \cup D /\ rotted' = rotted
      /\ good \ D \subseteq good' /\ saved' = saved /\ t_verifier' = t_verifier
  BY DEF Received, CloseRanges
<1>5. \A x \in ranges : s_blocks[x] = "Partial" /\ x \in Bytes /\ x \in Block(x)
  BY DEF DataInv, Grounded, HolesArePartial, TypeOK, Block, BlockIn
<1>6. HolesArePartial'
  <2>1. \A x \in ranges' : x \notin full /\ x \in Bytes /\ s_blocks[x] = "Partial"
    BY <1>4, <1>5
  <2> HIDE DEF full, block
  <2> QED BY <2>1, <1>3 DEF HolesArePartial
<1>7. Trusted => \A x \in Bytes : s_blocks'[x] = "Verified" =>
                   x \notin buffered' /\ x \in good' \cup rotted'
  <2> SUFFICES ASSUME Trusted, NEW x \in Bytes, s_blocks'[x] = "Verified"
               PROVE  x \notin buffered' /\ x \in good' \cup rotted'
    OBVIOUS
  <2>1. block = "Complete"
    BY DEF Trusted, Hashing
  <2>2. s_blocks[x] = "Verified"
    BY <1>3, <2>1
  <2>3. x \notin D /\ x \notin buffered /\ x \in good \cup rotted
    BY <2>2, <1>5 DEF DataInv, Grounded, BlocksOnDisk
  <2> QED BY <2>3, <1>4
<1>8. \A x \in Bytes : s_blocks[x] = "Verified" => s_blocks'[x] = "Verified"
  BY <1>3
<1> QED BY <1>3, <1>4, <1>6, <1>7, <1>8, SteadyStep

\* set_frontend_state_verified: VerifiedBlocks appear in the chunks J of the
\* primary only, all over them, and before the primary calls them verified.
LEMMA SetVerifiedData ==
  ASSUME DataInv, NEW t \in Frontends, NEW J, SetVerified(t, J)
  PROVE  /\ \A x \in Bytes : s_blocks[x] = "Verified" => s_blocks'[x] = "Verified"
         /\ \A x \in Bytes : s_blocks'[x] = "Verified" /\ s_blocks[x] # "Verified"
                               => t = Primary /\ ChunkOf(t, x) \in J
         /\ \A x \in Bytes : t_bitmap'[Primary][ChunkOf(Primary, x)] = "verified"
                               => s_blocks'[x] = "Verified"
         /\ HolesArePartial'
<1> DEFINE V == VerifiedBlocks(t, J)
<1>1. s_blocks' = [x \in Bytes |-> IF x \in V THEN "Verified" ELSE s_blocks[x]]
  BY DEF SetVerified, Put, DataInv, TypeOK
<1>2. \A x \in Bytes : x \in V <=> t = Primary /\ ChunkOf(t, x) \in J /\ s_blocks[x] # "Verified"
  BY DEF VerifiedBlocks
<1>3. ranges' = ranges \ V
  BY DEF SetVerified, CloseRanges
<1>4. HolesArePartial'
  BY <1>1, <1>3 DEF HolesArePartial, DataInv, Grounded, TypeOK
<1>5. \A x \in Bytes : Chosen(Primary, x) = "verified" => s_blocks[x] = "Verified"
  BY DEF DataInv, Grounded, VerifiedIsBlock
<1>6. CASE t = Primary
  <2>1. t_bitmap'[Primary] = Put(t_bitmap[Primary], J, "verified")
    BY <1>6, FrontendsAssumption DEF SetVerified
  <2>2. \A x \in Bytes : t_bitmap'[Primary][ChunkOf(Primary, x)] = "verified"
                           => ChunkOf(Primary, x) \in J \/ Chosen(Primary, x) = "verified"
    BY <2>1, ChunkInRange, FrontendsAssumption DEF Put, DataInv, TypeOK, Chosen
  <2> QED BY <1>1, <1>2, <1>4, <1>5, <1>6, <2>2
<1>7. CASE t # Primary
  <2>1. PICK S, v : /\ t_bitmap'[Primary] = Put(t_bitmap[Primary], S, v)
                    /\ S = {}
    BY <1>7, FrontendsAssumption DEF SetVerified
  <2>2. \A x \in Bytes : t_bitmap'[Primary][ChunkOf(Primary, x)] = Chosen(Primary, x)
    BY <2>1, ChunkInRange, FrontendsAssumption DEF Put, DataInv, TypeOK, Chosen
  <2> QED BY <1>1, <1>2, <1>4, <1>5, <2>2
<1> QED BY <1>6, <1>7

\* set_frontend_state_missing empties CompleteBlocks only.
LEMMA SetMissingData ==
  ASSUME DataInv, NEW t \in Frontends, NEW J, SetMissing(t, J)
  PROVE  /\ \A x \in Bytes : s_blocks'[x] = "Verified" <=> s_blocks[x] = "Verified"
         /\ \A x \in Bytes : t_bitmap'[Primary][ChunkOf(Primary, x)] = "verified"
                               => s_blocks'[x] = "Verified"
         /\ HolesArePartial'
<1>1. PICK S : s_blocks' = Put(s_blocks, {x \in S : s_blocks[x] = "Complete"}, "Empty")
  BY DEF SetMissing
<1>2. s_blocks' = [x \in Bytes |-> IF x \in S /\ s_blocks[x] = "Complete" THEN "Empty"
                                   ELSE s_blocks[x]]
  BY <1>1 DEF Put, DataInv, TypeOK
<1>3. HolesArePartial'
  BY <1>2 DEF SetMissing, HolesArePartial, DataInv, Grounded, TypeOK
<1>4. \A x \in Bytes : Chosen(Primary, x) = "verified" => s_blocks[x] = "Verified"
  BY DEF DataInv, Grounded, VerifiedIsBlock
<1>5. \A x \in Bytes : t_bitmap'[Primary][ChunkOf(Primary, x)] = "verified"
                         => Chosen(Primary, x) = "verified"
  <2>1. CASE t = Primary
    <3>1. \A j \in Bytes : t_bitmap'[Primary][j] = "verified" => t_bitmap[Primary][j] = "verified"
      BY <2>1, FrontendsAssumption DEF SetMissing
    <3> QED BY <3>1, ChunkInRange, FrontendsAssumption DEF Chosen
  <2>2. CASE t # Primary
    <3>1. PICK F : t_bitmap'[Primary] = Put(t_bitmap[Primary], F, "missing")
      BY <2>2, FrontendsAssumption DEF SetMissing
    <3> QED BY <3>1, ChunkInRange, FrontendsAssumption DEF Put, DataInv, TypeOK, Chosen
  <2> QED BY <2>1, <2>2
<1> QED BY <1>2, <1>3, <1>4, <1>5

LEMMA VerifyChunkData ==
  ASSUME DataInv, NEW t \in Frontends, NEW j \in Chunks(t), VerifyChunk(t, j)
  PROVE  Grounded'
<1>1. saved' = saved /\ t_verifier' = t_verifier /\ good' = good /\ rotted' = rotted
  BY DEF VerifyChunk
<1>2. Trusted => BlocksOnDisk
  BY DEF DataInv, Grounded
<1>3. CASE t_verifier[t] = "Force" /\ SetVerified(t, {j}) /\ buffered' = buffered
  <2>1. Trusted => t # Primary
    BY <1>3 DEF Trusted, Hashing
  <2>2. Trusted => \A x \in Bytes : s_blocks'[x] = "Verified" => s_blocks[x] = "Verified"
    BY <1>3, <2>1, SetVerifiedData
  <2>3. Trusted => \A x \in Bytes : s_blocks'[x] = "Verified" =>
                     x \notin buffered' /\ x \in good' \cup rotted'
    BY <1>1, <1>2, <1>3, <2>2 DEF BlocksOnDisk
  <2> QED BY <1>1, <1>3, <2>3, SetVerifiedData, SteadyStep
<1>4. ASSUME NEW J, SetVerified(t, J), buffered' = {},
             \A x \in Bytes : ChunkOf(t, x) \in J => x \in good
      PROVE  Grounded'
  <2>1. Trusted => \A x \in Bytes : s_blocks'[x] = "Verified" =>
                     x \notin buffered' /\ x \in good' \cup rotted'
    BY <1>1, <1>2, <1>4, SetVerifiedData DEF BlocksOnDisk
  <2> QED BY <1>1, <1>4, <2>1, SetVerifiedData, SteadyStep
<1>5. ASSUME NEW J, SetMissing(t, J), buffered' = {}
      PROVE  Grounded'
  <2>1. Trusted => \A x \in Bytes : s_blocks'[x] = "Verified" =>
                     x \notin buffered' /\ x \in good' \cup rotted'
    BY <1>1, <1>2, <1>5, SetMissingData DEF BlocksOnDisk
  <2> QED BY <1>1, <1>5, <2>1, SetMissingData, SteadyStep
<1>6. ASSUME SetVerified(t, {j}), buffered' = {}, FileVerify(BytesOf(t, j), TRUE)
      PROVE  Grounded'
  BY <1>6, <1>4 DEF FileVerify, BytesOf
<1>7. ASSUME SetVerified(t, CompleteChunks(t)), buffered' = {}, FileVerify(Bytes, TRUE)
      PROVE  Grounded'
  BY <1>7, <1>4 DEF FileVerify
<1>8. ASSUME NEW J, NEW D, buffered' = {},
             \E result \in BOOLEAN : /\ FileVerify(D, result)
                                    /\ IF result THEN SetVerified(t, J) ELSE SetMissing(t, J)
      PROVE  SetMissing(t, J) \/ (SetVerified(t, J) /\ FileVerify(D, TRUE))
  BY <1>8
<1> QED BY <1>3, <1>5, <1>6, <1>7, <1>8 DEF VerifyChunk, FlushFd

LEMMA VerifyAllChunksData ==
  ASSUME DataInv, VerifyAllChunks
  PROVE  Grounded'
<1>1. PICK S : t_bitmap' = [t_bitmap EXCEPT ![Primary] = Put(@, S, "complete")]
  BY DEF VerifyAllChunks
<1>2. UNCHANGED <<s_blocks, ranges, saved, t_verifier, good, buffered, rotted>>
  BY DEF VerifyAllChunks, disk
<1>3. \A x \in Bytes : t_bitmap'[Primary][ChunkOf(Primary, x)] = "verified"
                         => Chosen(Primary, x) = "verified"
  BY <1>1, ChunkInRange, FrontendsAssumption DEF Put, DataInv, TypeOK, Chosen
<1>4. \A x \in Bytes : t_bitmap'[Primary][ChunkOf(Primary, x)] = "verified"
                         => s_blocks'[x] = "Verified"
  BY <1>2, <1>3 DEF DataInv, Grounded, VerifiedIsBlock
<1>5. HolesArePartial'
  BY <1>2 DEF HolesArePartial, DataInv, Grounded
<1>6. Trusted => \A x \in Bytes : s_blocks'[x] = "Verified" =>
                   x \notin buffered' /\ x \in good' \cup rotted'
  BY <1>2 DEF DataInv, Grounded, BlocksOnDisk
<1> QED BY <1>2, <1>4, <1>5, <1>6, SteadyStep

\* A hash that comes late does not make the primary trusted.
LEMMA SetVerifierData ==
  ASSUME DataInv, NEW t \in Frontends, SetVerifier(t)
  PROVE  Grounded'
<1>1. UNCHANGED <<s_blocks, ranges, t_bitmap, saved, good, buffered, rotted>>
  BY DEF SetVerifier, disk, bitmaps
<1>2. HolesArePartial' /\ VerifiedIsBlock'
  BY <1>1 DEF DataInv, Grounded, HolesArePartial, VerifiedIsBlock, Chosen
<1>3. NothingLost => (t_verifier'[Primary] \in TrustedVerifiers
                        <=> t_verifier[Primary] \in TrustedVerifiers)
  <2> SUFFICES ASSUME NothingLost
               PROVE  t_verifier'[Primary] \in TrustedVerifiers
                        <=> t_verifier[Primary] \in TrustedVerifiers
    OBVIOUS
  <2>1. ~Spend("hash")
    BY DEF Spend, NothingLost, DataInv, TypeOK, EnvKinds
  <2>2. t_verifier[t] = "NotAvailable" /\ t_verifier' = [t_verifier EXCEPT ![t] = "Chunks"]
    BY <2>1 DEF SetVerifier
  <2> QED BY <2>2, FrontendsAssumption DEF TrustedVerifiers, Hashing, DataInv, TypeOK
<1>4. NothingLost => SameTrust'
  BY <1>1, <1>3 DEF DataInv, Grounded, SameTrust
<1>5. Trusted' => Trusted
  BY <1>3 DEF Trusted, NothingLost, TrustedVerifiers
<1>6. Trusted' => BlocksOnDisk'
  BY <1>1, <1>5 DEF DataInv, Grounded, BlocksOnDisk
<1> QED BY <1>2, <1>4, <1>6 DEF Grounded, NothingLost

LEMMA PropagateChunkData ==
  ASSUME DataInv, NEW t \in Frontends, NEW j \in Chunks(t), PropagateChunk(t, j)
  PROVE  Grounded'
<1> DEFINE D == {x \in BytesOf(t, j) : s_blocks[x] \in {"Empty", "Partial"}}
<1>1. D \subseteq Bytes /\ \A x \in D : s_blocks[x] # "Verified"
  BY DEF BytesOf
<1>2. SetCompleted(D, "Complete") /\ ranges' = ranges \ D
  BY DEF PropagateChunk, CloseRanges
<1>3. good \subseteq good' /\ UNCHANGED <<saved, t_verifier, rotted>> /\ buffered' = {}
  BY DEF PropagateChunk
<1> HIDE DEF D
<1>4. /\ \A x \in Bytes : s_blocks'[x] = IF x \in D THEN "Complete" ELSE s_blocks[x]
      /\ \A x \in Bytes : t_bitmap'[Primary][ChunkOf(Primary, x)] = "verified"
                            => s_blocks'[x] = "Verified"
  BY <1>1, <1>2, SetCompletedData
<1>5. HolesArePartial'
  BY <1>2, <1>4 DEF HolesArePartial, DataInv, Grounded, TypeOK
<1>6. Trusted => \A x \in Bytes : s_blocks'[x] = "Verified" =>
                   x \notin buffered' /\ x \in good' \cup rotted'
  BY <1>3, <1>4 DEF DataInv, Grounded, BlocksOnDisk
<1>7. \A x \in Bytes : s_blocks[x] = "Verified" => s_blocks'[x] = "Verified"
  BY <1>1, <1>4
<1> QED BY <1>3, <1>4, <1>5, <1>6, <1>7, SteadyStep

\* split_blocks changes pieces of PartialBlocks, and forgets no hole.
LEMMA MergeData ==
  ASSUME DataInv, NEW t \in Frontends, Merge(t)
  PROVE  Grounded'
<1> DEFINE nets == Associated(t)
           full == FullPieces(nets)
           void == VoidPieces(nets)
<1>1. s_blocks' = [x \in Bytes |-> IF x \in void THEN "Empty"
                                   ELSE IF x \in full THEN "Complete" ELSE s_blocks[x]]
  BY DEF Merge, Put, DataInv, TypeOK
<1>2. \A x \in full \cup void : s_blocks[x] = "Partial" /\ x \in Bytes
  BY DEF FullPieces, VoidPieces, Cut
<1>3. \A x \in full : x \notin ranges
  BY <1>2 DEF FullPieces, BlockIn
<1>4. ranges' = ranges \ void /\ UNCHANGED <<saved, t_verifier, good, buffered, rotted>>
  BY DEF Merge, CloseRanges, disk
<1>5. t_bitmap'[Primary] = t_bitmap[Primary]
  BY FrontendsAssumption DEF Merge, DataInv, TypeOK
<1> HIDE DEF full, void
<1>6. \A x \in Bytes : s_blocks'[x] = "Verified" <=> s_blocks[x] = "Verified"
  BY <1>1, <1>2
<1>7. HolesArePartial'
  BY <1>1, <1>3, <1>4 DEF HolesArePartial, DataInv, Grounded, TypeOK
<1>8. \A x \in Bytes : t_bitmap'[Primary][ChunkOf(Primary, x)] = "verified"
                         => s_blocks'[x] = "Verified"
  BY <1>5, <1>6 DEF DataInv, Grounded, VerifiedIsBlock, Chosen
<1>9. Trusted => \A x \in Bytes : s_blocks'[x] = "Verified" =>
                   x \notin buffered' /\ x \in good' \cup rotted'
  BY <1>4, <1>6 DEF DataInv, Grounded, BlocksOnDisk
<1> QED BY <1>4, <1>6, <1>7, <1>8, <1>9, SteadyStep

LEMMA SaveData ==
  ASSUME DataInv, NEW flushed \in BOOLEAN, Save(flushed)
  PROVE  Grounded'
<1>1. /\ UNCHANGED <<s_blocks, ranges, t_bitmap, t_verifier, good, rotted>>
      /\ saved'.bitmap = t_bitmap /\ saved'.verifier = t_verifier
      /\ buffered' \subseteq buffered
  BY DEF Save, Snapshot, FlushFd, bitmaps
<1>2. HolesArePartial' /\ VerifiedIsBlock' /\ SameTrust'
  BY <1>1 DEF DataInv, Grounded, HolesArePartial, VerifiedIsBlock, SameTrust, Chosen
<1>3. Trusted' => BlocksOnDisk'
  BY <1>1 DEF DataInv, Grounded, Trusted, BlocksOnDisk
<1> QED BY <1>2, <1>3 DEF Grounded

\* A crash keeps the verified blocks that were saved, and their content was
\* flushed before they were verified.
LEMMA RestartData ==
  ASSUME DataInv, NEW lost \in BOOLEAN, Restart(lost)
  PROVE  Grounded'
<1> DEFINE V == {x \in Bytes : ChunkOf(Primary, x) \in Held(Primary, "verified")}
           nets == saved.networks
           C == {x \in Bytes \ V :
                   \/ \E t \in nets : ChunkOf(t, x) \in Held(t, "complete")
                   \/ WithinPresent(nets, x)}
           P == {x \in Bytes \ (V \cup C) : BlockIn(nets, x) \cap saved.present # {}}
<1>1. /\ s_blocks' = [x \in Bytes |->
           IF x \in V THEN "Verified" ELSE IF x \in C THEN "Complete"
           ELSE IF x \in P THEN "Partial" ELSE "Empty"]
      /\ ranges' = P \ saved.present
      /\ P \subseteq Bytes \ (V \cup C)
  BY DEF Restart
<1>2. \A x \in Bytes : x \in V <=> saved.bitmap[Primary][ChunkOf(Primary, x)] = "verified"
  BY DEF Held, Chunks
<1>3. saved' = saved /\ t_verifier' = saved.verifier /\ rotted' = rotted /\ buffered' = {}
  BY DEF Restart
<1>4. \A j \in Bytes : t_bitmap'[Primary][j] = "verified" => j \in Held(Primary, "verified")
  BY FrontendsAssumption DEF Restart, DataInv, TypeOK
<1> HIDE DEF V, C, P
<1>5. HolesArePartial'
  BY <1>1 DEF HolesArePartial
<1>6. VerifiedIsBlock'
  <2> SUFFICES ASSUME NEW x \in Bytes,
                      \/ t_bitmap'[Primary][ChunkOf(Primary, x)] = "verified"
                      \/ saved.bitmap[Primary][ChunkOf(Primary, x)] = "verified"
               PROVE  s_blocks'[x] = "Verified"
    BY <1>3 DEF VerifiedIsBlock, Chosen
  <2>1. ChunkOf(Primary, x) \in Bytes
    BY ChunkInRange, FrontendsAssumption
  <2>2. x \in V
    BY <1>2, <1>4, <2>1 DEF Held
  <2> QED BY <1>1, <2>2
<1>7. SameTrust'
  BY <1>3 DEF SameTrust
<1>8. Trusted' => BlocksOnDisk'
  <2> SUFFICES ASSUME Trusted', NEW x \in Bytes, s_blocks'[x] = "Verified"
               PROVE  x \notin buffered' /\ x \in good' \cup rotted'
    BY DEF BlocksOnDisk
  <2>1. NothingLost /\ t_verifier'[Primary] \in TrustedVerifiers
    BY DEF Trusted, NothingLost, TrustedVerifiers
  <2>2. Trusted
    BY <2>1, <1>3 DEF DataInv, Grounded, SameTrust, Trusted, NothingLost, TrustedVerifiers
  <2>3. s_blocks[x] = "Verified"
    BY <1>1, <1>2 DEF DataInv, Grounded, VerifiedIsBlock
  <2>4. x \notin buffered /\ x \in good \cup rotted
    BY <2>2, <2>3 DEF DataInv, Grounded, BlocksOnDisk
  <2>5. ~Spend("lost")
    BY <2>1 DEF Spend, NothingLost, DataInv, TypeOK, EnvKinds
  <2>6. good' = good \ buffered
    BY <2>5 DEF Restart
  <2> QED BY <1>3, <2>4, <2>6
<1> QED BY <1>5, <1>6, <1>7, <1>8 DEF Grounded

\* Flushes, bit rot, finished files and steps that change nothing.
LEMMA OtherData ==
  ASSUME DataInv,
         Flush \/ (\E x \in Bytes : Rot(x)) \/ (\E t \in Frontends : Finish(t)) \/ UNCHANGED vars
  PROVE  Grounded'
<1>1. UNCHANGED <<s_blocks, ranges, t_bitmap, saved, t_verifier>>
  BY DEF Flush, Rot, Finish, vars, bitmaps
<1>2. buffered' \subseteq buffered /\ good \cup rotted \subseteq good' \cup rotted'
  BY DEF Flush, FlushFd, Rot, Finish, vars, disk
<1>3. HolesArePartial' /\ VerifiedIsBlock' /\ (NothingLost => SameTrust')
  BY <1>1 DEF DataInv, Grounded, HolesArePartial, VerifiedIsBlock, SameTrust, Chosen
<1>4. Trusted' => BlocksOnDisk'
  BY <1>1, <1>2 DEF DataInv, Grounded, Trusted, BlocksOnDisk
<1> QED BY <1>3, <1>4 DEF Grounded, NothingLost

\* Every step keeps the inductive invariant.
LEMMA DataNext == DataInv /\ [Next]_vars => DataInv'
<1> SUFFICES ASSUME DataInv, [Next]_vars PROVE Grounded'
  BY NextType DEF DataInv
<1>1. ASSUME NEW x \in Bytes, NewBlock(x) PROVE Grounded'
  BY <1>1, NewBlockData
<1>2. ASSUME NEW u \in Frontends, NEW a \in Bytes, NEW b \in Bytes, NEW ok \in BOOLEAN,
             Received(u, a, b, ok)
      PROVE  Grounded'
  BY <1>2, ReceivedData
<1>3. ASSUME NEW t \in Frontends, NEW j \in Chunks(t), VerifyChunk(t, j) PROVE Grounded'
  BY <1>3, VerifyChunkData
<1>4. ASSUME NEW t \in Frontends, NEW j \in Chunks(t), PropagateChunk(t, j) PROVE Grounded'
  BY <1>4, PropagateChunkData
<1>5. ASSUME NEW t \in Frontends, SetVerifier(t) \/ Merge(t) \/ Finish(t) PROVE Grounded'
  BY <1>5, SetVerifierData, MergeData, OtherData
<1>6. CASE VerifySomeChunks
  BY <1>6, <1>3 DEF VerifySomeChunks
<1>7. CASE VerifyAllChunks
  BY <1>7, VerifyAllChunksData
<1>8. ASSUME NEW b \in BOOLEAN, Save(b) \/ Restart(b) PROVE Grounded'
  BY <1>8, SaveData, RestartData
<1>9. CASE Flush \/ (\E x \in Bytes : Rot(x)) \/ UNCHANGED vars
  BY <1>9, OtherData
<1> QED
  BY <1>1, <1>2, <1>3, <1>4, <1>5, <1>6, <1>7, <1>8, <1>9 DEF Next

\* Whatever is received, split, copied, saved, rechecked or crashed, data the
\* primary calls verified is what the hashes expect, or rotted since.
THEOREM VerifiedDataSafe == Spec => []VerifiedDataIsGood
<1>1. Init => DataInv
  BY InitType, DataInit DEF DataInv
<1>2. DataInv /\ [Next]_vars => DataInv'
  BY DataNext
<1>3. DataInv => VerifiedDataIsGood
  BY DEF DataInv, Grounded, VerifiedIsBlock, BlocksOnDisk, VerifiedDataIsGood
<1> QED
  BY <1>1, <1>2, <1>3, PTL DEF Spec

=============================================================================
