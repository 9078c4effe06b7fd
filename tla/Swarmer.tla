------------------------------ MODULE Swarmer ------------------------------
(***************************************************************************)
(* A swarmer of commonSwarming.ml: the one copy of a file on disk that is  *)
(* downloaded through several frontends (eDonkey, BitTorrent, Gnutella...) *)
(* at once, each with its own chunk size and its own way to verify a chunk.*)
(*                                                                         *)
(* A byte of the model stands for the smallest unit that is ever split.    *)
(* The code keeps one entry per block in s_blocks and s_verified_bitmap;   *)
(* the model keeps one per byte, equal on all the bytes of a block, so     *)
(* that splitting a block (split_blocks) leaves the entries alone.         *)
(* "good" is the set of bytes whose content is the one the hashes of the   *)
(* primary expect, "buffered" the ones Unix32 has not written to disk yet, *)
(* "stored" the ones that were ever written to the file on disk.           *)
(***************************************************************************)
EXTENDS Integers, FiniteSets

CONSTANTS
  Size,             \* s_size, in units
  Frontends,        \* all the frontends t, merged into this swarmer or not
  Primary,          \* the one that created the swarmer
  t_chunk_size,     \* [Frontends -> Nat \ {0}]
  FirstVerifiers,   \* t_verifier as the networks may set it at creation
  SoloChunks,       \* chunks an unmerged frontend may have in its own swarmer
  EnvBound          \* how often each kind of outside event may happen

\* A chunk verifier: NoVerification, VerificationNotAvailable,
\* ForceVerification, one hash per chunk, one hash for the whole file.
Verifiers == {"None", "NotAvailable", "Force", "Chunks", "Whole"}
Hashing == {"Chunks", "Whole"}
VBState == {"missing", "partial", "complete", "verified"}
BlockState == {"Empty", "Partial", "Complete", "Verified"}
FileState == {"FileDownloading", "FileDownloaded"}

\* Outside events the model bounds: corrupt data received, bit rot on disk,
\* good data that fails its verification, a save, a save whose flush
\* fails, a crash, a crash that also loses the temporary file, a user's
\* recheck, a chunk copied from another download, the hash of a whole file
\* learnt after data was accepted without one.
EnvKinds == {"bad", "rot", "fail", "save", "unflushed", "crash", "lost", "recheck", "copy",
             "hash"}

ASSUME SizeAssumption == Size \in Nat \ {0}
ASSUME FrontendsAssumption == IsFiniteSet(Frontends) /\ Primary \in Frontends
ASSUME ChunkSizeAssumption == t_chunk_size \in [Frontends -> Nat \ {0}]
ASSUME VerifierAssumption == FirstVerifiers \subseteq [Frontends -> Verifiers]
ASSUME EnvAssumption == EnvBound \in [EnvKinds -> Nat] /\ SoloChunks \subseteq Nat

VARIABLES
  s_networks,           \* frontends sharing the swarmer
  s_blocks,             \* [Bytes -> BlockState]
  ranges,               \* bytes in the holes of the PartialBlocks
  s_verified_bitmap,    \* [Bytes -> VBState]
  t_bitmap,             \* t_converted_verified_bitmap of every frontend
  t_ncomplete_chunks,
  t_nverified_chunks,
  t_verifier,
  file_downloaded,
  file_state,
  registered,           \* the swarmer is in swarmers_by_name
  good, buffered,       \* content of the file, and what is not on disk yet
  stored,               \* what was ever written to the file on disk
  rotted,               \* bytes that ever suffered bit rot (history)
  saved,                \* what the ini files hold
  raised,               \* assertions of the code that failed, for whom (history)
  env                   \* outside events so far

bitmaps == <<s_blocks, ranges, s_verified_bitmap, t_bitmap,
             t_ncomplete_chunks, t_nverified_chunks>>
disk == <<good, buffered, stored, rotted>>
vars == <<s_networks, bitmaps, t_verifier, file_downloaded, file_state,
          registered, disk, saved, raised, env>>

-----------------------------------------------------------------------------
(* Bytes, chunks and blocks *)

Bytes == 0 .. Size - 1
ChunkOf(t, x) == x \div t_chunk_size[t]
Chunks(t) == {ChunkOf(t, x) : x \in Bytes}
BytesOf(t, j) == {x \in Bytes : ChunkOf(t, x) = j}
Touched(t, D) == {ChunkOf(t, x) : x \in D}

\* Blocks are cut at the chunk boundaries of every frontend in nets.
BlockIn(nets, x) == {y \in Bytes : \A t \in nets : ChunkOf(t, y) = ChunkOf(t, x)}
Block(x) == BlockIn(s_networks, x)

\* Data on disk (or buffered) according to s_blocks: present_intervals.
Present == {x \in Bytes : \/ s_blocks[x] \in {"Complete", "Verified"}
                          \/ s_blocks[x] = "Partial" /\ x \notin ranges}

CompleteChunks(t) == {j \in Chunks(t) : t_bitmap[t][j] = "complete"}

Spend(kind) == /\ env[kind] < EnvBound[kind]
               /\ env' = [env EXCEPT ![kind] = @ + 1]

\* Replace the entries of f that are in S.
Put(f, S, v) == [x \in DOMAIN f |-> IF x \in S THEN v ELSE f[x]]

\* Mutant: exists instead of for_all.
AnyBlockIs(sb, t, j, v) == \E x \in BytesOf(t, j) : sb[x] = v

\* Every block of chunk j of t has value v in the bitmap sb.
AllBlocksAre(sb, t, j, v) == \A x \in BytesOf(t, j) : sb[x] = v

\* The frontends whose downloaded size a step changes: the primary, and the
\* one the data came through. Nothing reads the size of a secondary that has
\* a verifier, which is left out.
Credited(t) == {u \in {Primary, t} : u = Primary \/ t_verifier[u] = "None"}

\* Mutants: no "t_num <> tt.t_num" test; the size of a failed block stays.
CreditTwice(t, n) ==
  [u \in Frontends |-> file_downloaded[u] + (IF u = Primary THEN n ELSE 0)
                                           + (IF u = t THEN n ELSE 0)]
CreditUpwards(t, n) ==
  [u \in Frontends |-> IF u \in Credited(t) /\ n > 0 THEN file_downloaded[u] + n
                                                       ELSE file_downloaded[u]]

\* add_file_downloaded
Credit(t, n) ==
  [u \in Frontends |-> IF u \in Credited(t) THEN file_downloaded[u] + n
                                             ELSE file_downloaded[u]]

\* Mutant: a failed chunk is still counted.
AddCompleteUpwards(t, n) == [t_ncomplete_chunks EXCEPT ![t] = IF n > 0 THEN @ + n ELSE @]

\* t_ncomplete_chunks of t changes by n.
AddComplete(t, n) == [t_ncomplete_chunks EXCEPT ![t] = @ + n]

\* Mutant: closed ranges stay linked.
KeepRanges(D) == ranges' = ranges

\* The holes in D are closed.
CloseRanges(D) == ranges' = ranges \ D

\* Mutant: the hash is computed through the buffers, which are kept.
SkipFlush == UNCHANGED <<buffered, stored>>

\* Unix32.flush_fd: what is buffered goes to disk.
FlushFd == buffered' = {} /\ stored' = stored \cup buffered

\* Mutant: only the beginning of the chunk is hashed.
VerifyBeginning(D, result) ==
  result = (\E x \in D : x \in good /\ \A y \in D : x <= y) /\ UNCHANGED env

\* file_verify: the hash of what is on disk is the expected one. It is not if
\* the file cannot be read, nor, for a secondary, if its hash is that of
\* another content than the primary's.
FileVerify(D, result) ==
  \/ result = (D \subseteq good) /\ UNCHANGED env
  \/ ~result /\ D \subseteq good /\ Spend("fail")

-----------------------------------------------------------------------------
(* Creation: create_swarmer, create, associate true *)

Snapshot == [networks |-> s_networks, bitmap |-> t_bitmap,
             present |-> Present, verifier |-> t_verifier]

Init ==
  /\ s_networks = {Primary}
  /\ s_blocks = [x \in Bytes |-> "Empty"]
  /\ ranges = {}
  /\ s_verified_bitmap = [x \in Bytes |-> "missing"]
  /\ t_bitmap = [t \in Frontends |-> [j \in Bytes |-> "missing"]]
  /\ t_ncomplete_chunks \in [Frontends -> SoloChunks \cup {0}]
  /\ t_ncomplete_chunks[Primary] = 0
  /\ t_nverified_chunks = t_ncomplete_chunks
  /\ t_verifier \in FirstVerifiers
  /\ file_downloaded = [t \in Frontends |-> 0]
  /\ file_state = [t \in Frontends |-> "FileDownloading"]
  /\ registered = TRUE
  /\ good = {} /\ buffered = {} /\ stored = {} /\ rotted = {}
  /\ saved = Snapshot
  /\ raised = {}
  /\ env = [k \in EnvKinds |-> 0]

-----------------------------------------------------------------------------
(* Downloading *)

\* new_block, called by select_blocks and linear_select_blocks on an
\* EmptyBlock; marks the block and the chunks that contain it as started.
NewBlock(x) ==
  LET B == Block(x) IN
  /\ \E u \in s_networks : file_state[u] = "FileDownloading"
  /\ \A y \in B : s_blocks[y] = "Empty"
  /\ s_blocks' = Put(s_blocks, B, "Partial")
  /\ ranges' = ranges \cup B
  /\ IF s_verified_bitmap[x] = "missing"
     THEN /\ s_verified_bitmap' = Put(s_verified_bitmap, B, "partial")
          /\ t_bitmap' = [t \in Frontends |->
               IF t \notin s_networks THEN t_bitmap[t]
               ELSE Put(t_bitmap[t],
                        {j \in Touched(t, B) : t_bitmap[t][j] = "missing"}, "partial")]
     ELSE UNCHANGED <<s_verified_bitmap, t_bitmap>>
  /\ UNCHANGED <<s_networks, t_ncomplete_chunks, t_nverified_chunks, t_verifier,
                 file_downloaded, file_state, registered, disk, saved, raised, env>>

\* Mutants: a chunk must have been started; the wrong state is compared.
EscalatedIfStarted(sb, D) ==
  {j \in Touched(Primary, D) : /\ t_bitmap[Primary][j] = "partial"
                               /\ AllBlocksAre(sb, Primary, j, "complete")}
EscalatedIfVerified(sb, D) ==
  {j \in Touched(Primary, D) : AllBlocksAre(sb, Primary, j, "verified")}

\* set_swarmer_state_complete over the blocks D: chunks of the primary that
\* it makes complete, sb being the bitmap of the swarmer afterwards.
Escalated(sb, D) ==
  {j \in Touched(Primary, D) :
     /\ t_bitmap[Primary][j] \in {"missing", "partial"}
     /\ AllBlocksAre(sb, Primary, j, "complete")}

\* set_completed_block over the blocks D that are neither complete nor
\* verified; block tells what they become. Only blocks whose bitmap entry
\* is not complete yet escalate.
SetCompleted(D, block) ==
  LET N == {y \in D : s_verified_bitmap[y] # "complete"}
      sb == Put(s_verified_bitmap, D, "complete")
      E == Escalated(sb, N) IN
  /\ s_blocks' = Put(s_blocks, D, block)
  /\ s_verified_bitmap' = IF block = "Verified" THEN Put(sb, D, "verified") ELSE sb
  /\ t_bitmap' = [t_bitmap EXCEPT ![Primary] = Put(@, E, "complete")]
  /\ t_ncomplete_chunks' = AddComplete(Primary, Cardinality(E))
  /\ UNCHANGED t_nverified_chunks

\* received and range_received: a client of frontend u sends bytes a..b; the
\* ones that are still missing are written. A block whose last hole closes is
\* complete, or verified at once if the primary does no verification.
Received(u, a, b, ok) ==
  LET D == (a .. b) \cap ranges
      full == {y \in Bytes : /\ s_blocks[y] = "Partial"
                             /\ Block(y) \cap D # {}
                             /\ Block(y) \cap ranges \subseteq D} IN
  /\ u \in s_networks /\ file_state[u] = "FileDownloading"
  /\ D # {}
  /\ IF ok THEN good' = good \cup D /\ UNCHANGED env
           ELSE good' = good \ D /\ Spend("bad")
  /\ buffered' = buffered \cup D
  /\ file_downloaded' = Credit(u, Cardinality(D))
  /\ CloseRanges(D)
  /\ SetCompleted(full, IF t_verifier[Primary] = "None" THEN "Verified" ELSE "Complete")
  /\ UNCHANGED <<s_networks, t_verifier, file_state, registered, stored, rotted, saved, raised>>

-----------------------------------------------------------------------------
(* Verification *)

\* Mutant: the primary keeps the result to itself.
NoVerifiedBlocks(t, J) == {}

\* Blocks that set_frontend_state_verified changes: only the primary passes
\* the result on, and set_verified_block skips VerifiedBlocks.
VerifiedBlocks(t, J) ==
  {x \in Bytes : /\ t = Primary /\ ChunkOf(t, x) \in J
                 /\ s_blocks[x] # "Verified"}

\* set_frontend_state_verified over the chunks J of t, none verified yet. The
\* result goes on to the blocks, and from there to the secondaries
\* (set_swarmer_state_verified): a chunk all of whose blocks are verified
\* becomes complete, for the secondary to verify, or verified if the
\* secondary has no verifier.
SetVerified(t, J) ==
  LET V == VerifiedBlocks(t, J)
      sb == Put(s_verified_bitmap, V, "verified")
      below == {"missing", "partial", "complete"}
      trusts(u) == t_verifier[u] \in {"None", "NotAvailable"}
      passed(u) == {k \in Touched(u, V) :
                      /\ u \in s_networks \ {Primary}
                      /\ t_verifier[Primary] \notin {"None", "NotAvailable"}
                      /\ AllBlocksAre(sb, u, k, "verified")
                      /\ t_bitmap[u][k] \in IF trusts(u) THEN below
                                            ELSE {"missing", "partial"}}
      started(u) == {k \in passed(u) \cup (IF u = t THEN J ELSE {}) :
                       t_bitmap[u][k] \in {"missing", "partial"}} IN
  /\ s_blocks' = Put(s_blocks, V, "Verified")
  /\ CloseRanges(V)
  /\ s_verified_bitmap' = sb
  /\ t_bitmap' = [u \in Frontends |->
       IF u = t THEN Put(t_bitmap[u], J, "verified")
       ELSE Put(t_bitmap[u], passed(u), IF trusts(u) THEN "verified" ELSE "complete")]
  /\ t_ncomplete_chunks' = [u \in Frontends |->
       t_ncomplete_chunks[u] + Cardinality(started(u))]
  /\ t_nverified_chunks' = [u \in Frontends |->
       t_nverified_chunks[u] + (IF u = t THEN Cardinality(J)
                                ELSE IF trusts(u) THEN Cardinality(passed(u)) ELSE 0)]
  /\ file_downloaded' = Credit(Primary,
       Cardinality({x \in V : s_blocks[x] = "Empty"} \cup (ranges \cap V)))
  /\ UNCHANGED raised

\* Chunks of t on which set_frontend_state_missing raises before it changes
\* anything (a block is State_verified), and the ones where it meets a
\* VerifiedBlock after it has reset the chunk and the blocks above it.
Refused(t, J) == {j \in J : \E x \in BytesOf(t, j) : s_verified_bitmap[x] = "verified"}
Halting(t, J) == {j \in J : /\ AllBlocksAre(s_verified_bitmap, t, j, "complete")
                            /\ \E x \in BytesOf(t, j) : s_blocks[x] = "Verified"}

\* set_frontend_state_missing over the complete chunks J of t, in order, up
\* to the first one that raises.
SetMissing(t, J) ==
  LET bad == Refused(t, J) \cup Halting(t, J)
      K == {j \in J \ Refused(t, J) : \A i \in bad : j <= i}
      full == {j \in K : AllBlocksAre(s_verified_bitmap, t, j, "complete")}
      R == {x \in Bytes :
              /\ ChunkOf(t, x) \in full
              /\ \A y \in BytesOf(t, ChunkOf(t, x)) : s_blocks[y] = "Verified" => y < x}
      dropped == {x \in R : s_blocks[x] = "Complete"}
      M == dropped \cup {x \in R : s_blocks[x] = "Empty"}
      sb == Put(s_verified_bitmap, M, "missing")
      own == [j \in Bytes |-> IF j \in full THEN "missing"
                              ELSE IF j \in K THEN "partial" ELSE t_bitmap[t][j]]
      emptied(u) == {k \in Touched(u, M) : /\ u \in s_networks
                                           /\ t_bitmap[u][k] = "partial"
                                           /\ AllBlocksAre(sb, u, k, "missing")} IN
  /\ s_blocks' = Put(s_blocks, dropped, "Empty")
  /\ s_verified_bitmap' = sb
  /\ t_bitmap' = [u \in Frontends |->
       IF u = t THEN own ELSE Put(t_bitmap[u], emptied(u), "missing")]
  /\ t_ncomplete_chunks' = AddComplete(t, 0 - Cardinality(K))
  /\ file_downloaded' = Credit(Primary, 0 - Cardinality(dropped))
  /\ raised' = raised \cup {<<t, IF j \in Halting(t, J) THEN "VerifiedBlock" ELSE "State_verified">> :
                            j \in {i \in bad : \A k \in bad : i <= k}}
  /\ UNCHANGED <<ranges, t_nverified_chunks>>

\* verify_chunk: hash what is on disk, after a flush, and mark the chunk. A
\* frontend with one hash for the file waits until every chunk is complete.
VerifyChunk(t, j) ==
  /\ t \in s_networks
  /\ t_bitmap[t][j] = "complete"
  /\ \/ /\ t_verifier[t] = "Force"
        /\ SetVerified(t, {j})
        /\ UNCHANGED <<buffered, stored, env>>
     \/ /\ t_verifier[t] = "Chunks"
        /\ \E result \in BOOLEAN :
             /\ FileVerify(BytesOf(t, j), result)
             /\ IF result THEN SetVerified(t, {j}) ELSE SetMissing(t, {j})
        /\ FlushFd
     \/ /\ t_verifier[t] = "Whole"
        /\ \A k \in Chunks(t) : t_bitmap[t][k] \in {"complete", "verified"}
        /\ \E result \in BOOLEAN :
             /\ FileVerify(Bytes, result)
             /\ IF result THEN SetVerified(t, CompleteChunks(t))
                          ELSE SetMissing(t, CompleteChunks(t))
        /\ FlushFd
  /\ UNCHANGED <<s_networks, t_verifier, file_state, registered, good, rotted, saved>>

\* verify_some_chunks, the minute timer: the first complete chunk of the
\* first frontend that has one, the primary being the first. The order of
\* the secondaries among themselves is left open.
FirstToVerify(t, j) ==
  /\ t \in s_networks /\ j \in CompleteChunks(t)
  /\ \A k \in CompleteChunks(t) : j <= k
  /\ t # Primary => CompleteChunks(Primary) = {}

VerifySomeChunks ==
  registered /\ \E t \in Frontends : \E j \in Chunks(t) :
                  FirstToVerify(t, j) /\ VerifyChunk(t, j)

\* verify_all_chunks: every block is tagged complete, to be verified again.
\* s_blocks is left alone, the size of a missing block is counted as
\* downloaded, and a verified chunk of the primary becomes complete.
VerifyAllChunks ==
  LET M == {x \in Bytes : s_verified_bitmap[x] = "missing"}
      V == {x \in Bytes : s_verified_bitmap[x] = "verified"}
      sb == Put(s_verified_bitmap, M \cup V, "complete")
      E == Escalated(sb, M)
      demoted == {j \in Touched(Primary, V) : t_bitmap[Primary][j] = "verified"} IN
  /\ Spend("recheck")
  /\ \E t \in s_networks : file_state[t] = "FileDownloading"
  /\ s_verified_bitmap' = sb
  /\ t_bitmap' = [t_bitmap EXCEPT ![Primary] = Put(@, E \cup demoted, "complete")]
  /\ t_ncomplete_chunks' = AddComplete(Primary, Cardinality(E))
  /\ t_nverified_chunks' = [t_nverified_chunks EXCEPT ![Primary] = @ - Cardinality(demoted)]
  /\ file_downloaded' = Credit(Primary, Cardinality(M))
  /\ UNCHANGED <<s_networks, s_blocks, ranges, t_verifier, file_state, registered,
                 disk, saved, raised>>

\* set_verifier: eDonkey learns the hashes of the chunks, Gnutella the hash
\* of the file. Its call of set_chunks_verified_bitmap on the frontend's own
\* bitmap changes nothing.
SetVerifier(t) ==
  /\ \/ /\ t_verifier[t] = "NotAvailable"
        /\ t_verifier' = [t_verifier EXCEPT ![t] = "Chunks"]
        /\ UNCHANGED env
     \/ /\ t_verifier[t] = "Force"
        /\ t_verifier' = [t_verifier EXCEPT ![t] = "Whole"]
        /\ Spend("hash")
  /\ UNCHANGED <<s_networks, bitmaps, file_downloaded, file_state, registered,
                 disk, saved, raised>>

\* duplicate_chunks, propagate_chunk: a verified chunk of another download,
\* with the same hash, is copied into chunk j of t; both files are flushed.
PropagateChunk(t, j) ==
  LET D == {x \in BytesOf(t, j) : s_blocks[x] \in {"Empty", "Partial"}} IN
  /\ registered /\ t \in s_networks
  /\ t_verifier[t] = "Chunks"
  /\ t_bitmap[t][j] \in {"missing", "partial"}
  /\ Spend("copy")
  /\ good' = good \cup BytesOf(t, j)
  /\ buffered' = {} /\ stored' = stored \cup buffered \cup BytesOf(t, j)
  /\ SetCompleted(D, "Complete")
  /\ CloseRanges(D)
  /\ file_downloaded' = Credit(Primary, Cardinality(D \ Present))
  /\ UNCHANGED <<s_networks, t_verifier, file_state, registered, rotted, saved, raised>>

-----------------------------------------------------------------------------
(* Merging a second frontend: merge, associate false, split_blocks *)

\* Mutant: the list is replaced, not extended.
AssociatedAlone(t) == {t}

\* associate: the frontends once t is one of them.
Associated(t) == s_networks \cup {t}

\* Mutant: a piece without a hole stays a PartialBlock.
NoFullPieces(nets) == {}

\* split_blocks for the frontends nets: the bytes of the PartialBlocks that
\* are cut, of the pieces without a hole and of the pieces that are all hole.
Cut(nets) == {x \in Bytes : s_blocks[x] = "Partial" /\ BlockIn(nets, x) # Block(x)}
FullPieces(nets) == {x \in Cut(nets) : BlockIn(nets, x) \cap ranges = {}}
VoidPieces(nets) == {x \in Cut(nets) : BlockIn(nets, x) \subseteq ranges}

\* Mutant: the pieces keep the state of the block they were cut from.
UncutBitmap(full, void) == s_verified_bitmap

\* s_verified_bitmap after split_blocks.
SplitBitmap(full, void) ==
  Put(Put(s_verified_bitmap, full, "complete"), void, "missing")

\* merge: the blocks are cut at the chunk boundaries of t; a piece without a
\* hole is complete, one that is all hole empty, and the primary is not told.
\* The bitmap of t starts again, its counters do not.
Merge(t) ==
  LET nets == Associated(t)
      full == FullPieces(nets)
      void == VoidPieces(nets) IN
  /\ t \notin s_networks
  /\ t_verifier[Primary] \in Hashing \cup {"Force"}
  /\ \A u \in nets : file_state[u] = "FileDownloading"
  /\ s_networks' = nets
  /\ s_blocks' = Put(Put(s_blocks, full, "Complete"), void, "Empty")
  /\ s_verified_bitmap' = SplitBitmap(full, void)
  /\ CloseRanges(void)
  /\ t_bitmap' = [t_bitmap EXCEPT ![t] = [j \in Bytes |-> "missing"]]
  /\ file_downloaded' = [file_downloaded EXCEPT ![t] = 0]
  /\ UNCHANGED <<t_ncomplete_chunks, t_nverified_chunks, t_verifier, file_state,
                 registered, disk, saved, raised, env>>

-----------------------------------------------------------------------------
(* Buffers, ini files, crashes *)

\* Unix32.flush, from its timer.
Flush ==
  /\ buffered # {}
  /\ FlushFd
  /\ UNCHANGED <<s_networks, bitmaps, t_verifier, file_downloaded, file_state,
                 registered, good, rotted, saved, raised, env>>

\* save_config: flush, then frontend_to_value of every frontend and
\* swarmer_to_value. A flush that fails is only logged.
Save(flushed) ==
  /\ Spend(IF flushed THEN "save" ELSE "unflushed")
  /\ registered /\ \A t \in s_networks : file_state[t] = "FileDownloading"
  /\ saved' = Snapshot
  /\ IF flushed THEN FlushFd ELSE UNCHANGED <<buffered, stored>>
  /\ UNCHANGED <<s_networks, bitmaps, t_verifier, file_downloaded, file_state,
                 registered, good, rotted, raised>>

\* Mutant: the last chunk is forgotten.
HeldButLast(t, v) == {j \in Chunks(t) : j + 1 \in Chunks(t) /\ saved.bitmap[t][j] = v}

\* Chunks of t that the ini files hold with state v (file_chunks).
Held(t, v) == {j \in Chunks(t) : saved.bitmap[t][j] = v}

\* Mutant: the interval must go on after the end of the block.
WellWithinPresent(nets, x) ==
  /\ BlockIn(nets, x) \subseteq saved.present
  /\ \E y \in saved.present : \A z \in BlockIn(nets, x) : z < y

\* set_present: the block of x lies within a present interval.
WithinPresent(nets, x) == BlockIn(nets, x) \subseteq saved.present

\* Mutant: the last chunk is forgotten.
WholeButLast(C) ==
  {j \in Chunks(Primary) : j + 1 \in Chunks(Primary) /\ BytesOf(Primary, j) \subseteq C}

\* Chunks of the primary all of whose blocks (the bytes C) are complete.
WholeChunks(C) == {j \in Chunks(Primary) : BytesOf(Primary, j) \subseteq C}

\* A crash, then value_to_swarmer (blocks are cut for every saved frontend)
\* and value_to_frontend, the primary first: its verified chunks become
\* VerifiedBlocks, its complete ones CompleteBlocks, the rest follows the
\* present intervals (set_present). A secondary gets its verified chunks back.
\* A temporary file that is gone is created again, and nothing else changes:
\* set_chunks_verified_bitmap ignores the missing chunks it is given.
Restart(lost) ==
  LET nets == saved.networks
      V == {x \in Bytes : ChunkOf(Primary, x) \in Held(Primary, "verified")}
      C == {x \in Bytes \ V :
              \/ \E t \in nets : ChunkOf(t, x) \in Held(t, "complete")
              \/ WithinPresent(nets, x)}
      P == {x \in Bytes \ (V \cup C) : BlockIn(nets, x) \cap saved.present # {}}
      blocks == [x \in Bytes |-> IF x \in V THEN "Verified" ELSE IF x \in C THEN "Complete"
                                 ELSE IF x \in P THEN "Partial" ELSE "Empty"]
      whole == WholeChunks(C)
      verified(t) == IF t \in nets THEN Held(t, "verified") ELSE {} IN
  /\ Spend(IF lost THEN "lost" ELSE "crash")
  /\ s_networks' = nets
  /\ s_blocks' = blocks
  /\ ranges' = P \ saved.present
  /\ s_verified_bitmap' = [x \in Bytes |->
       IF x \in V THEN "verified" ELSE IF x \in C THEN "complete"
       ELSE IF x \in P THEN "partial" ELSE "missing"]
  /\ t_bitmap' = [t \in Frontends |-> [j \in Bytes |->
       IF j \in verified(t) THEN "verified"
       ELSE IF t = Primary /\ j \in whole THEN "complete"
       ELSE IF t = Primary /\ j \in Touched(Primary, P) THEN "partial" ELSE "missing"]]
  /\ \E solo \in [Frontends -> SoloChunks \cup {0}] :
       /\ t_nverified_chunks' = [t \in Frontends |->
            IF t \in nets THEN Cardinality(verified(t)) ELSE solo[t]]
       /\ t_ncomplete_chunks' = [t \in Frontends |->
            IF t = Primary THEN Cardinality(verified(t) \cup whole)
            ELSE IF t \in nets THEN Cardinality(verified(t)) ELSE solo[t]]
  /\ t_verifier' = saved.verifier
  /\ file_downloaded' = [t \in Frontends |->
       IF t = Primary THEN Cardinality(V \cup C \cup (P \cap saved.present)) ELSE 0]
  /\ file_state' = [t \in Frontends |-> "FileDownloading"]
  /\ registered' = TRUE
  /\ good' = IF lost THEN {} ELSE good \ buffered
  /\ stored' = IF lost THEN {} ELSE stored
  /\ buffered' = {}
  /\ UNCHANGED <<rotted, saved, raised>>

\* The disk damages a byte (external).
Rot(x) ==
  /\ x \in good \ buffered
  /\ Spend("rot")
  /\ good' = good \ {x}
  /\ rotted' = rotted \cup {x}
  /\ UNCHANGED <<s_networks, bitmaps, t_verifier, file_downloaded, file_state,
                 registered, buffered, stored, saved, raised>>

\* check_finished and download_finished of the network: every chunk of t is
\* verified (without verification: every byte is counted as downloaded).
\* remove_swarmer only refuses for a primary that has secondaries.
Finish(t) ==
  /\ t \in s_networks /\ file_state[t] = "FileDownloading"
  /\ IF t_verifier[t] = "None" THEN file_downloaded[t] = Size
     ELSE \A j \in Chunks(t) : t_bitmap[t][j] = "verified"
  /\ file_state' = [file_state EXCEPT ![t] = "FileDownloaded"]
  /\ registered' = (registered /\ t = Primary /\ s_networks # {Primary})
  /\ UNCHANGED <<s_networks, bitmaps, t_verifier, file_downloaded, disk, saved,
                 raised, env>>

-----------------------------------------------------------------------------
Next ==
  \/ \E x \in Bytes : NewBlock(x) \/ Rot(x)
  \/ \E u \in Frontends : \E a, b \in Bytes : \E ok \in BOOLEAN : Received(u, a, b, ok)
  \/ \E t \in Frontends : \/ \E j \in Chunks(t) : VerifyChunk(t, j) \/ PropagateChunk(t, j)
                          \/ SetVerifier(t) \/ Merge(t) \/ Finish(t)
  \/ VerifySomeChunks
  \/ VerifyAllChunks
  \/ Flush
  \/ \E flushed \in BOOLEAN : Save(flushed)
  \/ \E lost \in BOOLEAN : Restart(lost)

Spec == Init /\ [][Next]_vars

\* Clients that still have the data keep sending it, the timers run, the
\* networks learn the hashes and look for finished files.
Fairness ==
  /\ WF_vars(\E x \in Bytes : NewBlock(x))
  /\ WF_vars(\E u \in Frontends : \E a, b \in Bytes : Received(u, a, b, TRUE))
  /\ WF_vars(VerifySomeChunks)
  /\ WF_vars(\E t \in Frontends : SetVerifier(t)) /\ WF_vars(\E t \in Frontends : Finish(t))

FairSpec == Spec /\ Fairness

-----------------------------------------------------------------------------
(* Properties *)

Chosen(t, x) == t_bitmap[t][ChunkOf(t, x)]

\* The types of the variables; counters may leave the naturals only if the
\* code subtracts too much.
TypeOK ==
  /\ s_networks \subseteq Frontends /\ Primary \in s_networks
  /\ s_blocks \in [Bytes -> BlockState]
  /\ ranges \subseteq Bytes
  /\ s_verified_bitmap \in [Bytes -> VBState]
  /\ t_bitmap \in [Frontends -> [Bytes -> VBState]]
  /\ t_ncomplete_chunks \in [Frontends -> Int]
  /\ t_nverified_chunks \in [Frontends -> Int]
  /\ t_verifier \in [Frontends -> Verifiers]
  /\ file_downloaded \in [Frontends -> Int]
  /\ file_state \in [Frontends -> FileState]
  /\ registered \in BOOLEAN /\ raised \subseteq Frontends \X {"State_verified", "VerifiedBlock"}
  /\ good \subseteq Bytes /\ buffered \subseteq Bytes
  /\ stored \subseteq Bytes /\ rotted \subseteq Bytes
  /\ saved \in [networks : SUBSET Frontends, bitmap : [Frontends -> [Bytes -> VBState]],
                present : SUBSET Bytes, verifier : [Frontends -> Verifiers]]
  /\ Primary \in saved.networks
  /\ env \in [EnvKinds -> Nat]

\* The primary verifies, always did, and keeps its temporary file.
Trusted == /\ t_verifier[Primary] \in Hashing \cup {"NotAvailable"}
           /\ EnvBound["hash"] = 0 /\ EnvBound["lost"] = 0

\* What the primary or s_blocks calls verified has the content the hashes
\* expect, or was damaged on disk since: no interleaving of corrupt data,
\* merges, buffered writes, saves and crashes makes verify_chunk's result
\* outlive the data it is about.
VerifiedDataIsGood ==
  Trusted => \A x \in Bytes :
    s_blocks[x] = "Verified" \/ Chosen(Primary, x) = "verified" => x \in good \cup rotted

\* The same for the chunks of the secondaries, which take the primary's word
\* (set_swarmer_state_verified) or verify for themselves.
SecondaryVerifiedIsGood ==
  Trusted => \A t \in s_networks : \A x \in Bytes :
    Chosen(t, x) = "verified" => x \in good \cup rotted

\* The "swarmer invariants ?" comment: s_verified_bitmap tells the same as
\* s_blocks.
SwarmerInvariant ==
  \A x \in Bytes :
    /\ s_verified_bitmap[x] = "missing" <=> s_blocks[x] = "Empty"
    /\ s_verified_bitmap[x] = "partial" <=> s_blocks[x] = "Partial"
    /\ s_verified_bitmap[x] = "complete" <=> s_blocks[x] = "Complete"
    /\ s_verified_bitmap[x] = "verified" <=> s_blocks[x] = "Verified"

\* check_swarmer on the primary: a chunk is verified exactly when its blocks
\* are (a primary without verifier never says so).
PrimaryCoherent ==
  t_verifier[Primary] # "None" =>
    \A x \in Bytes : Chosen(Primary, x) = "verified" <=> s_verified_bitmap[x] = "verified"

\* check_swarmer on the secondaries: nothing is complete or verified there
\* that the primary has not verified.
SecondaryCoherent ==
  \A t \in s_networks \ {Primary} : \A x \in Bytes :
    Chosen(t, x) \in {"complete", "verified"} => s_verified_bitmap[x] = "verified"

\* The "frontend invariants ?" comment: the counters count the bitmap, which
\* compute_bitmap relies on to find chunks to verify.
FrontendInvariant ==
  \A t \in s_networks :
    /\ t_ncomplete_chunks[t] =
         Cardinality({j \in Chunks(t) : t_bitmap[t][j] \in {"complete", "verified"}})
    /\ t_nverified_chunks[t] =
         Cardinality({j \in Chunks(t) : t_bitmap[t][j] = "verified"})

\* The downloaded size of the primary's file is the size of the data it has:
\* every failed verification, split, copy and restart gives back what it took.
DownloadedIsPresent == file_downloaded[Primary] = Cardinality(Present)

\* A PartialBlock has a hole, and only PartialBlocks have. A PartialBlock
\* without one would never be asked for again and never complete.
PartialBlocksHaveHoles ==
  \A x \in Bytes : s_blocks[x] = "Partial" <=> Block(x) \cap ranges # {}

\* No chunk is forgotten: when all the blocks of a primary chunk are complete
\* the chunk is, so that a timer verifies it.
CompletionEscalates ==
  \A j \in Chunks(Primary) :
    (\A x \in BytesOf(Primary, j) : s_blocks[x] = "Complete")
      => t_bitmap[Primary][j] = "complete"

\* A chunk of the primary whose verification fails has no verified block, so
\* that neither assertion of set_frontend_state_missing fails: whatever was
\* split, copied, merged and verified for others, a chunk of the primary that
\* waits for verification stays one that can be given up. For a secondary
\* only the first assertion may fail.
PrimaryCanFail == \A r \in raised : r[1] # Primary /\ r[2] = "State_verified"

\* commonSwarming.ml:1382 asserts it for the secondaries too. It fails: the
\* chunks that a secondary verifies are made of verified blocks.
SecondariesCanFail == raised = {}

\* What the ini files call verified is verified in memory, whatever was
\* received, merged or restored since the last save.
SavedStaysVerified ==
  \A j \in Chunks(Primary) :
    saved.bitmap[Primary][j] = "verified" => t_bitmap[Primary][j] = "verified"

\* Every byte of a finished file was written to the file, or is about to be,
\* also when the network trusts the downloaded size instead of a verification
\* (fileTP): no split, copy, failed verification or restart lets a byte count
\* that never was. But for a temporary file that was lost, and for a save
\* whose flush failed: the ini files then promise what a crash takes away.
FinishedIsStored ==
  file_state[Primary] = "FileDownloaded" /\ env["lost"] = 0 /\ env["unflushed"] = 0
    => stored \cup buffered = Bytes

\* The file is finished in the end, if faults stop: whatever was corrupted,
\* lost or split on the way, no chunk of the primary is left behind.
PrimaryFinishes == <>[](file_state[Primary] = "FileDownloaded")

\* The comment on the bitmaps: when the primary has verified the blocks of a
\* chunk of a secondary, that chunk is tagged complete (or verified).
SecondaryIsTagged ==
  \A t \in s_networks \ {Primary} : \A k \in Chunks(t) :
    (\A x \in BytesOf(t, k) : s_verified_bitmap[x] = "verified")
      => t_bitmap[t][k] \in {"complete", "verified"}

\* After "re-created missing temp file of %s , resetting chunk status to
\* missing" no chunk is anything else.
RecreatedFileIsMissing ==
  [][env'["lost"] # env["lost"] =>
       \A j \in Chunks(Primary) : t_bitmap'[Primary][j] = "missing"]_vars

=============================================================================
