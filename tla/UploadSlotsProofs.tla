------------------------- MODULE UploadSlotsProofs -------------------------
(***************************************************************************)
(* Proofs about UploadSlots, for every set of clients and every value of   *)
(* the options and bounds.                                                 *)
(***************************************************************************)
EXTENDS UploadSlots, FiniteSetTheorems, TLAPS

-----------------------------------------------------------------------------
(* The operators the model is built from *)

\* Sets of clients can be counted.
LEMMA ClientsCardinality ==
  ASSUME NEW S, S \subseteq Clients
  PROVE  IsFiniteSet(S) /\ Cardinality(S) \in Nat
BY SlotsAssumption, FS_Subset, FS_CardinalityType

LEMMA LeastType ==
  ASSUME NEW a \in Int, NEW b \in Int
  PROVE  /\ Least(a, b) \in Int
         /\ Least(a, b) <= a /\ Least(a, b) <= b
         /\ Least(a, b) = a \/ Least(a, b) = b
BY DEF Least

LEMMA GivenType ==
  ASSUME NEW sl \in [Clients -> SlotKinds], NEW S, NEW kind \in SlotKinds
  PROVE  Given(sl, S, kind) \in [Clients -> SlotKinds]
BY DEF Given

LEMMA TakenType ==
  ASSUME slot \in [Clients -> SlotKinds], NEW S
  PROVE  Taken(S) \in [Clients -> SlotKinds]
BY DEF Taken, SlotKinds

\* Taking slots away leaves fewer uploaders, of every kind.
LEMMA TakenUploaders ==
  ASSUME slot \in [Clients -> SlotKinds], NEW S
  PROVE  /\ Uploaders(Taken(S)) = Uploaders(slot) \ S
         /\ \A kind \in SlotKinds \ {"NoSlot"} : Holding(Taken(S), kind) = Holding(slot, kind) \ S
BY DEF Uploaders, Holding, Taken

\* Only a client without a slot gets one.
LEMMA GivenUploaders ==
  ASSUME NEW sl \in [Clients -> SlotKinds], NEW S, S \subseteq Clients,
         NEW kind \in SlotKinds \ {"NoSlot"}
  PROVE  /\ Uploaders(Given(sl, S, kind)) = Uploaders(sl) \cup S
         /\ Holding(Given(sl, S, kind), kind) = Holding(sl, kind) \cup (S \ Uploaders(sl))
         /\ \A k \in SlotKinds \ {kind, "NoSlot"} :
              Holding(Given(sl, S, kind), k) = Holding(sl, k)
BY DEF Uploaders, Holding, Given

LEMMA DroppedType ==
  ASSUME client_upload \in [Clients -> Uploads], NEW S
  PROVE  Dropped(S) \in [Clients -> Uploads]
BY StreamAssumption DEF Dropped, Uploads, None

\* Uploads with any set N of numbers of blocks.
UploadsOf(N) == [some : BOOLEAN, up_chunks : N, up_waiting : BOOLEAN, up_finish : BOOLEAN]

LEMMA UploadsUpdate ==
  ASSUME NEW N, NEW u \in UploadsOf(N), NEW n \in N,
         NEW b \in BOOLEAN, NEW w \in BOOLEAN, NEW f \in BOOLEAN
  PROVE  /\ [u EXCEPT !.up_finish = f, !.up_chunks = n] \in UploadsOf(N)
         /\ [u EXCEPT !.some = b, !.up_waiting = w, !.up_finish = f] \in UploadsOf(N)
         /\ [u EXCEPT !.up_chunks = n, !.up_waiting = w] \in UploadsOf(N)
         /\ [u EXCEPT !.some = b] \in UploadsOf(N)
         /\ [u EXCEPT !.up_waiting = w] \in UploadsOf(N)
BY DEF UploadsOf

LEMMA NoneType == None \in Uploads
BY StreamAssumption DEF Uploads, None

LEMMA NewChunkType ==
  ASSUME NEW u \in UploadsOf(Nat), NEW k \in Nat, NEW e \in BOOLEAN, NEW complete \in BOOLEAN
  PROVE  NewChunk(u, k, e, complete) \in UploadsOf(Nat)
<1>1. (u.up_finish \/ e) \in BOOLEAN
  OBVIOUS
<1>2. u.up_chunks + (IF u.up_finish /\ complete THEN 0 ELSE k) \in Nat
  BY DEF UploadsOf
<1> QED
  BY <1>1, <1>2, UploadsUpdate DEF NewChunk

LEMMA BoundedUploads ==
  /\ Uploads = UploadsOf(0 .. MaxChunks)
  /\ Uploads \subseteq UploadsOf(Nat)
  /\ \A u \in UploadsOf(Nat) : u.up_chunks <= MaxChunks => u \in Uploads
BY StreamAssumption DEF Uploads, UploadsOf

LEMMA LoopUpdate ==
  ASSUME NEW l \in [n : Nat, old : Int, running : BOOLEAN], NEW i \in Nat, NEW o \in Int
  PROVE  /\ [l EXCEPT !.n = i] \in [n : Nat, old : Int, running : BOOLEAN]
         /\ [l EXCEPT !.n = i, !.old = o] \in [n : Nat, old : Int, running : BOOLEAN]
OBVIOUS

-----------------------------------------------------------------------------
(* Refilling *)

\* What refill_upload_slots does to the slots sl and the waiting clients pe:
\* some of the waiting ones get a NormalSlot, at most up to max_upload_slots
\* uploaders, and no longer wait.
RefillResult(sl, pe) ==
  \E S \in SUBSET (pe \cap connected) :
    /\ slot' = Given(sl, S, "NormalSlot")
    /\ pending_slots_map' \subseteq pe \ S
    /\ S = {} \/ Cardinality(Uploaders(sl)) + Cardinality(S) <= max_upload_slots

LEMMA FindPendingSlotsResult ==
  ASSUME NEW sl \in [Clients -> SlotKinds], NEW pe, pe \subseteq Clients, NEW n \in Nat,
         Cardinality(Uploaders(sl)) + n <= max_upload_slots,
         FindPendingSlots(sl, pe, n)
  PROVE  RefillResult(sl, pe)
<1>1. PICK S \in SUBSET (pe \cap connected), D \in SUBSET (pe \ connected) :
        /\ Cardinality(S) = Least(n, Cardinality(pe \cap connected))
        /\ slot' = Given(sl, S, "NormalSlot")
        /\ pending_slots_map' = pe \ (S \cup D)
  BY DEF FindPendingSlots
<1>2. Cardinality(S) \in Nat /\ Cardinality(pe \cap connected) \in Nat
  BY <1>1, ClientsCardinality
<1>3. Cardinality(S) <= n
  BY <1>1, <1>2, LeastType
<1>4. Cardinality(Uploaders(sl)) \in Nat
  BY ClientsCardinality DEF Uploaders
<1>5. Cardinality(Uploaders(sl)) + Cardinality(S) <= max_upload_slots
  BY <1>2, <1>3, <1>4, SlotsAssumption
<1> QED
  BY <1>1, <1>5 DEF RefillResult

LEMMA RefilledResult ==
  ASSUME NEW sl \in [Clients -> SlotKinds], NEW pe, Refilled(sl, pe)
  PROVE  RefillResult(sl, pe)
<1>1. sl = Given(sl, {}, "NormalSlot")
  BY DEF Given
<1> QED
  BY <1>1 DEF RefillResult, Refilled

\* The counters of the dynamic refill have their types.
RefillOK ==
  turn \in Int /\ not_saturated_count \in 0 .. 2 /\ allocation_cluster \in Nat

LEMMA RefillUploadSlotsResult ==
  ASSUME RefillOK, NEW sl \in [Clients -> SlotKinds], NEW pe, pe \subseteq Clients,
         RefillUploadSlots(sl, pe)
  PROVE  RefillResult(sl, pe) /\ RefillOK'
<1> DEFINE len == Cardinality(Uploaders(sl))
<1>1. len \in Nat
  BY ClientsCardinality DEF Uploaders
<1>2. CASE has_upload # 0
  BY <1>2, RefilledResult DEF RefillUploadSlots, refill, RefillOK
<1>3. CASE has_upload = 0
  <2>1. turn' \in Int
    BY <1>3, SlotsAssumption DEF RefillUploadSlots, RefillOK
  <2>2. CASE StaticRefill(sl, pe)
    <3>1. RefillResult(sl, pe)
      <4>1. CASE len < max_upload_slots
        <5>1. len + 1 <= max_upload_slots
          BY <1>1, <4>1, SlotsAssumption
        <5>2. FindPendingSlots(sl, pe, 1)
          BY <2>2, <4>1 DEF StaticRefill
        <5> QED
          BY <5>1, <5>2, FindPendingSlotsResult
      <4>2. CASE ~(len < max_upload_slots)
        BY <2>2, <4>2, RefilledResult DEF StaticRefill
      <4> QED
        BY <4>1, <4>2
    <3> QED
      BY <2>1, <2>2, <3>1 DEF StaticRefill, RefillOK
  <2>3. CASE DynamicRefill(sl, pe)
    <3>1. CASE /\ len >= max_upload_slots
               /\ Refilled(sl, pe)
               /\ UNCHANGED <<not_saturated_count, allocation_cluster>>
      BY <2>1, <3>1, RefilledResult DEF RefillOK
    <3>2. CASE /\ len < min_upload_slots /\ len < max_upload_slots
               /\ FindPendingSlots(sl, pe, min_upload_slots - len)
               /\ not_saturated_count' = 0 /\ allocation_cluster' = 1
      <4>1. /\ min_upload_slots - len \in Nat
            /\ len + (min_upload_slots - len) <= max_upload_slots
        BY <1>1, <3>2, SlotsAssumption
      <4>2. RefillResult(sl, pe)
        BY <3>2, <4>1, FindPendingSlotsResult
      <4> QED
        BY <2>1, <3>2, <4>2 DEF RefillOK
    <3>3. CASE /\ len >= min_upload_slots /\ len < max_upload_slots
               /\ \E room \in BOOLEAN :
                    /\ not_saturated_count' = IF room THEN Least(not_saturated_count + 1, 2) ELSE 0
                    /\ IF not_saturated_count' = 2
                       THEN /\ FindPendingSlots(sl, pe,
                                 Least(allocation_cluster, max_upload_slots - len))
                            /\ allocation_cluster' = Least(allocation_cluster + 1, max_upload_slots)
                       ELSE /\ Refilled(sl, pe)
                            /\ allocation_cluster' = IF room THEN allocation_cluster ELSE 1
      <4> DEFINE n == Least(allocation_cluster, max_upload_slots - len)
      <4>1. n \in Nat /\ len + n <= max_upload_slots
        BY <1>1, <3>3, SlotsAssumption DEF RefillOK, Least
      <4>2. FindPendingSlots(sl, pe, n) \/ Refilled(sl, pe)
        BY <3>3
      <4>3. RefillResult(sl, pe)
        BY <4>1, <4>2, FindPendingSlotsResult, RefilledResult
      <4>4. not_saturated_count' \in 0 .. 2 /\ allocation_cluster' \in Nat
        BY <3>3, SlotsAssumption DEF RefillOK, Least
      <4> QED
        BY <2>1, <4>3, <4>4 DEF RefillOK
    <3> QED
      BY <2>3, <3>1, <3>2, <3>3 DEF DynamicRefill
  <2>4. CASE Refilled(sl, pe) /\ UNCHANGED <<not_saturated_count, allocation_cluster>>
    BY <2>1, <2>4, RefilledResult DEF RefillOK
  <2> QED
    BY <1>3, <2>2, <2>3, <2>4 DEF RefillUploadSlots
<1> QED
  BY <1>2, <1>3

-----------------------------------------------------------------------------
(* The limits on the slots *)

\* SlotLimits for the slots sl.
Limits(sl) ==
  /\ Cardinality(Holding(sl, "NormalSlot")) <= max_upload_slots
  /\ Cardinality(Holding(sl, "FriendSlot")) <= 1
  /\ Cardinality(Holding(sl, "SmallFileSlot")) <= 1
  /\ Cardinality(Holding(sl, "ReleaseSlot")) <= allowed_release_slots

\* A smaller set of clients has a smaller cardinality.
LEMMA FewerClients ==
  ASSUME NEW S, NEW T, S \subseteq Clients, T \subseteq S, NEW n \in Int, Cardinality(S) <= n
  PROVE  Cardinality(T) <= n
<1>1. Cardinality(S) \in Nat /\ Cardinality(T) \in Nat /\ Cardinality(T) <= Cardinality(S)
  BY ClientsCardinality, FS_Subset
<1> QED
  BY <1>1

\* Slots of the kinds in K that are taken away leave the limits as they are;
\* the other kinds are given.
LEMMA FewerSlots ==
  ASSUME NEW sl, NEW sm, Limits(sl),
         \A kind \in SlotKinds \ {"NoSlot"} : Holding(sm, kind) \subseteq Holding(sl, kind)
  PROVE  Limits(sm)
<1>1. \A kind \in SlotKinds \ {"NoSlot"} :
        Holding(sm, kind) \subseteq Holding(sl, kind) /\ Holding(sl, kind) \subseteq Clients
  BY DEF Holding
<1>2. Cardinality(Holding(sm, "NormalSlot")) <= max_upload_slots
  BY <1>1, FewerClients, SlotsAssumption DEF Limits, SlotKinds
<1>3. Cardinality(Holding(sm, "FriendSlot")) <= 1
  BY <1>1, FewerClients DEF Limits, SlotKinds
<1>4. Cardinality(Holding(sm, "SmallFileSlot")) <= 1
  BY <1>1, FewerClients DEF Limits, SlotKinds
<1>5. Cardinality(Holding(sm, "ReleaseSlot")) <= allowed_release_slots
  BY <1>1, FewerClients, SlotsAssumption DEF Limits, SlotKinds
<1> QED
  BY <1>2, <1>3, <1>4, <1>5 DEF Limits

\* A refill keeps the limits: with the clients S there are at most
\* max_upload_slots uploaders, of whatever kind.
LEMMA RefillLimits ==
  ASSUME NEW sl \in [Clients -> SlotKinds], NEW pe, pe \subseteq Clients,
         Limits(sl), RefillResult(sl, pe)
  PROVE  Limits(slot')
<1>1. PICK S \in SUBSET (pe \cap connected) :
        /\ slot' = Given(sl, S, "NormalSlot")
        /\ S = {} \/ Cardinality(Uploaders(sl)) + Cardinality(S) <= max_upload_slots
  BY DEF RefillResult
<1>2. S \subseteq Clients /\ "NormalSlot" \in SlotKinds \ {"NoSlot"}
  BY DEF SlotKinds
<1>3. /\ Uploaders(slot') = Uploaders(sl) \cup S
      /\ Holding(slot', "NormalSlot") = Holding(sl, "NormalSlot") \cup (S \ Uploaders(sl))
      /\ \A k \in SlotKinds \ {"NormalSlot", "NoSlot"} : Holding(slot', k) = Holding(sl, k)
  BY <1>1, <1>2 DEF Uploaders, Holding, Given
<1>4. Cardinality(Holding(slot', "NormalSlot")) <= max_upload_slots
  <2>1. CASE S = {}
    BY <1>3, <2>1 DEF Limits
  <2>2. CASE Cardinality(Uploaders(sl)) + Cardinality(S) <= max_upload_slots
    <3>1. Uploaders(sl) \subseteq Clients /\ Uploaders(sl) \cup S \subseteq Clients
      BY <1>2 DEF Uploaders
    <3>2. /\ IsFiniteSet(Uploaders(sl)) /\ IsFiniteSet(S)
          /\ Cardinality(Uploaders(sl)) \in Nat /\ Cardinality(S) \in Nat
          /\ Cardinality(Uploaders(sl) \cap S) \in Nat
      BY <1>2, <3>1, ClientsCardinality
    <3>3. Cardinality(Uploaders(sl) \cup S) <= max_upload_slots
      <4>1. Cardinality(Uploaders(sl) \cup S) =
              Cardinality(Uploaders(sl)) + Cardinality(S) - Cardinality(Uploaders(sl) \cap S)
        BY <3>2, FS_Union
      <4> QED
        BY <2>2, <3>2, <4>1, SlotsAssumption
    <3>4. Holding(slot', "NormalSlot") \subseteq Uploaders(sl) \cup S
      BY <1>3 DEF Holding, Uploaders
    <3> QED
      BY <3>1, <3>3, <3>4, FewerClients, SlotsAssumption
  <2> QED
    BY <1>1, <2>1, <2>2
<1>5. /\ Holding(slot', "FriendSlot") = Holding(sl, "FriendSlot")
      /\ Holding(slot', "SmallFileSlot") = Holding(sl, "SmallFileSlot")
      /\ Holding(slot', "ReleaseSlot") = Holding(sl, "ReleaseSlot")
  BY <1>3 DEF SlotKinds
<1> QED
  BY <1>4, <1>5 DEF Limits

\* What add_pending_slot has checked when it chooses a special slot for c.
LEMMA SpecialSlotChosen ==
  ASSUME NEW c \in Clients, NEW shared
  PROVE  \/ SpecialSlot(c, shared) \in {"NoSlot", "PrioSlot"}
         \/ /\ SpecialSlot(c, shared) = "ReleaseSlot"
            /\ Cardinality(Holding(slot, "ReleaseSlot")) < allowed_release_slots
         \/ /\ SpecialSlot(c, shared) = "FriendSlot"
            /\ Cardinality(Holding(slot, "FriendSlot")) = 0
         \/ /\ SpecialSlot(c, shared) = "SmallFileSlot"
            /\ Cardinality(Holding(slot, "SmallFileSlot")) = 0
BY DEF SpecialSlot

\* One more client in a set of clients.
LEMMA OneMoreClient ==
  ASSUME NEW S, S \subseteq Clients, NEW c \in Clients, NEW n \in Int, Cardinality(S) < n
  PROVE  Cardinality(S \cup {c}) <= n
<1>1. IsFiniteSet(S) /\ Cardinality(S) \in Nat
  BY ClientsCardinality
<1>2. Cardinality(S \cup {c}) = IF c \in S THEN Cardinality(S) ELSE Cardinality(S) + 1
  BY <1>1, FS_AddElement
<1> QED
  BY <1>1, <1>2

\* The special slot keeps the limits.
LEMMA SpecialSlotLimits ==
  ASSUME slot \in [Clients -> SlotKinds], Limits(slot), NEW c \in Clients,
         NEW shared, SpecialSlot(c, shared) # "NoSlot"
  PROVE  Limits(Given(slot, {c}, SpecialSlot(c, shared)))
<1> DEFINE kind == SpecialSlot(c, shared)
           G == Given(slot, {c}, kind)
<1>1. CASE slot[c] # "NoSlot"
  <2>1. G = slot
    BY <1>1 DEF Given
  <2> QED
    BY <2>1
<1>2. CASE slot[c] = "NoSlot"
  <2>1. kind \in SlotKinds \ {"NoSlot"}
    BY SpecialSlotChosen DEF SlotKinds
  <2> HIDE DEF kind
  <2>2. /\ Holding(G, kind) = Holding(slot, kind) \cup {c}
        /\ \A k \in SlotKinds \ {kind, "NoSlot"} : Holding(G, k) = Holding(slot, k)
    BY <1>2, <2>1 DEF Holding, Given
  <2>3. \A k \in SlotKinds : Holding(slot, k) \subseteq Clients
    BY DEF Holding
  <2>4. /\ "NormalSlot" \in SlotKinds \ {"NoSlot"} /\ "FriendSlot" \in SlotKinds \ {"NoSlot"}
        /\ "SmallFileSlot" \in SlotKinds \ {"NoSlot"} /\ "ReleaseSlot" \in SlotKinds \ {"NoSlot"}
    BY DEF SlotKinds
  <2> HIDE DEF G
  <2>5. Cardinality(Holding(G, "NormalSlot")) <= max_upload_slots
    <3>1. kind # "NormalSlot"
      BY SpecialSlotChosen, <2>1 DEF kind
    <3> QED
      BY <2>2, <2>4, <3>1 DEF Limits
  <2>6. Cardinality(Holding(G, "FriendSlot")) <= 1
    <3>1. CASE kind = "FriendSlot"
      <4>1. Cardinality(Holding(slot, "FriendSlot")) = 0
        BY SpecialSlotChosen, <3>1 DEF kind
      <4>2. Cardinality(Holding(slot, "FriendSlot") \cup {c}) <= 1
        BY <2>3, <2>4, <4>1, OneMoreClient
      <4> QED
        BY <2>2, <3>1, <4>2
    <3>2. CASE kind # "FriendSlot"
      BY <2>2, <2>4, <3>2 DEF Limits
    <3> QED
      BY <3>1, <3>2
  <2>7. Cardinality(Holding(G, "SmallFileSlot")) <= 1
    <3>1. CASE kind = "SmallFileSlot"
      <4>1. Cardinality(Holding(slot, "SmallFileSlot")) = 0
        BY SpecialSlotChosen, <3>1 DEF kind
      <4>2. Cardinality(Holding(slot, "SmallFileSlot") \cup {c}) <= 1
        BY <2>3, <2>4, <4>1, OneMoreClient
      <4> QED
        BY <2>2, <3>1, <4>2
    <3>2. CASE kind # "SmallFileSlot"
      BY <2>2, <2>4, <3>2 DEF Limits
    <3> QED
      BY <3>1, <3>2
  <2>8. Cardinality(Holding(G, "ReleaseSlot")) <= allowed_release_slots
    <3>1. CASE kind = "ReleaseSlot"
      <4>1. Cardinality(Holding(slot, "ReleaseSlot")) < allowed_release_slots
        BY SpecialSlotChosen, <3>1 DEF kind
      <4> QED
        BY <2>2, <2>3, <2>4, <3>1, <4>1, OneMoreClient, SlotsAssumption
    <3>2. CASE kind # "ReleaseSlot"
      BY <2>2, <2>4, <3>2 DEF Limits
    <3> QED
      BY <3>1, <3>2
  <2>9. Limits(G)
    BY <2>5, <2>6, <2>7, <2>8 DEF Limits
  <2> QED
    BY <2>9 DEF G, kind
<1> QED
  BY <1>1, <1>2

-----------------------------------------------------------------------------
(* The inductive invariant *)

\* Types, who may hold a slot, how many, and what a client without a slot has.
SlotsInv ==
  /\ TypeOK
  /\ SlotsExclusive
  /\ SlotLimits
  /\ BlocksNeedSlot

\* The part of SlotsInv about slots alone.
SlotsOK ==
  /\ connected \subseteq Clients
  /\ impl_client_upload \in [Clients -> Files \cup {NoFile}]
  /\ slot \in [Clients -> SlotKinds]
  /\ pending_slots_map \subseteq Clients
  /\ SlotsExclusive
  /\ Limits(slot)

LEMMA SlotsOKHolds ==
  ASSUME SlotsInv
  PROVE  SlotsOK /\ RefillOK
BY DEF SlotsInv, SlotsOK, TypeOK, SlotLimits, Limits, RefillOK

\* Nobody forgets that it has named a file.
NamesKept ==
  /\ impl_client_upload' \in [Clients -> Files \cup {NoFile}]
  /\ \A c \in Clients : impl_client_upload[c] # NoFile => impl_client_upload'[c] # NoFile

\* The clients S lose their slots; whoever still waits is still connected.
Loses(S) ==
  /\ slot' = Taken(S)
  /\ pending_slots_map' \subseteq pending_slots_map
  /\ pending_slots_map' \cup (connected \ S) \subseteq connected'
  /\ connected' \subseteq Clients /\ NamesKept

LEMMA LosesKeepsSlotsOK ==
  ASSUME SlotsOK, NEW S, Loses(S)
  PROVE  SlotsOK'
<1>1. slot' \in [Clients -> SlotKinds]
  BY TakenType DEF SlotsOK, Loses
<1>2. Uploaders(slot') = Uploaders(slot) \ S
  BY DEF SlotsOK, Loses, Uploaders, Taken
<1>3. SlotsExclusive'
  <2>1. Uploaders(slot) \subseteq Clients
    BY DEF Uploaders
  <2> QED
    BY <1>2, <2>1 DEF SlotsOK, Loses, NamesKept, SlotsExclusive
<1>4. \A kind \in SlotKinds \ {"NoSlot"} : Holding(slot', kind) \subseteq Holding(slot, kind)
  BY DEF SlotsOK, Loses, Holding, Taken
<1>5. Limits(slot')
  BY <1>4, FewerSlots DEF SlotsOK
<1> QED
  BY <1>1, <1>3, <1>5 DEF SlotsOK, Loses, NamesKept

\* A refill after the clients S lost their slots, nobody coming or leaving.
LEMMA RefillKeepsSlotsOK ==
  ASSUME SlotsOK, RefillOK, NEW S, RefillUploadSlots(Taken(S), pending_slots_map),
         UNCHANGED <<connected, impl_client_upload>>
  PROVE  /\ SlotsOK' /\ RefillOK'
         /\ Uploaders(slot) \ S \subseteq Uploaders(slot')
<1> DEFINE sl == Taken(S)
<1>1. sl \in [Clients -> SlotKinds] /\ pending_slots_map \subseteq Clients
  BY TakenType DEF SlotsOK
<1>2. Uploaders(sl) = Uploaders(slot) \ S
  BY DEF SlotsOK, Uploaders, Taken
<1>3. Limits(sl)
  <2>1. \A kind \in SlotKinds \ {"NoSlot"} : Holding(sl, kind) \subseteq Holding(slot, kind)
    BY DEF SlotsOK, Holding, Taken
  <2> QED
    BY <2>1, FewerSlots DEF SlotsOK
<1> HIDE DEF sl
<1>4. RefillResult(sl, pending_slots_map) /\ RefillOK'
  BY <1>1, RefillUploadSlotsResult DEF sl
<1>5. Limits(slot')
  BY <1>1, <1>3, <1>4, RefillLimits
<1>6. PICK T \in SUBSET (pending_slots_map \cap connected) :
        /\ slot' = Given(sl, T, "NormalSlot")
        /\ pending_slots_map' \subseteq pending_slots_map \ T
  BY <1>4 DEF RefillResult
<1>7. slot' \in [Clients -> SlotKinds]
  BY <1>1, <1>6, GivenType DEF SlotKinds
<1>8. Uploaders(slot') = Uploaders(sl) \cup T
  BY <1>1, <1>6 DEF Uploaders, Given
<1>9. SlotsExclusive'
  BY <1>1, <1>2, <1>6, <1>8 DEF SlotsOK, SlotsExclusive
<1> QED
  BY <1>1, <1>2, <1>4, <1>5, <1>6, <1>7, <1>8, <1>9 DEF SlotsOK

\* The part of TypeOK about blocks, bandwidth and credit.
StreamOK ==
  /\ client_upload \in [Clients -> Uploads]
  /\ upload_clients \in Seq(Clients)
  /\ streaming_left \in Int
  /\ loop \in [n : Nat, old : Int, running : BOOLEAN]
  /\ has_upload \in Nat /\ upload_credit \in Nat

LEMMA SlotsInvParts ==
  SlotsInv <=> SlotsOK /\ RefillOK /\ StreamOK /\ BlocksNeedSlot
BY DEF SlotsInv, SlotsOK, RefillOK, StreamOK, TypeOK, SlotLimits, Limits

\* Whoever loses its slot loses its blocks.
LEMMA BlocksGoWithSlots ==
  ASSUME StreamOK, slot \in [Clients -> SlotKinds], BlocksNeedSlot, NEW S,
         client_upload' = Dropped(S), Uploaders(slot) \ S \subseteq Uploaders(slot')
  PROVE  BlocksNeedSlot' /\ client_upload' \in [Clients -> Uploads]
<1>1. client_upload' \in [Clients -> Uploads]
  BY DroppedType DEF StreamOK
<1>2. BlocksNeedSlot'
  BY DEF StreamOK, BlocksNeedSlot, Dropped, None, Uploaders
<1> QED
  BY <1>1, <1>2

\* The same for a step that takes slots and blocks away and gives none.
LEMMA LosesKeepsSlotsInv ==
  ASSUME SlotsInv, NEW S, Loses(S), client_upload' = Dropped(S),
         upload_clients' \in Seq(Clients), streaming_left' \in Int,
         loop' \in [n : Nat, old : Int, running : BOOLEAN],
         has_upload' \in Nat, upload_credit' \in Nat, UNCHANGED refill
  PROVE  SlotsInv'
<1>1. SlotsOK /\ RefillOK /\ StreamOK /\ BlocksNeedSlot
  BY SlotsInvParts
<1>2. SlotsOK'
  BY <1>1, LosesKeepsSlotsOK
<1>3. Uploaders(slot) \ S \subseteq Uploaders(slot')
  BY <1>1 DEF SlotsOK, Loses, Uploaders, Taken
<1>4. BlocksNeedSlot' /\ client_upload' \in [Clients -> Uploads]
  BY <1>1, <1>3, BlocksGoWithSlots DEF SlotsOK
<1>5. RefillOK' /\ StreamOK'
  BY <1>1, <1>4 DEF RefillOK, StreamOK, refill
<1> QED
  BY <1>2, <1>4, <1>5, SlotsInvParts DEF SlotsInv, SlotsOK, RefillOK, StreamOK, TypeOK,
     SlotLimits, Limits

\* A step that changes no slot and gives blocks to clients with a slot only.
LEMMA SameSlotsKeepSlotsInv ==
  ASSUME SlotsInv, UNCHANGED <<connected, slots, refill>>,
         NamesKept, StreamOK',
         \A c \in Clients : client_upload'[c].some => slot[c] # "NoSlot"
  PROVE  SlotsInv'
<1>1. SlotsOK /\ RefillOK
  BY SlotsInvParts
<1>2. SlotsOK'
  <2>1. Uploaders(slot) \subseteq Clients
    BY DEF Uploaders
  <2> QED
    BY <1>1, <2>1 DEF SlotsOK, SlotsExclusive, slots, NamesKept
<1>3. RefillOK' /\ BlocksNeedSlot'
  BY <1>1 DEF RefillOK, refill, slots, BlocksNeedSlot
<1> QED
  BY <1>2, <1>3 DEF SlotsInv, SlotsOK, RefillOK, StreamOK, TypeOK, SlotLimits, Limits

LEMMA SecondTimerSlots == SlotsInv /\ SecondTimer => SlotsInv'
<1> SUFFICES ASSUME SlotsInv, SecondTimer PROVE SlotsInv'
  OBVIOUS
<1>1. SlotsOK /\ RefillOK /\ StreamOK /\ BlocksNeedSlot
  BY SlotsInvParts
<1>2. slot = Taken({})
  BY <1>1 DEF SlotsOK, Taken
<1>3. RefillUploadSlots(Taken({}), pending_slots_map)
  BY <1>2 DEF SecondTimer
<1>4. SlotsOK' /\ RefillOK' /\ Uploaders(slot) \ {} \subseteq Uploaders(slot')
  BY <1>1, <1>3, RefillKeepsSlotsOK DEF SecondTimer
<1>5. StreamOK' /\ BlocksNeedSlot'
  BY <1>1, <1>4 DEF SecondTimer, StreamOK, stream, credit, BlocksNeedSlot, Uploaders
<1> QED
  BY <1>4, <1>5 DEF SlotsInv, SlotsOK, RefillOK, StreamOK, TypeOK, SlotLimits, Limits

LEMMA ReleaseSlotSlots ==
  ASSUME SlotsInv, NEW c \in Clients, ReleaseSlot(c)
  PROVE  SlotsInv'
<1>1. SlotsOK /\ RefillOK /\ StreamOK /\ BlocksNeedSlot
  BY SlotsInvParts
<1>2. SlotsOK' /\ RefillOK' /\ Uploaders(slot) \ {c} \subseteq Uploaders(slot')
  BY <1>1, RefillKeepsSlotsOK DEF ReleaseSlot
<1>3. BlocksNeedSlot' /\ client_upload' \in [Clients -> Uploads]
  BY <1>1, <1>2, BlocksGoWithSlots DEF ReleaseSlot, SlotsOK
<1>4. StreamOK'
  BY <1>1, <1>3 DEF ReleaseSlot, StreamOK, stream, credit
<1> QED
  BY <1>2, <1>3, <1>4 DEF SlotsInv, SlotsOK, RefillOK, StreamOK, TypeOK, SlotLimits, Limits

\* add_pending_slot: c is connected and has named a file.
LEMMA JoinQueueSlots ==
  ASSUME SlotsInv, NEW c \in Clients, NEW shared, JoinQueue(c, shared)
  PROVE  SlotsInv'
<1>1. SlotsOK /\ RefillOK /\ StreamOK /\ BlocksNeedSlot
  BY SlotsInvParts
<1>2. RefillOK' /\ StreamOK'
  BY <1>1 DEF JoinQueue, RefillOK, StreamOK, refill, stream, credit
<1>3. CASE SpecialSlot(c, shared) # "NoSlot"
  <2>1. SpecialSlot(c, shared) \in SlotKinds
    BY SpecialSlotChosen DEF SlotKinds
  <2>2. slot' = Given(slot, {c}, SpecialSlot(c, shared)) /\ pending_slots_map' = pending_slots_map \ {c}
    BY <1>3 DEF JoinQueue
  <2>3. slot' \in [Clients -> SlotKinds]
    BY <1>1, <2>1, <2>2, GivenType DEF SlotsOK
  <2>4. Limits(slot')
    BY <1>1, <1>3, <2>2, SpecialSlotLimits DEF SlotsOK
  <2>5. Uploaders(slot') = Uploaders(slot) \cup {c}
    BY <1>1, <1>3, <2>2 DEF SlotsOK, Uploaders, Given
  <2>6. SlotsExclusive' /\ BlocksNeedSlot'
    BY <1>1, <2>2, <2>5 DEF SlotsOK, SlotsExclusive, JoinQueue, BlocksNeedSlot, Uploaders
  <2>7. SlotsOK'
    BY <1>1, <2>2, <2>3, <2>4, <2>6 DEF SlotsOK, JoinQueue
  <2> QED
    BY <1>2, <2>6, <2>7 DEF SlotsInv, SlotsOK, RefillOK, StreamOK, TypeOK, SlotLimits, Limits
<1>4. CASE SpecialSlot(c, shared) = "NoSlot"
  <2>1. SlotsOK'
    BY <1>1, <1>4 DEF SlotsOK, JoinQueue, SlotsExclusive, Uploaders
  <2>2. BlocksNeedSlot'
    BY <1>1, <1>4 DEF JoinQueue, BlocksNeedSlot
  <2> QED
    BY <1>2, <2>1, <2>2 DEF SlotsInv, SlotsOK, RefillOK, StreamOK, TypeOK, SlotLimits, Limits
<1> QED
  BY <1>3, <1>4

\* Slots taken back: unshare_file, connections that begin and end, the minute
\* timer, the command nu.
LEMMA LosingSlots ==
  ASSUME SlotsInv,
         \/ \E S \in SUBSET Clients : UnshareFile(S) \/ MinuteTimer(S)
         \/ \E num \in -CreditLimit .. CreditLimit : NuCommand(num)
         \/ \E c \in Clients : Connect(c) \/ Disconnect(c)
  PROVE  SlotsInv'
<1>1. SlotsOK /\ RefillOK /\ StreamOK /\ BlocksNeedSlot
  BY SlotsInvParts
<1>2. ASSUME NEW S \in SUBSET Clients, UnshareFile(S)
      PROVE  SlotsInv'
  <2>1. Loses(S)
    BY <1>1, <1>2 DEF UnshareFile, RemoveClientSlot, Loses, NamesKept, SlotsOK, SlotsExclusive
  <2> QED
    BY <1>1, <1>2, <2>1, LosesKeepsSlotsInv
    DEF UnshareFile, RemoveClientSlot, StreamOK, stream, credit
<1>3. ASSUME NEW S \in SUBSET Clients, MinuteTimer(S)
      PROVE  SlotsInv'
  <2>1. has_upload' \in Nat /\ upload_credit' \in Nat
    BY <1>1, <1>3, StreamAssumption DEF MinuteTimer, StreamOK, Least
  <2>2. PICK T : DisconnectClients(T)
    BY <1>3 DEF MinuteTimer, ClearUploadSlots
  <2>3. Loses(T)
    BY <1>1, <1>3, <2>2
    DEF MinuteTimer, DisconnectClients, Loses, NamesKept, SlotsOK, SlotsExclusive
  <2> QED
    BY <1>1, <1>3, <2>1, <2>2, <2>3, LosesKeepsSlotsInv
    DEF MinuteTimer, DisconnectClients, StreamOK, stream
<1>4. ASSUME NEW c \in Clients, Connect(c)
      PROVE  SlotsInv'
  <2>1. Loses({c})
    BY <1>1, <1>4 DEF Connect, Loses, NamesKept, SlotsOK, SlotsExclusive
  <2> QED
    BY <1>1, <1>4, <2>1, LosesKeepsSlotsInv DEF Connect, StreamOK, stream, credit
<1>5. ASSUME NEW c \in Clients, Disconnect(c)
      PROVE  SlotsInv'
  <2>1. Loses({c})
    BY <1>1, <1>5 DEF Disconnect, DisconnectClients, Loses, NamesKept, SlotsOK, SlotsExclusive
  <2> QED
    BY <1>1, <1>5, <2>1, LosesKeepsSlotsInv
    DEF Disconnect, DisconnectClients, StreamOK, stream, credit
<1>6. ASSUME NEW num \in -CreditLimit .. CreditLimit, NuCommand(num)
      PROVE  SlotsInv'
  <2>1. has_upload' \in Nat /\ upload_credit' \in Nat
    BY <1>1, <1>6, StreamAssumption DEF NuCommand, Nu, StreamOK, Least
  <2>2. PICK T : DisconnectClients(T)
    <3>1. CASE has_upload' > 0
      BY <1>6, <3>1 DEF NuCommand, ClearUploadSlots
    <3>2. CASE ~(has_upload' > 0)
      <4>1. slot = Taken({}) /\ client_upload = Dropped({})
        BY <1>1 DEF SlotsOK, StreamOK, Taken, Dropped
      <4>2. DisconnectClients({})
        BY <1>6, <3>2, <4>1 DEF NuCommand, DisconnectClients, slots
      <4> QED
        BY <4>2
    <3> QED
      BY <3>1, <3>2
  <2>3. Loses(T)
    BY <1>1, <1>6, <2>2
    DEF NuCommand, DisconnectClients, Loses, NamesKept, SlotsOK, SlotsExclusive
  <2> QED
    BY <1>1, <1>6, <2>1, <2>2, <2>3, LosesKeepsSlotsInv
    DEF NuCommand, DisconnectClients, StreamOK, stream
<1> QED
  BY <1>2, <1>3, <1>4, <1>5, <1>6

\* Steps that leave slots and blocks alone.
LEMMA OtherSteps ==
  ASSUME SlotsInv,
         \/ \E c \in Clients, f \in Files : QueryFile(c, f)
         \/ \E deltab \in 0 .. streaming_amount : NextUploads(deltab)
         \/ EndRound
  PROVE  SlotsInv'
<1>1. SlotsOK /\ RefillOK /\ StreamOK /\ BlocksNeedSlot
  BY SlotsInvParts
<1>2. ASSUME NEW c \in Clients, NEW f \in Files, QueryFile(c, f)
      PROVE  SlotsInv'
  <2>1. NamesKept
    BY <1>1, <1>2, SlotsAssumption DEF QueryFile, SlotsOK, NamesKept
  <2> QED
    BY <1>1, <1>2, <2>1, SameSlotsKeepSlotsInv
    DEF QueryFile, SlotsOK, StreamOK, stream, credit, BlocksNeedSlot
<1>3. ASSUME NEW deltab \in 0 .. streaming_amount, NextUploads(deltab)
      PROVE  SlotsInv'
  <2>1. streaming_left' \in Int
    BY <1>1, <1>3, StreamAssumption DEF NextUploads, StreamOK, Least
  <2>2. StreamOK'
    BY <1>1, <1>3, <2>1 DEF NextUploads, StreamOK, credit
  <2> QED
    BY <1>1, <1>3, <2>2, SameSlotsKeepSlotsInv DEF NextUploads, SlotsOK, NamesKept, BlocksNeedSlot
<1>4. ASSUME EndRound
      PROVE  SlotsInv'
  <2>1. loop' \in [n : Nat, old : Int, running : BOOLEAN]
    <3>1. Len(upload_clients) \in Nat /\ Returned \in [n : Nat, old : Int, running : BOOLEAN]
      BY <1>1 DEF StreamOK, Returned
    <3> QED
      BY <1>1, <1>4, <3>1, LoopUpdate DEF EndRound, StreamOK
  <2>2. StreamOK'
    BY <1>1, <1>4, <2>1 DEF EndRound, StreamOK, credit
  <2> QED
    BY <1>1, <1>4, <2>2, SameSlotsKeepSlotsInv DEF EndRound, SlotsOK, NamesKept, BlocksNeedSlot
<1> QED
  BY <1>2, <1>3, <1>3, <1>4

\* QueryBlocReq: the client has a slot, and keeps it or loses both.
LEMMA QueryBlocSlots ==
  ASSUME SlotsInv, NEW c \in Clients, NEW f \in Files, NEW k \in 0 .. 1, NEW other \in BOOLEAN,
         NEW elsewhere \in BOOLEAN, NEW enough \in BOOLEAN, NEW beyond \in BOOLEAN,
         NEW complete \in BOOLEAN,
         QueryBloc(c, f, k, other, elsewhere, enough, beyond, complete)
  PROVE  SlotsInv'
<1> DEFINE old == client_upload[c]
           base == IF other /\ old.some
                   THEN [None EXCEPT !.some = TRUE, !.up_waiting = old.up_waiting,
                                     !.up_finish = TRUE]
                   ELSE [old EXCEPT !.some = TRUE]
           up == NewChunk(base, k, elsewhere, complete)
<1>1. SlotsOK /\ RefillOK /\ StreamOK /\ BlocksNeedSlot
  BY SlotsInvParts
<1>2. old \in Uploads
  BY <1>1 DEF StreamOK
<1>3. base \in UploadsOf(Nat)
  <2>1. old \in UploadsOf(Nat) /\ None \in UploadsOf(Nat)
    BY <1>2, NoneType, BoundedUploads
  <2>2. old.up_waiting \in BOOLEAN /\ old.up_chunks \in Nat
    BY <2>1 DEF UploadsOf
  <2> QED
    BY <2>1, <2>2, UploadsUpdate
<1> HIDE DEF base
<1>4. up \in UploadsOf(Nat)
  BY <1>3, NewChunkType
<1>5. up.up_chunks <= MaxChunks
  BY DEF QueryBloc, base
<1>6. up \in Uploads /\ [up EXCEPT !.up_waiting = TRUE] \in Uploads
  <2>1. up \in Uploads /\ up \in UploadsOf(0 .. MaxChunks)
    BY <1>4, <1>5, BoundedUploads
  <2>2. up.up_chunks \in 0 .. MaxChunks
    BY <2>1 DEF UploadsOf
  <2> QED
    BY <2>1, <2>2, UploadsUpdate, BoundedUploads
<1> HIDE DEF up
<1>7. UNCHANGED <<connected, stream, credit, refill>> /\ NamesKept
  <2>1. \/ impl_client_upload' = impl_client_upload
        \/ impl_client_upload' = [impl_client_upload EXCEPT ![c] = f]
    BY DEF QueryBloc
  <2> QED
    BY <1>1, <2>1, SlotsAssumption DEF QueryBloc, SlotsOK, NamesKept
<1>8. CASE RemoveClientSlot({c}) /\ UNCHANGED upload_clients
  <2>1. Loses({c})
    BY <1>1, <1>7, <1>8 DEF RemoveClientSlot, Loses, NamesKept, SlotsOK, SlotsExclusive
  <2> QED
    BY <1>1, <1>7, <1>8, <2>1, LosesKeepsSlotsInv
    DEF RemoveClientSlot, StreamOK, stream, credit
<1>9. CASE /\ client_upload' = [client_upload EXCEPT ![c] = up]
           /\ UNCHANGED <<slots, upload_clients>>
  <2>1. slot[c] # "NoSlot"
    BY DEF QueryBloc
  <2>2. StreamOK'
    BY <1>1, <1>6, <1>7, <1>9 DEF StreamOK, stream, credit
  <2>3. \A d \in Clients : client_upload'[d].some => slot[d] # "NoSlot"
    BY <1>1, <1>9, <2>1 DEF StreamOK, BlocksNeedSlot
  <2> QED
    BY <1>1, <1>7, <1>9, <2>2, <2>3, SameSlotsKeepSlotsInv DEF SlotsOK, NamesKept
<1>10. CASE /\ client_upload' = [client_upload EXCEPT ![c] = [up EXCEPT !.up_waiting = TRUE]]
            /\ upload_clients' = IF MustQueue(up) THEN ReadyForUpload(upload_clients, c)
                                 ELSE upload_clients
            /\ UNCHANGED slots
  <2>1. slot[c] # "NoSlot"
    BY DEF QueryBloc
  <2>2. upload_clients' \in Seq(Clients)
    BY <1>1, <1>10 DEF StreamOK, ReadyForUpload
  <2>3. StreamOK'
    BY <1>1, <1>6, <1>7, <1>10, <2>2 DEF StreamOK, stream, credit
  <2>4. \A d \in Clients : client_upload'[d].some => slot[d] # "NoSlot"
    BY <1>1, <1>10, <2>1 DEF StreamOK, BlocksNeedSlot
  <2> QED
    BY <1>1, <1>7, <1>10, <2>3, <2>4, SameSlotsKeepSlotsInv DEF SlotsOK, NamesKept
<1> QED
  BY <1>8, <1>9, <1>10 DEF QueryBloc, up, base

\* The Fifo after a client was taken from it.
LEMMA FifoType ==
  ASSUME upload_clients \in Seq(Clients), upload_clients # <<>>
  PROVE  /\ Head(upload_clients) \in Clients
         /\ Tail(upload_clients) \in Seq(Clients)
         /\ \A up : PutBack(up) \in Seq(Clients)
BY DEF PutBack, ReadyForUpload

\* upload_to_one_client: nobody gets a slot, and only the client that loses
\* its slot loses its blocks with it.
LEMMA UploadToOneClientSlots ==
  ASSUME SlotsInv, NEW k \in 0 .. MaxChunks, NEW sent \in 0 .. packet_size,
         NEW unshared \in BOOLEAN, NEW complete \in BOOLEAN,
         UploadToOneClient(k, sent, unshared, complete)
  PROVE  SlotsInv'
<1> DEFINE c == Head(upload_clients)
           old == client_upload[c]
           left == old.up_chunks - k
           up == IF unshared THEN None
                 ELSE [old EXCEPT !.up_chunks = left, !.up_waiting = @ /\ left > 0]
<1>1. SlotsOK /\ RefillOK /\ StreamOK /\ BlocksNeedSlot
  BY SlotsInvParts
<1>2. upload_clients \in Seq(Clients) /\ upload_clients # <<>> /\ loop.n > 0
  BY <1>1 DEF StreamOK, UploadToOneClient, RoundGoesOn
<1>3. c \in Clients /\ Tail(upload_clients) \in Seq(Clients)
  BY <1>2, FifoType
<1>4. loop' \in [n : Nat, old : Int, running : BOOLEAN]
  <2>1. loop.n - 1 \in Nat
    BY <1>1, <1>2 DEF StreamOK
  <2> QED
    BY <1>1, <2>1, LoopUpdate DEF UploadToOneClient, StreamOK
<1>5. UNCHANGED <<connected, impl_client_upload, credit, refill>>
  BY DEF UploadToOneClient
<1>6. CASE /\ c \notin connected \/ old.up_chunks = 0
           /\ upload_clients' = Tail(upload_clients)
           /\ UNCHANGED <<slots, client_upload, streaming_left>>
  <2>1. StreamOK'
    BY <1>1, <1>3, <1>4, <1>5, <1>6 DEF StreamOK, credit
  <2> QED
    BY <1>1, <1>5, <1>6, <2>1, SameSlotsKeepSlotsInv DEF SlotsOK, NamesKept, BlocksNeedSlot
<1>7. CASE /\ c \in connected /\ old.up_chunks > 0
           /\ k <= old.up_chunks /\ (unshared => k = 0 /\ sent = 0)
           /\ streaming_left' = streaming_left - sent
           /\ upload_clients' = PutBack(up)
           /\ IF ~unshared /\ left = 0 /\ up.up_finish /\ complete
              THEN RemoveClientSlot({c})
              ELSE client_upload' = [client_upload EXCEPT ![c] = up] /\ UNCHANGED slots
  <2>1. upload_clients' \in Seq(Clients) /\ streaming_left' \in Int
    BY <1>1, <1>2, <1>7, FifoType, StreamAssumption DEF StreamOK
  <2>2. CASE RemoveClientSlot({c})
    <3>1. Loses({c})
      BY <1>1, <1>5, <2>2 DEF RemoveClientSlot, Loses, NamesKept, SlotsOK, SlotsExclusive
    <3> QED
      BY <1>1, <1>4, <1>5, <2>1, <2>2, <3>1, LosesKeepsSlotsInv
      DEF RemoveClientSlot, StreamOK, credit
  <2>3. CASE client_upload' = [client_upload EXCEPT ![c] = up] /\ UNCHANGED slots
    <3>1. old \in Uploads
      BY <1>1, <1>3 DEF StreamOK
    <3>2. left \in 0 .. MaxChunks /\ (old.up_waiting /\ left > 0) \in BOOLEAN
      BY <1>7, <3>1, StreamAssumption DEF Uploads
    <3>3. up \in Uploads
      BY <3>1, <3>2, NoneType, UploadsUpdate, BoundedUploads
    <3>4. StreamOK'
      BY <1>1, <1>4, <1>5, <2>1, <2>3, <3>3 DEF StreamOK, credit
    <3>5. up.some => old.some
      BY <3>1 DEF None, Uploads
    <3> HIDE DEF up
    <3>6. \A d \in Clients : client_upload'[d].some => slot[d] # "NoSlot"
      BY <1>1, <1>3, <2>3, <3>5 DEF StreamOK, BlocksNeedSlot
    <3> QED
      BY <1>1, <1>5, <2>3, <3>4, <3>6, SameSlotsKeepSlotsInv DEF SlotsOK, NamesKept
  <2> QED
    BY <1>7, <2>2, <2>3
<1> QED
  BY <1>6, <1>7 DEF UploadToOneClient

\* Initial states satisfy the invariant.
LEMMA InitSlots == Init => SlotsInv
<1> SUFFICES ASSUME Init PROVE SlotsInv
  OBVIOUS
<1>1. SlotsOK
  <2>1. slot \in [Clients -> SlotKinds] /\ Uploaders(slot) = {}
    BY DEF Init, SlotKinds, Uploaders
  <2>2. /\ Holding(slot, "NormalSlot") = {} /\ Holding(slot, "FriendSlot") = {}
        /\ Holding(slot, "SmallFileSlot") = {} /\ Holding(slot, "ReleaseSlot") = {}
        /\ Holding(slot, "PrioSlot") = {}
    BY DEF Init, Holding
  <2>3. Limits(slot)
    BY <2>2, FS_EmptySet, SlotsAssumption DEF Limits
  <2> QED
    BY <2>1, <2>3 DEF Init, SlotsOK, SlotsExclusive
<1>2. RefillOK
  BY DEF Init, RefillOK
<1>3. StreamOK
  BY NoneType, StreamAssumption DEF Init, StreamOK, Returned
<1>4. BlocksNeedSlot
  BY DEF Init, BlocksNeedSlot, None
<1> QED
  BY <1>1, <1>2, <1>3, <1>4, SlotsInvParts

\* Every step keeps it.
LEMMA NextSlots == SlotsInv /\ [Next]_vars => SlotsInv'
<1> SUFFICES ASSUME SlotsInv, [Next]_vars PROVE SlotsInv'
  OBVIOUS
<1>1. ASSUME NEW c \in Clients, Connect(c) \/ Disconnect(c)
      PROVE  SlotsInv'
  BY <1>1, LosingSlots
<1>2. ASSUME NEW c \in Clients, NEW f \in Files, QueryFile(c, f)
      PROVE  SlotsInv'
  BY <1>2, OtherSteps
<1>3. ASSUME NEW c \in Clients, NEW shared \in SUBSET Files, JoinQueue(c, shared)
      PROVE  SlotsInv'
  BY <1>3, JoinQueueSlots
<1>4. ASSUME NEW c \in Clients, ReleaseSlot(c)
      PROVE  SlotsInv'
  BY <1>4, ReleaseSlotSlots
<1>5. ASSUME NEW c \in Clients, NEW f \in Files, NEW k \in 0 .. 1, NEW other \in BOOLEAN,
             NEW elsewhere \in BOOLEAN, NEW enough \in BOOLEAN, NEW beyond \in BOOLEAN,
             NEW complete \in upload_complete_chunks,
             QueryBloc(c, f, k, other, elsewhere, enough, beyond, complete)
      PROVE  SlotsInv'
  BY <1>5, QueryBlocSlots, SlotsAssumption
<1>6. CASE SecondTimer
  BY <1>6, SecondTimerSlots
<1>7. ASSUME NEW S \in SUBSET Clients, UnshareFile(S) \/ MinuteTimer(S)
      PROVE  SlotsInv'
  BY <1>7, LosingSlots
<1>8. ASSUME NEW num \in -CreditLimit .. CreditLimit, NuCommand(num)
      PROVE  SlotsInv'
  BY <1>8, LosingSlots
<1>9. ASSUME NEW deltab \in 0 .. streaming_amount, NextUploads(deltab)
      PROVE  SlotsInv'
  BY <1>9, OtherSteps
<1>10. CASE Serve
  <2>1. PICK k \in 0 .. MaxChunks, sent \in 0 .. packet_size, unshared \in BOOLEAN,
             complete \in upload_complete_chunks : UploadToOneClient(k, sent, unshared, complete)
    BY <1>10 DEF Serve
  <2> QED
    BY <2>1, UploadToOneClientSlots, SlotsAssumption
<1>11. CASE EndRound
  BY <1>11, OtherSteps
<1>12. CASE UNCHANGED vars
  <2>1. UNCHANGED <<connected, slots, refill>> /\ impl_client_upload' = impl_client_upload /\ StreamOK'
    BY <1>12, SlotsInvParts DEF vars, StreamOK, stream, credit
  <2>2. client_upload' = client_upload
    BY <1>12 DEF vars
  <2> QED
    BY <2>1, <2>2, SameSlotsKeepSlotsInv, SlotsInvParts DEF SlotsOK, NamesKept, BlocksNeedSlot
<1> QED
  BY <1>1, <1>2, <1>3, <1>4, <1>5, <1>6, <1>7, <1>8, <1>9, <1>10, <1>11, <1>12 DEF Next

LEMMA SlotsInvariant == Spec => []SlotsInv
<1> QED
  BY InitSlots, NextSlots, PTL DEF Spec

\* The types of the variables; has_upload and upload_credit never go below
\* zero, and the counter of the round never does.
THEOREM SlotsTypeCorrect == Spec => []TypeOK
<1>1. SlotsInv => TypeOK
  BY DEF SlotsInv
<1> QED
  BY <1>1, SlotsInvariant, PTL

\* Slots given, taken back, timed out and refilled in any order: nobody holds
\* one and waits for one, and whoever does either is connected and has named
\* a file.
THEOREM SlotsAreExclusive == Spec => []SlotsExclusive
<1>1. SlotsInv => SlotsExclusive
  BY DEF SlotsInv
<1> QED
  BY <1>1, SlotsInvariant, PTL

\* There are never more slots of a kind than add_pending_slot and the refills
\* allow, whatever the options and the number of clients.
THEOREM SlotsAreLimited == Spec => []SlotLimits
<1>1. SlotsInv => SlotLimits
  BY DEF SlotsInv
<1> QED
  BY <1>1, SlotsInvariant, PTL

\* A client that loses its slot loses its blocks with it.
THEOREM BlocksFollowSlots == Spec => []BlocksNeedSlot
<1>1. SlotsInv => BlocksNeedSlot
  BY DEF SlotsInv
<1> QED
  BY <1>1, SlotsInvariant, PTL

-----------------------------------------------------------------------------
(* Bandwidth and credit *)

\* Bandwidth comes only with time and goes only to a client served while some
\* was left; credit is earned by the minute and moved by nu.
LEMMA NextBounds ==
  ASSUME SlotsInv, StreamBounds, CreditConserved, [Next]_vars
  PROVE  StreamBounds' /\ CreditConserved'
<1>1. StreamOK
  BY SlotsInvParts
<1>2. ASSUME UNCHANGED <<streaming_left, has_upload, upload_credit>>
      PROVE  StreamBounds' /\ CreditConserved'
  BY <1>2 DEF StreamBounds, CreditConserved
<1>3. ASSUME NEW S \in SUBSET Clients, MinuteTimer(S)
      PROVE  StreamBounds' /\ CreditConserved'
  BY <1>1, <1>3, StreamAssumption
  DEF MinuteTimer, StreamBounds, CreditConserved, StreamOK, stream, Least
<1>4. ASSUME NEW num \in -CreditLimit .. CreditLimit, NuCommand(num)
      PROVE  StreamBounds' /\ CreditConserved'
  <2>1. has_upload' + upload_credit' = has_upload + upload_credit
    BY <1>1, <1>4, StreamAssumption DEF NuCommand, Nu, StreamOK, Least
  <2> QED
    BY <1>4, <2>1 DEF NuCommand, StreamBounds, CreditConserved, stream
<1>5. ASSUME NEW deltab \in 0 .. streaming_amount, NextUploads(deltab)
      PROVE  StreamBounds' /\ CreditConserved'
  BY <1>1, <1>5, StreamAssumption
  DEF NextUploads, StreamBounds, CreditConserved, StreamOK, credit, Least
<1>6. ASSUME NEW k \in 0 .. MaxChunks, NEW sent \in 0 .. packet_size, NEW unshared \in BOOLEAN,
             NEW complete \in upload_complete_chunks,
             UploadToOneClient(k, sent, unshared, complete)
      PROVE  StreamBounds' /\ CreditConserved'
  <2>1. streaming_left > 0 /\ UNCHANGED credit
    BY <1>6 DEF UploadToOneClient, RoundGoesOn
  <2>2. streaming_left' = streaming_left \/ streaming_left' = streaming_left - sent
    BY <1>6 DEF UploadToOneClient
  <2> QED
    BY <1>1, <2>1, <2>2, StreamAssumption DEF StreamBounds, CreditConserved, StreamOK, credit
<1>7. ASSUME NEW c \in Clients,
             \/ Connect(c) \/ Disconnect(c) \/ ReleaseSlot(c)
             \/ \E f \in Files : QueryFile(c, f)
             \/ \E shared \in SUBSET Files : JoinQueue(c, shared)
             \/ \E f \in Files, k \in 0 .. 1, other, elsewhere, enough, beyond \in BOOLEAN,
                   complete \in upload_complete_chunks :
                  QueryBloc(c, f, k, other, elsewhere, enough, beyond, complete)
      PROVE  UNCHANGED <<streaming_left, has_upload, upload_credit>>
  <2>1. ASSUME Connect(c) \/ Disconnect(c) \/ ReleaseSlot(c)
        PROVE  UNCHANGED <<streaming_left, has_upload, upload_credit>>
    BY <2>1 DEF Connect, Disconnect, ReleaseSlot, stream, credit
  <2>2. ASSUME NEW f, NEW shared, QueryFile(c, f) \/ JoinQueue(c, shared)
        PROVE  UNCHANGED <<streaming_left, has_upload, upload_credit>>
    BY <2>2 DEF QueryFile, JoinQueue, stream, credit
  <2>3. ASSUME NEW f \in Files, NEW k \in 0 .. 1, NEW other \in BOOLEAN,
               NEW elsewhere \in BOOLEAN, NEW enough \in BOOLEAN, NEW beyond \in BOOLEAN,
               NEW complete \in upload_complete_chunks,
               QueryBloc(c, f, k, other, elsewhere, enough, beyond, complete)
        PROVE  UNCHANGED <<streaming_left, has_upload, upload_credit>>
    BY <2>3 DEF QueryBloc, stream, credit
  <2> QED BY <1>7, <2>1, <2>2, <2>3
<1>8. ASSUME SecondTimer \/ EndRound \/ UNCHANGED vars
      PROVE  UNCHANGED <<streaming_left, has_upload, upload_credit>>
  BY <1>8 DEF SecondTimer, EndRound, vars, stream, credit
<1>9. ASSUME NEW S \in SUBSET Clients, UnshareFile(S)
      PROVE  UNCHANGED <<streaming_left, has_upload, upload_credit>>
  BY <1>9 DEF UnshareFile, stream, credit
<1> QED
  BY <1>2, <1>3, <1>4, <1>5, <1>6, <1>7, <1>8, <1>9 DEF Next, Serve

LEMMA BandwidthAndCredit == Spec => [](StreamBounds /\ CreditConserved)
<1>1. Init => StreamBounds /\ CreditConserved
  BY StreamAssumption DEF Init, StreamBounds, CreditConserved
<1>2. SlotsInv /\ (StreamBounds /\ CreditConserved) /\ [Next]_vars
        => (StreamBounds /\ CreditConserved)'
  BY NextBounds
<1> QED
  BY <1>1, <1>2, SlotsInvariant, PTL DEF Spec

\* The stream never runs more than two seconds ahead nor more than a packet
\* behind, however often next_uploads is called and whoever it serves.
THEOREM StreamIsBounded == Spec => []StreamBounds
<1> QED
  BY BandwidthAndCredit, PTL

\* Upload is never disabled for longer than it earned: the minutes that nu
\* took and the credit that is left are within the limit.
THEOREM CreditIsConserved == Spec => []CreditConserved
<1> QED
  BY BandwidthAndCredit, PTL

-----------------------------------------------------------------------------
(* The Fifo *)

InFifo(c) == \E i \in 1 .. Len(upload_clients) : upload_clients[i] = c

\* What makes Scheduled inductive: up_waiting is set exactly while blocks are
\* left, so that QueryBlocReq may trust it; and there are no blocks while upload
\* is disabled, so that none are left behind by a Fifo that puts nobody back.
Queued ==
  /\ has_upload # 0 => \A c \in Clients : ~client_upload[c].some
  /\ \A c \in Clients :
       /\ client_upload[c].up_waiting <=> client_upload[c].up_chunks > 0
       /\ client_upload[c].up_chunks > 0 => client_upload[c].some /\ InFifo(c)

\* Taking clients out of client_upload keeps the rest scheduled; if upload is
\* disabled by the way, nobody with a slot is left.
LEMMA DroppedQueued ==
  ASSUME SlotsInv, Queued, NEW S, client_upload' = Dropped(S), UNCHANGED upload_clients,
         has_upload' # 0 /\ has_upload = 0 => Uploaders(slot) \subseteq S
  PROVE  Queued'
<1>1. StreamOK /\ BlocksNeedSlot
  BY SlotsInvParts
<1>2. ASSUME NEW c \in Clients
      PROVE  /\ client_upload'[c].up_waiting <=> client_upload'[c].up_chunks > 0
             /\ client_upload'[c].up_chunks > 0 => client_upload'[c].some /\ InFifo(c)'
  BY <1>1 DEF StreamOK, Queued, Dropped, None, InFifo
<1>3. ASSUME has_upload' # 0, NEW c \in Clients
      PROVE  ~client_upload'[c].some
  BY <1>1, <1>3 DEF StreamOK, BlocksNeedSlot, Uploaders, Queued, Dropped, None
<1> QED
  BY <1>2, <1>3 DEF Queued

\* A client that is appended to the Fifo is in it, like all the others.
LEMMA AppendFifo ==
  ASSUME upload_clients \in Seq(Clients), NEW c \in Clients,
         upload_clients' = Append(upload_clients, c)
  PROVE  \A d \in Clients : d = c \/ InFifo(d) => InFifo(d)'
<1>1. /\ Len(upload_clients') = Len(upload_clients) + 1 /\ Len(upload_clients) \in Nat
      /\ upload_clients'[Len(upload_clients) + 1] = c
      /\ \A i \in 1 .. Len(upload_clients) : upload_clients'[i] = upload_clients[i]
  OBVIOUS
<1> QED
  BY <1>1 DEF InFifo

\* Taking the first client out leaves the others.
LEMMA TailFifo ==
  ASSUME upload_clients \in Seq(Clients), upload_clients # <<>>
  PROVE  \A d \in Clients : InFifo(d) /\ d # Head(upload_clients) =>
           \E i \in 1 .. Len(Tail(upload_clients)) : Tail(upload_clients)[i] = d
<1> SUFFICES ASSUME NEW d \in Clients, InFifo(d), d # Head(upload_clients)
             PROVE  \E i \in 1 .. Len(Tail(upload_clients)) : Tail(upload_clients)[i] = d
  OBVIOUS
<1>1. PICK i \in 1 .. Len(upload_clients) : upload_clients[i] = d
  BY DEF InFifo
<1>2. i # 1
  BY <1>1
<1>3. i - 1 \in 1 .. Len(Tail(upload_clients)) /\ Tail(upload_clients)[i - 1] = d
  BY <1>1, <1>2
<1> QED
  BY <1>3

\* QueryBlocReq puts the client into the Fifo unless it is there.
LEMMA QueryBlocQueued ==
  ASSUME SlotsInv, Queued, NEW c \in Clients, NEW f \in Files, NEW k \in 0 .. 1, NEW other \in BOOLEAN,
         NEW elsewhere \in BOOLEAN, NEW enough \in BOOLEAN, NEW beyond \in BOOLEAN,
         NEW complete \in BOOLEAN,
         QueryBloc(c, f, k, other, elsewhere, enough, beyond, complete)
  PROVE  Queued'
<1> DEFINE old == client_upload[c]
           base == IF other /\ old.some
                   THEN [None EXCEPT !.some = TRUE, !.up_waiting = old.up_waiting,
                                     !.up_finish = TRUE]
                   ELSE [old EXCEPT !.some = TRUE]
           up == NewChunk(base, k, elsewhere, complete)
           upd == [up EXCEPT !.up_waiting = TRUE]
<1>1. StreamOK
  BY SlotsInvParts
<1>2. has_upload = 0 /\ has_upload' = 0
  BY DEF QueryBloc, credit
<1>3. old \in Uploads
  BY <1>1 DEF StreamOK
<1>4. up.some = TRUE /\ up.up_waiting = old.up_waiting
  BY <1>3 DEF Uploads, None, NewChunk
<1>5. upd.some = up.some /\ upd.up_waiting = TRUE /\ upd.up_chunks = up.up_chunks
  BY <1>3 DEF Uploads, None, NewChunk
<1>6. /\ old.up_waiting <=> old.up_chunks > 0
      /\ old.up_chunks > 0 => InFifo(c)
  BY DEF Queued
<1>7. \/ RemoveClientSlot({c}) /\ UNCHANGED upload_clients
      \/ /\ ~other /\ up.up_chunks = 0
         /\ client_upload' = [client_upload EXCEPT ![c] = up] /\ UNCHANGED upload_clients
      \/ /\ up.up_chunks > 0 /\ client_upload' = [client_upload EXCEPT ![c] = upd]
         /\ upload_clients' = IF MustQueue(up) THEN ReadyForUpload(upload_clients, c)
                              ELSE upload_clients
  BY DEF QueryBloc
<1>8. ~other => up.up_chunks = old.up_chunks + (IF old.up_finish /\ complete THEN 0 ELSE k)
  BY <1>3 DEF Uploads, NewChunk
<1> HIDE DEF up, upd
<1>9. CASE RemoveClientSlot({c}) /\ UNCHANGED upload_clients
  BY <1>2, <1>9, DroppedQueued DEF RemoveClientSlot
<1>10. CASE /\ ~other /\ up.up_chunks = 0
            /\ client_upload' = [client_upload EXCEPT ![c] = up] /\ UNCHANGED upload_clients
  <2>1. old.up_chunks = 0
    BY <1>3, <1>8, <1>10 DEF Uploads
  <2>2. up.up_waiting <=> up.up_chunks > 0
    BY <1>4, <1>6, <1>10, <2>1
  <2> QED
    BY <1>1, <1>2, <1>10, <2>2 DEF StreamOK, Queued, InFifo
<1>11. CASE /\ up.up_chunks > 0 /\ client_upload' = [client_upload EXCEPT ![c] = upd]
            /\ upload_clients' = IF MustQueue(up) THEN ReadyForUpload(upload_clients, c)
                                 ELSE upload_clients
  <2>1. \A d \in Clients : d = c \/ InFifo(d) => InFifo(d)'
    <3>1. CASE MustQueue(up)
      BY <1>1, <1>11, <3>1, AppendFifo DEF StreamOK, ReadyForUpload
    <3>2. CASE ~MustQueue(up)
      <4>1. InFifo(c) /\ upload_clients' = upload_clients
        BY <1>4, <1>6, <1>11, <3>2 DEF MustQueue
      <4> QED
        BY <4>1 DEF InFifo
    <3> QED
      BY <3>1, <3>2
  <2>2. ASSUME NEW d \in Clients
        PROVE  /\ client_upload'[d].up_waiting <=> client_upload'[d].up_chunks > 0
               /\ client_upload'[d].up_chunks > 0 => client_upload'[d].some /\ InFifo(d)'
    <3>1. CASE d = c
      <4>1. client_upload'[d] = upd
        BY <1>1, <1>11, <3>1 DEF StreamOK
      <4> QED
        BY <1>4, <1>5, <1>11, <2>1, <3>1, <4>1
    <3>2. CASE d # c
      <4>1. client_upload'[d] = client_upload[d]
        BY <1>1, <1>11, <3>2 DEF StreamOK
      <4> QED
        BY <2>1, <4>1 DEF Queued
    <3> QED
      BY <3>1, <3>2
  <2> QED
    BY <1>2, <2>2 DEF Queued
<1> QED
  BY <1>7, <1>9, <1>10, <1>11

\* upload_to_client puts the client back while it has blocks left.
LEMMA UploadToOneClientQueued ==
  ASSUME SlotsInv, Queued, NEW k \in 0 .. MaxChunks, NEW sent \in 0 .. packet_size,
         NEW unshared \in BOOLEAN, NEW complete \in BOOLEAN,
         UploadToOneClient(k, sent, unshared, complete)
  PROVE  Queued'
<1>1. SlotsOK /\ StreamOK /\ BlocksNeedSlot
  BY SlotsInvParts
<1>2. upload_clients \in Seq(Clients) /\ upload_clients # <<>>
  BY <1>1 DEF StreamOK, UploadToOneClient, RoundGoesOn
<1>3. PICK c \in Clients : c = Head(upload_clients)
  BY <1>2, FifoType
<1> DEFINE old == client_upload[c]
           left == old.up_chunks - k
           up == IF unshared THEN None
                 ELSE [old EXCEPT !.up_chunks = left, !.up_waiting = @ /\ left > 0]
<1>4. has_upload' = has_upload
  BY DEF UploadToOneClient, credit
<1>5. \A d \in Clients : InFifo(d) /\ d # c =>
        \E i \in 1 .. Len(Tail(upload_clients)) : Tail(upload_clients)[i] = d
  BY <1>2, <1>3, TailFifo
<1>6. CASE /\ c \notin connected \/ old.up_chunks = 0
           /\ upload_clients' = Tail(upload_clients)
           /\ UNCHANGED <<slots, client_upload, streaming_left>>
  <2>1. old.up_chunks = 0 \/ ~(old.up_chunks > 0)
    BY <1>1, <1>3, <1>6 DEF Queued, BlocksNeedSlot, SlotsOK, SlotsExclusive, Uploaders
  <2>2. \A d \in Clients : client_upload[d].up_chunks > 0 => InFifo(d)'
    BY <1>5, <1>6, <2>1 DEF Queued, InFifo
  <2> QED
    BY <1>4, <1>6, <2>2 DEF Queued
<1>7. CASE /\ c \in connected /\ old.up_chunks > 0
           /\ k <= old.up_chunks /\ (unshared => k = 0 /\ sent = 0)
           /\ streaming_left' = streaming_left - sent
           /\ upload_clients' = PutBack(up)
           /\ IF ~unshared /\ left = 0 /\ up.up_finish /\ complete
              THEN RemoveClientSlot({c})
              ELSE client_upload' = [client_upload EXCEPT ![c] = up] /\ UNCHANGED slots
  <2>1. old \in Uploads
    BY <1>1, <1>3 DEF StreamOK
  <2>2. old.some /\ old.up_waiting = TRUE /\ left \in Nat /\ has_upload = 0
    BY <1>3, <1>7, <2>1, StreamAssumption DEF Queued, Uploads
  <2>3. (up.up_waiting <=> up.up_chunks > 0) /\ (up.up_chunks > 0 => up.some)
    BY <2>1, <2>2 DEF None, Uploads
  <2>4. ~unshared /\ left = 0 => up.up_chunks = 0
    BY <2>1 DEF Uploads
  <2> HIDE DEF up
  <2>5. \A d \in Clients : InFifo(d) /\ d # c => InFifo(d)'
    <3>1. CASE upload_clients' = Tail(upload_clients)
      BY <1>5, <3>1 DEF InFifo
    <3>2. CASE upload_clients' = Append(Tail(upload_clients), c)
      <4>1. Tail(upload_clients) \in Seq(Clients)
        BY <1>2
      <4>2. \A i \in 1 .. Len(Tail(upload_clients)) :
              i \in 1 .. Len(upload_clients') /\ upload_clients'[i] = Tail(upload_clients)[i]
        BY <1>3, <3>2, <4>1
      <4> QED
        BY <1>5, <4>2 DEF InFifo
    <3> QED
      BY <1>3, <1>7, <3>1, <3>2 DEF PutBack, ReadyForUpload
  <2>6. up.up_chunks > 0 => InFifo(c)'
    <3> SUFFICES ASSUME up.up_chunks > 0 PROVE InFifo(c)'
      OBVIOUS
    <3>1. upload_clients' = Append(Tail(upload_clients), c)
      BY <1>3, <1>7, <2>2 DEF PutBack, ReadyForUpload
    <3>2. Tail(upload_clients) \in Seq(Clients)
      BY <1>2
    <3>3. /\ Len(upload_clients') \in 1 .. Len(upload_clients')
          /\ upload_clients'[Len(upload_clients')] = c
      BY <1>3, <3>1, <3>2
    <3> QED
      BY <3>3 DEF InFifo
  <2>7. ASSUME NEW d \in Clients, d # c
        PROVE  /\ client_upload'[d].up_waiting <=> client_upload'[d].up_chunks > 0
               /\ client_upload'[d].up_chunks > 0 => client_upload'[d].some /\ InFifo(d)'
    <3>1. client_upload'[d] = client_upload[d]
      BY <1>1, <1>7, <2>7 DEF StreamOK, RemoveClientSlot, Dropped
    <3> QED
      BY <2>5, <2>7, <3>1 DEF Queued
  <2>8. /\ client_upload'[c].up_waiting <=> client_upload'[c].up_chunks > 0
        /\ client_upload'[c].up_chunks > 0 => client_upload'[c].some /\ InFifo(c)'
    <3>1. CASE RemoveClientSlot({c})
      <4>1. client_upload'[c] = None
        BY <1>3, <3>1 DEF RemoveClientSlot, Dropped
      <4> QED
        BY <4>1 DEF None
    <3>2. CASE client_upload' = [client_upload EXCEPT ![c] = up]
      <4>1. client_upload'[c] = up
        BY <1>1, <1>3, <3>2 DEF StreamOK
      <4> QED
        BY <2>3, <2>6, <4>1
    <3> QED
      BY <1>7, <3>1, <3>2
  <2>9. ASSUME NEW d \in Clients
        PROVE  /\ client_upload'[d].up_waiting <=> client_upload'[d].up_chunks > 0
               /\ client_upload'[d].up_chunks > 0 => client_upload'[d].some /\ InFifo(d)'
    <3>1. CASE d = c
      BY <2>8, <3>1
    <3>2. CASE d # c
      BY <2>7, <3>2
    <3> QED
      BY <3>1, <3>2
  <2> QED
    BY <1>4, <2>2, <2>9 DEF Queued
<1> QED
  BY <1>3, <1>6, <1>7 DEF UploadToOneClient

\* Every step keeps Queued.
LEMMA NextQueued ==
  ASSUME SlotsInv, Queued, [Next]_vars
  PROVE  Queued'
<1>1. StreamOK
  BY SlotsInvParts
<1>2. ASSUME UNCHANGED <<client_upload, upload_clients, has_upload>>
      PROVE  Queued'
  BY <1>2 DEF Queued, InFifo
<1>3. ASSUME NEW c \in Clients, Connect(c) \/ Disconnect(c) \/ ReleaseSlot(c)
      PROVE  Queued'
  BY <1>3, DroppedQueued DEF Connect, Disconnect, DisconnectClients, ReleaseSlot, credit
<1>4. ASSUME NEW c \in Clients, NEW f, NEW shared, QueryFile(c, f) \/ JoinQueue(c, shared)
      PROVE  UNCHANGED <<client_upload, upload_clients, has_upload>>
  BY <1>4 DEF QueryFile, JoinQueue, credit
<1>5. ASSUME NEW c \in Clients, NEW f \in Files, NEW k \in 0 .. 1, NEW other \in BOOLEAN,
             NEW elsewhere \in BOOLEAN, NEW enough \in BOOLEAN, NEW beyond \in BOOLEAN,
             NEW complete \in upload_complete_chunks,
             QueryBloc(c, f, k, other, elsewhere, enough, beyond, complete)
      PROVE  Queued'
  BY <1>5, QueryBlocQueued, SlotsAssumption
<1>6. ASSUME NEW S \in SUBSET Clients, UnshareFile(S)
      PROVE  Queued'
  BY <1>6, DroppedQueued DEF UnshareFile, RemoveClientSlot, credit
<1>7. ASSUME NEW S \in SUBSET Clients, MinuteTimer(S)
      PROVE  Queued'
  BY <1>7, DroppedQueued DEF MinuteTimer, ClearUploadSlots, DisconnectClients
<1>8. ASSUME NEW num \in -CreditLimit .. CreditLimit, NuCommand(num)
      PROVE  Queued'
  <2>1. CASE has_upload' > 0
    BY <1>8, <2>1, DroppedQueued DEF NuCommand, ClearUploadSlots, DisconnectClients
  <2>2. CASE ~(has_upload' > 0)
    <3>1. has_upload' = 0
      BY <1>1, <1>8, <2>2, StreamAssumption DEF NuCommand, Nu, StreamOK, Least
    <3> QED
      BY <1>8, <2>2, <3>1 DEF NuCommand, Queued, InFifo
  <2> QED
    BY <2>1, <2>2
<1>9. ASSUME NEW deltab \in 0 .. streaming_amount, NextUploads(deltab)
      PROVE  UNCHANGED <<client_upload, upload_clients, has_upload>>
  BY <1>9 DEF NextUploads, credit
<1>10. ASSUME NEW k \in 0 .. MaxChunks, NEW sent \in 0 .. packet_size, NEW unshared \in BOOLEAN,
              NEW complete \in upload_complete_chunks,
              UploadToOneClient(k, sent, unshared, complete)
      PROVE  Queued'
  BY <1>10, UploadToOneClientQueued, SlotsAssumption
<1>11. ASSUME SecondTimer \/ EndRound \/ UNCHANGED vars
      PROVE  UNCHANGED <<client_upload, upload_clients, has_upload>>
  BY <1>11 DEF SecondTimer, EndRound, vars, credit
<1> QED
  BY <1>2, <1>3, <1>4, <1>5, <1>6, <1>7, <1>8, <1>9, <1>10, <1>11 DEF Next, Serve

\* A client with blocks to send is in the Fifo: neither disconnections, slots
\* taken back, clients that ask for another file, the rounds of next_uploads nor
\* upload that is disabled and enabled again lose it.
THEOREM ClientsStayScheduled == Spec => []Scheduled
<1>1. Init => Queued
  BY DEF Init, Queued, None
<1>2. SlotsInv /\ Queued /\ [Next]_vars => Queued'
  BY NextQueued
<1>3. Queued => Scheduled
  BY DEF Queued, Scheduled, InFifo
<1> QED
  BY <1>1, <1>2, <1>3, SlotsInvariant, PTL DEF Spec

=============================================================================
