---------------------------- MODULE UploadSlots ----------------------------
(***************************************************************************)
(* The upload scheduler of commonUploads.ml with its eDonkey clients: who  *)
(* gets an upload slot (pending_slots_map, refill_upload_slots), who is in *)
(* the Fifo upload_clients, and how next_uploads deals out the bandwidth.  *)
(*                                                                         *)
(* The daemon is single-threaded: each handler or timer is one action. The *)
(* loop of next_uploads is one action per client served; loop tells where  *)
(* it is, and every other action waits until it has returned.              *)
(***************************************************************************)
EXTENDS Integers, Sequences, FiniteSets

CONSTANTS
  Clients,
  max_upload_slots, min_upload_slots,  \* options; 3 is hard-wired in the code
  dynamic_slots,            \* option: values it may have, dynamic or static refill
  upload_complete_chunks,   \* option: values it may have, one chunk per slot or not
  Turns,                    \* dynamic refill every 5th call
  friends,                  \* clients that are friends, if friends_upload_slot
  Files, NoFile,            \* files a client asks for; None of impl_client_upload
  release, small,           \* files marked so, files within small_files_slot_limit
  shared_dir, shared_prio,  \* directory of a file, priority of a directory
  allowed_release_slots,    \* max_release_slots percent of max_upload_slots
  streaming_amount, packet_size,  \* two seconds of bandwidth; what a client gets at a time
  CreditLimit,              \* 300 minutes of upload_credit
  MaxChunks, FifoBound      \* bounds: blocks a client asks for, length of the Fifo

ASSUME SlotsAssumption ==
  /\ IsFiniteSet(Clients)
  /\ max_upload_slots \in Nat /\ min_upload_slots \in 1 .. max_upload_slots
  /\ dynamic_slots \subseteq BOOLEAN /\ upload_complete_chunks \subseteq BOOLEAN
  /\ Turns \in Nat \ {0} /\ allowed_release_slots \in Nat
  /\ friends \subseteq Clients /\ NoFile \notin Files
\* A file that is not shared has the directory "".
ASSUME DirsAssumption ==
  \A d \in {shared_dir[f] : f \in Files} \cup {""} : shared_prio[d] \in Int
ASSUME StreamAssumption ==
  /\ streaming_amount \in Nat /\ packet_size \in Nat \ {0}
  /\ CreditLimit \in Nat /\ MaxChunks \in Nat /\ FifoBound \in Nat

VARIABLES
  connected,            \* clients with a connected socket
  impl_client_upload,   \* the file a client has named last
  slot,                 \* impl_client_slot; CommonClient.uploaders is its support
  pending_slots_map,
  client_upload,        \* the blocks a client waits for
  upload_clients,       \* the Fifo
  streaming_left,
  loop,                 \* next_uploads_aux: clients left in the round, streaming_left before
  has_upload, upload_credit,  \* minutes: upload disabled for, may be disabled for
  turn, not_saturated_count, allocation_cluster

slots == <<slot, pending_slots_map>>
refill == <<turn, not_saturated_count, allocation_cluster>>
stream == <<streaming_left, loop>>
credit == <<has_upload, upload_credit>>
vars == <<connected, impl_client_upload, slots, client_upload, upload_clients, stream, credit, refill>>

SlotKinds == {"NoSlot", "NormalSlot", "ReleaseSlot", "FriendSlot", "SmallFileSlot", "PrioSlot"}
Uploads == [some : BOOLEAN, up_chunks : 0 .. MaxChunks, up_waiting : BOOLEAN,
            up_finish : BOOLEAN]

\* c.client_upload = None; otherwise some is TRUE.
None == [some |-> FALSE, up_chunks |-> 0, up_waiting |-> FALSE, up_finish |-> FALSE]

\* The loop of next_uploads is not running.
Returned == [n |-> 0, old |-> 0, running |-> FALSE]
Idle == loop = Returned

Least(a, b) == IF a <= b THEN a ELSE b
Uploaders(sl) == {c \in Clients : sl[c] # "NoSlot"}
Holding(sl, kind) == {c \in Clients : sl[c] = kind}

Init ==
  /\ connected = {} /\ impl_client_upload = [c \in Clients |-> NoFile]
  /\ slot = [c \in Clients |-> "NoSlot"]
  /\ pending_slots_map = {}
  /\ client_upload = [c \in Clients |-> None]
  /\ upload_clients = <<>>
  /\ streaming_left = streaming_amount
  /\ loop = Returned
  /\ has_upload = 0 /\ upload_credit = 0
  /\ turn = -1 /\ not_saturated_count = 0 /\ allocation_cluster = 1

-----------------------------------------------------------------------------
(* Slots *)

\* set_client_has_a_slot: ignored if the client has one.
Given(sl, S, kind) ==
  [c \in Clients |-> IF c \in S /\ sl[c] = "NoSlot" THEN kind ELSE sl[c]]

\* set_client_has_a_slot NoSlot.
Taken(S) == [c \in Clients |-> IF c \in S THEN "NoSlot" ELSE slot[c]]

\* Mutant: one slot too few.
FindOneLess(sl, pe, n) ==
  \E S \in SUBSET (pe \cap connected) :
    /\ Cardinality(S) = Least(n - 1, Cardinality(pe \cap connected))
    /\ slot' = Given(sl, S, "NormalSlot")
    /\ pending_slots_map' = pe \ S

\* find_pending_slot and give_a_slot, n times: each gives a slot to a random
\* pending client that is connected; the ones found disconnected are dropped.
FindPendingSlots(sl, pe, n) ==
  \E S \in SUBSET (pe \cap connected), D \in SUBSET (pe \ connected) :
    /\ Cardinality(S) = Least(n, Cardinality(pe \cap connected))
    /\ Cardinality(S) < n => D = pe \ connected
    /\ slot' = Given(sl, S, "NormalSlot")
    /\ pending_slots_map' = pe \ (S \cup D)

\* The slots are sl and pe already, and nobody else gets one.
Refilled(sl, pe) == slot' = sl /\ pending_slots_map' = pe

\* static_refill_upload_slots
StaticRefill(sl, pe) ==
  /\ IF Cardinality(Uploaders(sl)) < max_upload_slots
     THEN FindPendingSlots(sl, pe, 1) ELSE Refilled(sl, pe)
  /\ UNCHANGED <<not_saturated_count, allocation_cluster>>

\* dynamic_refill_upload_slots; whether the link has room for one more slot
\* is up to the outside. Counts beyond what the code compares are cut.
DynamicRefill(sl, pe) ==
  LET len == Cardinality(Uploaders(sl)) IN
  \/ /\ len >= max_upload_slots
     /\ Refilled(sl, pe)
     /\ UNCHANGED <<not_saturated_count, allocation_cluster>>
  \/ /\ len < min_upload_slots /\ len < max_upload_slots
     /\ FindPendingSlots(sl, pe, min_upload_slots - len)
     /\ not_saturated_count' = 0 /\ allocation_cluster' = 1
  \/ /\ len >= min_upload_slots /\ len < max_upload_slots
     /\ \E room \in BOOLEAN :
          /\ not_saturated_count' = IF room THEN Least(not_saturated_count + 1, 2) ELSE 0
          /\ IF not_saturated_count' = 2
             THEN /\ FindPendingSlots(sl, pe, Least(allocation_cluster, max_upload_slots - len))
                  /\ allocation_cluster' = Least(allocation_cluster + 1, max_upload_slots)
             ELSE /\ Refilled(sl, pe)
                  /\ allocation_cluster' = IF room THEN allocation_cluster ELSE 1

\* refill_upload_slots, once the slots are sl and the pending clients pe.
RefillUploadSlots(sl, pe) ==
  IF has_upload # 0 THEN Refilled(sl, pe) /\ UNCHANGED refill
  ELSE /\ turn' = (turn + 1) % Turns
       /\ \/ FALSE \in dynamic_slots /\ StaticRefill(sl, pe)
          \/ TRUE \in dynamic_slots /\ turn' = 0 /\ DynamicRefill(sl, pe)
          \/ /\ TRUE \in dynamic_slots /\ turn' # 0
             /\ Refilled(sl, pe)
             /\ UNCHANGED <<not_saturated_count, allocation_cluster>>

\* second_timer
SecondTimer ==
  /\ Idle
  /\ RefillUploadSlots(slot, pending_slots_map)
  /\ UNCHANGED <<connected, impl_client_upload, client_upload, upload_clients, stream, credit>>

\* shared_dir, shared_prio: the directory of a file while the files in
\* shared have a file_shared.
Dir(f, shared) == IF f \in shared THEN shared_dir[f] ELSE ""

\* Mutant: the special slots in use are not counted.
SpecialSlotUncounted(c, shared) ==
  LET f == impl_client_upload[c] IN
  IF f \in release /\ allowed_release_slots > 0 THEN "ReleaseSlot"
  ELSE IF c \in friends THEN "FriendSlot"
  ELSE IF f \in small \cap shared THEN "SmallFileSlot"
  ELSE IF shared_prio[Dir(f, shared)] > 0 THEN "PrioSlot" ELSE "NoSlot"

\* add_pending_slot: the special slot c is entitled to by the file it has
\* named last, counting the ones in use (and, for the directory, every
\* uploader whose last file is in it).
SpecialSlot(c, shared) ==
  LET f == impl_client_upload[c]
      used(kind) == Cardinality(Holding(slot, kind))
      indir == {u \in Uploaders(slot) :
                  Dir(impl_client_upload[u], shared) = Dir(f, shared)} IN
  IF f \in release /\ used("ReleaseSlot") < allowed_release_slots THEN "ReleaseSlot"
  ELSE IF c \in friends /\ used("FriendSlot") = 0 THEN "FriendSlot"
  ELSE IF f \in small \cap shared /\ used("SmallFileSlot") = 0 THEN "SmallFileSlot"
  ELSE IF Cardinality(indir) < shared_prio[Dir(f, shared)] THEN "PrioSlot" ELSE "NoSlot"

\* JoinQueueReq, add_pending_slot: a client that never named a file makes the
\* handler raise Not_found, and nothing happens. Which files are shared at
\* that moment is left open.
JoinQueue(c, shared) ==
  /\ Idle /\ c \in connected /\ impl_client_upload[c] # NoFile
  /\ IF SpecialSlot(c, shared) # "NoSlot"
     THEN /\ slot' = Given(slot, {c}, SpecialSlot(c, shared))
          /\ pending_slots_map' = pending_slots_map \ {c}
     ELSE /\ pending_slots_map' = IF slot[c] = "NoSlot" THEN pending_slots_map \cup {c}
                                                        ELSE pending_slots_map
          /\ UNCHANGED slot
  /\ UNCHANGED <<connected, impl_client_upload, client_upload, upload_clients, stream,
                 credit, refill>>

\* Mutant: the blocks stay.
KeepUploads(S) == client_upload

\* c.client_upload <- None; the Fifo is left alone.
Dropped(S) == [c \in Clients |-> IF c \in S THEN None ELSE client_upload[c]]

\* remove_client_slot over the clients S.
RemoveClientSlot(S) ==
  /\ slot' = Taken(S)
  /\ client_upload' = Dropped(S)
  /\ UNCHANGED pending_slots_map

\* ReleaseSlotReq: the slot goes back, the others are refilled at once.
ReleaseSlot(c) ==
  /\ Idle /\ c \in connected
  /\ client_upload' = Dropped({c})
  /\ RefillUploadSlots(Taken({c}), pending_slots_map)
  /\ UNCHANGED <<connected, impl_client_upload, upload_clients, stream, credit>>

\* unshare_file: every client with blocks of that file loses its slot.
UnshareFile(S) ==
  /\ Idle /\ S # {} /\ \A c \in S : client_upload[c].some
  /\ RemoveClientSlot(S)
  /\ UNCHANGED <<connected, impl_client_upload, upload_clients, stream, credit, refill>>

-----------------------------------------------------------------------------
(* Connections *)

\* init_client and the first messages of a connection.
Connect(c) ==
  /\ Idle /\ c \notin connected
  /\ connected' = connected \cup {c}
  /\ slot' = Taken({c}) /\ client_upload' = Dropped({c})
  /\ UNCHANGED <<impl_client_upload, pending_slots_map, upload_clients, stream, credit, refill>>

\* QueryFileReq for the shared file f: set_client_upload, whatever slot c has.
QueryFile(c, f) ==
  /\ Idle /\ c \in connected
  /\ impl_client_upload' = [impl_client_upload EXCEPT ![c] = f]
  /\ UNCHANGED <<connected, slots, client_upload, upload_clients, stream, credit, refill>>

\* Mutant: pending_slots_map is not cleaned.
DisconnectButWait(S) ==
  /\ connected' = connected \ S
  /\ RemoveClientSlot(S)

\* disconnect_client
DisconnectClients(S) ==
  /\ connected' = connected \ S
  /\ slot' = Taken(S) /\ client_upload' = Dropped(S)
  /\ pending_slots_map' = pending_slots_map \ S

\* client_handler: the socket is closed, by the peer or a timeout.
Disconnect(c) ==
  /\ Idle /\ c \in connected
  /\ DisconnectClients({c})
  /\ UNCHANGED <<impl_client_upload, upload_clients, stream, credit, refill>>

\* clear_upload_slots: the uploaders that are disconnected, S of those that
\* have been silent for a minute, or all of them while upload is disabled.
ClearUploadSlots(S) ==
  DisconnectClients(IF has_upload' = 0 THEN S ELSE Uploaders(slot))

\* minute_timer: upload_credit_timer, then clear_upload_slots.
MinuteTimer(S) ==
  /\ Idle /\ S \subseteq Uploaders(slot)
  /\ IF has_upload = 0
     THEN upload_credit' = Least(upload_credit + 1, CreditLimit) /\ UNCHANGED has_upload
     ELSE has_upload' = has_upload - 1 /\ UNCHANGED upload_credit
  /\ ClearUploadSlots(S)
  /\ UNCHANGED <<impl_client_upload, upload_clients, stream, refill>>

\* Mutants: credit is not used up; more is given back than was taken.
NuForFree(num) == has_upload' = has_upload + (IF num > 0 THEN num ELSE 0) /\ UNCHANGED upload_credit
NuUnchecked(num) == has_upload' = has_upload + num /\ upload_credit' = upload_credit - num

\* The command nu disables upload for num minutes, or gives minutes back, ...
Nu(num) ==
  LET n == IF num > 0 THEN Least(upload_credit, num) ELSE 0 - Least(has_upload, 0 - num) IN
  has_upload' = has_upload + n /\ upload_credit' = upload_credit - n

\* Mutant: the uploaders stay connected.
NuOnly(num) ==
  /\ Idle /\ Nu(num)
  /\ UNCHANGED <<connected, impl_client_upload, slots, client_upload, upload_clients, stream,
                 refill>>

\* ... and if upload is then disabled, calls clear_upload_slots.
NuCommand(num) ==
  /\ Idle /\ Nu(num)
  /\ IF has_upload' > 0 THEN ClearUploadSlots({})
     ELSE UNCHANGED <<connected, slots, client_upload>>
  /\ UNCHANGED <<impl_client_upload, upload_clients, stream, refill>>

-----------------------------------------------------------------------------
(* Blocks *)

\* Mutant: the last to come is the first to be served.
ReadyFirst(fifo, c) == <<c>> \o fifo

\* ready_for_upload: Fifo.put.
ReadyForUpload(fifo, c) == Append(fifo, c)

\* ready_for_upload is called unless up_waiting is set.
MustQueue(up) == ~up.up_waiting

\* new_chunk: k blocks are added to up, unless it is finished; elsewhere: one
\* is not in the part of the file the client began with.
NewChunk(up, k, elsewhere, complete) ==
  [up EXCEPT !.up_finish = @ \/ elsewhere,
             !.up_chunks = @ + (IF up.up_finish /\ complete THEN 0 ELSE k)]

\* QueryBlocReq: client c, which has a slot, asks for k more blocks of file f,
\* the one it is being sent or (other) another one. The slot is taken back if c has
\* had enough and others wait, if the request is beyond the end of the file,
\* or if c is done (complete: the option upload_complete_chunks). A request
\* that names nothing new can only end the upload.
QueryBloc(c, f, k, other, elsewhere, enough, beyond, complete) ==
  LET old == client_upload[c]
      base == IF other /\ old.some
              THEN [None EXCEPT !.some = TRUE, !.up_waiting = old.up_waiting, !.up_finish = TRUE]
              ELSE [old EXCEPT !.some = TRUE]
      up == NewChunk(base, k, elsewhere, complete)
      revoked == beyond \/ (enough /\ pending_slots_map # {}) IN
  /\ Idle /\ c \in connected
  /\ has_upload = 0 /\ slot[c] # "NoSlot"
  /\ up.up_chunks <= MaxChunks /\ Len(upload_clients) < FifoBound
  /\ \/ /\ revoked \/ (up.up_chunks = 0 /\ up.up_finish /\ complete)
        /\ RemoveClientSlot({c})
        /\ UNCHANGED <<upload_clients, impl_client_upload>>
     \/ /\ ~revoked /\ up.up_chunks = 0 /\ up.up_finish /\ ~complete
        /\ old.some /\ ~other
        /\ client_upload' = [client_upload EXCEPT ![c] = up]
        /\ UNCHANGED <<slots, upload_clients, impl_client_upload>>
     \/ /\ ~revoked /\ up.up_chunks > 0
        /\ client_upload' = [client_upload EXCEPT ![c] = [up EXCEPT !.up_waiting = TRUE]]
        /\ impl_client_upload' = [impl_client_upload EXCEPT ![c] = f]
        /\ upload_clients' = IF MustQueue(up) THEN ReadyForUpload(upload_clients, c)
                          ELSE upload_clients
        /\ UNCHANGED slots
  /\ UNCHANGED <<connected, stream, credit, refill>>

\* upload_download_timer, next_uploads: time has brought new bandwidth, and
\* the first round begins.
NextUploads(deltab) ==
  /\ Idle
  /\ streaming_left' = Least(streaming_left + deltab, streaming_amount)
  /\ loop' = [n |-> Len(upload_clients), old |-> streaming_left', running |-> TRUE]
  /\ UNCHANGED <<connected, impl_client_upload, slots, client_upload, upload_clients, credit, refill>>

\* Mutant: the bandwidth that is left is not looked at.
RoundAnyway == loop.n > 0 /\ upload_clients # <<>>

\* next_uploads_round: serve one more client.
RoundGoesOn == loop.n > 0 /\ upload_clients # <<>> /\ streaming_left > 0

\* The Fifo after client_can_upload: the client goes back while it has blocks
\* left, unless upload is disabled.
PutBack(up) ==
  IF up.up_chunks > 0 /\ has_upload = 0
  THEN ReadyForUpload(Tail(upload_clients), Head(upload_clients)) ELSE Tail(upload_clients)

\* upload_to_one_client, upload_to_client, send_client_block: the first client
\* of the Fifo is sent k blocks to their end and sent bytes in all, unless it
\* is gone or has no blocks; none if its socket is full. A read error is only
\* logged. unshared: its file is not shared any more.
UploadToOneClient(k, sent, unshared, complete) ==
  LET c == Head(upload_clients)
      old == client_upload[c]
      left == old.up_chunks - k
      up == IF unshared THEN None
            ELSE [old EXCEPT !.up_chunks = left, !.up_waiting = @ /\ left > 0] IN
  /\ loop.running /\ RoundGoesOn
  /\ loop' = [loop EXCEPT !.n = @ - 1]
  /\ \/ /\ c \notin connected \/ old.up_chunks = 0
        /\ upload_clients' = Tail(upload_clients)
        /\ UNCHANGED <<slots, client_upload, streaming_left>>
     \/ /\ c \in connected /\ old.up_chunks > 0
        /\ k <= old.up_chunks /\ (unshared => k = 0 /\ sent = 0)
        /\ streaming_left' = streaming_left - sent
        /\ upload_clients' = PutBack(up)
        /\ IF ~unshared /\ left = 0 /\ up.up_finish /\ complete
           THEN RemoveClientSlot({c})
           ELSE client_upload' = [client_upload EXCEPT ![c] = up] /\ UNCHANGED slots
  /\ UNCHANGED <<connected, impl_client_upload, credit, refill>>

\* Mutant: another round although nothing was sent.
RoundsForEver == streaming_left <= loop.old /\ upload_clients # <<>>

\* Another round only if something was sent in this one.
AnotherRound == streaming_left < loop.old

\* The end of a round of next_uploads.
EndRound ==
  /\ loop.running /\ ~RoundGoesOn
  /\ loop' = IF AnotherRound
             THEN [loop EXCEPT !.n = Len(upload_clients), !.old = streaming_left]
             ELSE Returned
  /\ UNCHANGED <<connected, impl_client_upload, slots, client_upload, upload_clients,
                 streaming_left, credit, refill>>

-----------------------------------------------------------------------------
Serve ==
  \E k \in 0 .. MaxChunks, sent \in 0 .. packet_size, unshared \in BOOLEAN,
     complete \in upload_complete_chunks : UploadToOneClient(k, sent, unshared, complete)

Next ==
  \/ \E c \in Clients :
       \/ Connect(c) \/ Disconnect(c) \/ ReleaseSlot(c)
       \/ \E f \in Files : QueryFile(c, f)
       \/ \E shared \in SUBSET Files : JoinQueue(c, shared)
       \/ \E f \in Files, k \in 0 .. 1, other, elsewhere, enough, beyond \in BOOLEAN,
             complete \in upload_complete_chunks :
            QueryBloc(c, f, k, other, elsewhere, enough, beyond, complete)
  \/ SecondTimer
  \/ \E S \in SUBSET Clients : UnshareFile(S) \/ MinuteTimer(S)
  \/ \E num \in -CreditLimit .. CreditLimit : NuCommand(num)
  \/ \E deltab \in 0 .. streaming_amount : NextUploads(deltab)
  \/ Serve
  \/ EndRound

Spec == Init /\ [][Next]_vars

\* The timers run, the loop goes on, bandwidth comes back. A client reads
\* what it is sent, Random.int forgets nobody, and an uploader that has got
\* its blocks leaves in the end: it has had enough, or its socket times out.
Fairness ==
  /\ WF_vars(Serve) /\ WF_vars(EndRound)
  /\ SF_vars(NextUploads(streaming_amount))
  /\ \A c \in Clients :
       /\ SF_vars(/\ upload_clients # <<>> /\ c = Head(upload_clients)
                  /\ \E complete \in upload_complete_chunks :
                       UploadToOneClient(client_upload[c].up_chunks, packet_size, FALSE, complete))
       /\ SF_vars(SecondTimer /\ c \in pending_slots_map \ pending_slots_map')
       /\ SF_vars(Disconnect(c) /\ slot[c] # "NoSlot" /\ client_upload[c].up_chunks = 0)

FairSpec == Spec /\ Fairness

-----------------------------------------------------------------------------
(* Properties *)

TypeOK ==
  /\ connected \subseteq Clients
  /\ impl_client_upload \in [Clients -> Files \cup {NoFile}]
  /\ slot \in [Clients -> SlotKinds]
  /\ pending_slots_map \subseteq Clients
  /\ client_upload \in [Clients -> Uploads]
  /\ upload_clients \in Seq(Clients)
  /\ streaming_left \in Int
  /\ loop \in [n : Nat, old : Int, running : BOOLEAN]
  /\ has_upload \in Nat /\ upload_credit \in Nat
  /\ turn \in Int /\ not_saturated_count \in 0 .. 2 /\ allocation_cluster \in Nat

\* Nobody waits for a slot and holds one; whoever waits or holds one is
\* connected and has named a file, so that add_pending_slot never raises
\* Not_found while it counts the uploaders.
SlotsExclusive ==
  /\ pending_slots_map \cap Uploaders(slot) = {}
  /\ \A c \in pending_slots_map \cup Uploaders(slot) :
       c \in connected /\ impl_client_upload[c] # NoFile

\* However joins, releases, timers and disconnections follow each other:
\* never more NormalSlots than max_upload_slots, one FriendSlot and one
\* SmallFileSlot beside them, and the allowed ReleaseSlots.
SlotLimits ==
  /\ Cardinality(Holding(slot, "NormalSlot")) <= max_upload_slots
  /\ Cardinality(Holding(slot, "FriendSlot")) <= 1
  /\ Cardinality(Holding(slot, "SmallFileSlot")) <= 1
  /\ Cardinality(Holding(slot, "ReleaseSlot")) <= allowed_release_slots

\* The directory of a file gives no more PrioSlots than its priority. Not so
\* in the code: a client with a PrioSlot may name a file of another directory.
PrioLimit ==
  \A d \in {shared_dir[f] : f \in Files} :
    shared_prio[d] > 0 =>
      Cardinality({c \in Holding(slot, "PrioSlot") : shared_dir[impl_client_upload[c]] = d})
        <= shared_prio[d]

\* Blocks are queued for clients with a slot only: a slot that is taken back,
\* by whatever way, takes the blocks with it.
BlocksNeedSlot == \A c \in Clients : client_upload[c].some => slot[c] # "NoSlot"

\* A client with blocks to send is in the Fifo (it is up to client_can_upload
\* to put it back), and up_waiting says so: nothing else would send them. While
\* upload is disabled the Fifo drops who is served, but there are no blocks.
Scheduled ==
  \A c \in Clients : client_upload[c].up_chunks > 0 =>
    /\ client_upload[c].up_waiting
    /\ \E i \in 1 .. Len(upload_clients) : upload_clients[i] = c

\* At most two seconds are streamed ahead, and at most one packet is overdrawn.
StreamBounds == 0 - packet_size < streaming_left /\ streaming_left <= streaming_amount

\* Upload is never disabled for longer than the credit it has earned.
CreditConserved == has_upload + upload_credit <= CreditLimit

\* next_uploads returns: the one thread of the daemon does not hang in it.
NextUploadsReturns == []<>Idle

\* A client that stays in the Fifo is served, whatever the others ask for.
NoStarvation ==
  \A c \in Clients : client_upload[c].up_chunks > 0 ~> client_upload[c].up_chunks = 0

\* A client that waits for a slot gets one or leaves, unless the user disables
\* upload, which refill_upload_slots waits for.
NobodyWaitsForEver ==
  \A c \in Clients :
    c \in pending_slots_map ~> c \notin pending_slots_map \/ has_upload # 0

=============================================================================
