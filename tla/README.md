# TLA+ models of MLDonkey

MLDonkey is a peer-to-peer daemon that downloads and shares files through
several networks at once (eDonkey, Overnet, BitTorrent, Gnutella, Gnutella2,
Fasttrack, Direct Connect, fileTP and others). This directory holds TLA+
specifications of its core, TLC configurations that check them on small
instances, and TLAPS proofs for every instance. All paths below are relative to
the root of the repository; the OCaml sources are under `src/`.

## 1. The system and its parts

The daemon is one OCaml process. Sockets and timers call handlers from an event
loop (`src/utils/net/basicSocket.ml`); a handler runs to its end before the next
one starts. No OCaml data is raced for, but everything a handler assumes about
earlier handlers can be wrong: peers come and go between any two of them, the
user issues commands, and the process can die at any point and start again from
its ini files and temporary files. Beside the event loop run three C threads:
one resolves names, one hashes files, one talks to the router. They share static
variables with the event loop, mostly without a lock.

| Part | State | Operations | Hard because |
|---|---|---|---|
| Swarmer (`commonSwarming.ml`) | blocks, holes, three layers of bitmaps, counters | receive, verify, merge, recheck, save, restart | frontends with different chunk sizes share one file; data is buffered; crashes |
| Uploaders and choice of blocks (`commonSwarming.ml`) | ranges and blocks of each client, counters of a block | register, find_blocks, find_range, received, unregister | counters shared by clients that come and go |
| Upload scheduler (`commonUploads.ml`, `donkeyFiles.ml`, `donkeyClient.ml`) | slots, waiting clients, Fifo, bandwidth left, upload credit | join, release, refill, request, serve, disconnect, pause | every client can leave between being queued and being served |
| Share hashing (`donkeyShare.ml`, `dcShared.ml`, `commonHasher.ml`, `commonHasher_c.c`, `tiger.c`) | files to hash, Fifo of jobs, one job in C variables, digests so far | share, check_shared_files, timer, handlers, hasher_thread | a thread without locks; handlers are closures over old lists |
| Name resolver (`ip.ml`, `stubs_c.c`) | Fifo of requests, current job, cache, C variables | async_ip, timer, ml_ip_job_start, ml_ip_job_done, dns_thread | flags read without a lock, a signal that may be lost |
| Port mapping (`upnp_stubs.c`) | tables of ports to map and to unmap, two small protocols each | add, remove, remove_all_maps, start, stop, the thread | a cancelled thread, a router that forgets |
| Download engine (`commonUploads.ml`) | credit of bytes, queue of requests | queue_download_request, download_engine | overflow, starvation |
| Source manager (`commonSources.ml`) | queues of sources, times of requests | set_request_result, next_indirect_client, refill | many queues, one source in exactly one |
| File states (`commonFile.ml`, `commonInteractive.ml`) | state of a download | pause, queue, cancel, commit | states of several subfiles of one swarmer |
| Unix32 (`unix32.ml`) | buffered writes, cache of descriptors | read, write, flush, copy_chunk | a crash loses buffers, a flush may fail |
| Ini files (`options.ml4`, `*ComplexOptions.ml`) | what is saved | save_config, value_to_file | saved state and disk can disagree |
| Sockets (`tcpBufferedSocket.ml`, `basicSocket.ml`) | buffers, timeouts, bandwidth controllers | read, write, close | close during a handler |
| Networks (`src/networks/*`) | peers, servers, trackers | protocols | remote peers |
| Driver and GUIs | connections of users | commands | mostly text |

How they interact: a network creates a *frontend* (`t`) for each file it
downloads. The first frontend creates the *swarmer* (`s`) and is its primary;
others are merged into it. Clients of any frontend hand received data to
`CommonSwarming.received`, which writes through Unix32 and updates the blocks.
Once a minute `verify_some_chunks` hashes one complete chunk per swarmer. A file
whose chunks are all verified is finished by its network and then shared.
Clients that ask for shared files wait in `pending_slots_map` until
`refill_upload_slots` or `add_pending_slot` gives them a slot; then their block
requests put them into the Fifo `upload_clients`, and `next_uploads` deals out
the bandwidth ten times a second. Which bytes a client is asked for is decided
by `find_blocks` and `find_range`. Networks that share a file hand its chunks to
the hasher, one at a time; networks that look for a host call `Ip.async_ip`.

What makes the parts correct:

* Swarmer: what is called verified is what the hashes expect; the bitmaps,
  counters, blocks and the downloaded size tell the same; no chunk is left
  behind; a restart neither invents nor forgets verified data; a chunk whose
  verification fails can be given up and downloaded again.
* Upload scheduler: limits on slots; nobody both waits and uploads; blocks are
  sent only to clients with a slot; whoever has blocks is in the Fifo, also
  across the minutes for which upload is disabled; bandwidth
  stays within bounds; the loop returns; nobody waits for ever.
* Choice of blocks: the counters of blocks and ranges agree with the lists of
  the uploaders; ranges are apart and inside their block; nobody holds a range
  that was closed.
* Helper threads: a job is answered with its own result and once; the event
  loop is never stopped by a slow name server; no request or file is forgotten.
* Port mapping: what the router forwards is known, so that it can be taken back;
  there is one thread; a lease that the router lost is noticed.
* Source manager: a source is in one queue; no source is asked too early, none
  is forgotten.
* File states: only legal changes; a cancelled file is never committed.

The list `hazards` in `PROJECT.json` gives, line by line, where this can go
wrong and which property watches it.

## 2. Modules

| Module | Models |
|---|---|
| `Swarmer.tla` | `commonSwarming.ml` without uploaders, with the parts of Unix32 and of the ini files it depends on |
| `MCSwarmer.tla` | instances: chunk sizes, verifiers, faults |
| `SwarmerProofs.tla` | type correctness and safety of verified data |
| `SwarmerBlocksProofs.tla` | holes, bitmaps of the swarmer and of the frontends, chunks that fail |
| `SwarmerCountsProofs.tla` | downloaded size, finished files, counters of chunks |
| `UploadSlots.tla` | the upload scheduler with eDonkey clients |
| `MCUploadSlots.tla` | instances: clients, friends, priorities |
| `UploadSlotsProofs.tla` | invariants of the upload scheduler |
| `BlockChoice.tla` | uploaders, their blocks and ranges, and the counters beside them (`commonSwarming.ml`) |
| `AsyncJob.tla` | abstract: a thread that answers one job at a time |
| `NameResolver.tla` | `Ip.async_ip`, its timer and cache, the thread of `stubs_c.c` |
| `Hasher.tla` | the jobs of `commonHasher.ml`, the thread of `commonHasher_c.c`, the buffer of `tiger.c` |
| `ShareHashing.tla` | Hasher composed with the lists of eDonkey and Direct Connect |
| `PortMapper.tla` | `upnp_stubs.c`: tables, thread, event loop and router |
| `MCBlockChoice.tla`, `MCNameResolver.tla`, `MCShareHashing.tla`, `MCPortMapper.tla` | their instances |
| `BlockChoiceProofs.tla`, `NameResolverProofs.tla`, `ShareHashingProofs.tla`, `PortMapperProofs.tla` | their invariants, and the safety part of both refinements of `AsyncJob` |

### Swarmer

One swarmer, a primary frontend and any number of others. A *byte* of the model
is the smallest unit that is ever split. The code keeps one entry per block in
`s_blocks` and `s_verified_bitmap`; the model keeps one per byte, equal within a
block, and computes the block of a byte from the chunk boundaries of the
associated frontends (`BlockIn`). Cutting a block is then only a change of
`s_networks` plus what `split_blocks` does to PartialBlocks. `ranges` is the set
of bytes in holes; a client may fill any part of one, because ranges can be cut
anywhere for any uploader. Content is abstracted to `good`, the bytes that are
what the hashes of the primary expect; `buffered` are the bytes that Unix32 has
not written yet, `stored` those that were ever written to the file on disk. Two
frontends may have hashes of different contents, and `file_verify` answers no
when it cannot read the file: `FileVerify` may fail although the bytes are good,
for any frontend. That the hash of a secondary accepts what the primary's would
refuse is left out.

| Action | Code |
|---|---|
| `NewBlock` | `new_block`, with the states of the chunks around it |
| `Received` | `received`, `range_received`, `set_completed_block` |
| `VerifyChunk`, `VerifySomeChunks` | `verify_chunk` (one hash per chunk, one for the file, none), the minute timer |
| `VerifyAllChunks` | the recheck of a user |
| `SetVerifier` | hashes that become known later |
| `PropagateChunk` | `duplicate_chunks`: a verified chunk copied from another download |
| `Merge` | `merge`, `associate`, `split_blocks` |
| `Flush`, `Save`, `Restart` | Unix32, `save_config`, a crash and `value_to_swarmer`/`value_to_frontend`, also without the temporary file |
| `Finish` | `check_finished` and the networks' `download_finished` |
| `Rot` | the disk damages data (external) |

`raised` records the assertions of `set_frontend_state_missing` that fail, and
for which frontend: `verify_some_chunks` catches every exception, so the program
goes on after them with whatever had been changed, and so does the model.

Outside events (corrupt data, damage, verifications that fail, saves with and
without a flush, crashes, rechecks, copies, late hashes) are bounded by `EnvBound`, one number per kind; everything else is
unbounded.

### UploadSlots

A client is a peer of the eDonkey network. `slot` is `impl_client_slot`
(`CommonClient.uploaders` is its support), `pending_slots_map`, `client_upload`
(blocks counted, not named), `upload_clients`, `streaming_left`, `has_upload`
and `upload_credit` are the variables of the code. Each handler is one action.
`next_uploads` is one action per client it serves, so that the order and the end
of its rounds can be seen; `loop` is its stack frame, and all other actions wait
until it has returned, because there is only one thread. Whether a socket takes
data, whether a client has had enough, and whether the link has room are left
open. A read error in `send_small_block` is only logged by the code, and the
block counts as sent. `impl_client_upload` is the file a client has named last:
`QueryFile` and `QueryBloc` change it whatever slot the client has, and the kind
of the file (`release`, `small`) and its directory (`shared_dir`, if it is still
shared) decide which slot the next `JoinQueue` gives.

`MinuteTimer` and `NuCommand` end with `ClearUploadSlots`: while upload is
disabled, `clear_upload_slots` disconnects every uploader, otherwise those that
were silent (any of them, in the model), and `nu` calls it only in the first case.

The number 3 of `min_upload_slots`, the 5 of the dynamic refill and the 300
minutes of credit are constants, so that small instances reach their limits.

### BlockChoice

Blocks of equal size (the last may be shorter) and uploaders that have any set
of them. A range is named by its end, which no other range of the file has.
`block_remaining`, `block_unselected_remaining`, `range_nuploading` and
`s_nuploading` are variables of their own, as in the code, changed step by step
and never computed from the lists they count.

| Action | Code |
|---|---|
| `SetIntervals`, `ClearUploaderRanges`, `UnregisterUploader` | `update_uploader_intervals`, `clear_uploader_ranges`, `unregister_uploader` |
| `FindBlocks`, `FindNoBlock` | `find_blocks` with `select_blocks`, `new_block`, `permute_and_return`; nothing left to select |
| `SetPriority` | `swarmer_set_interval`: the user gives a part of the file priority zero, or another |
| `FindRange` | `find_range`: `correct_range`, merging of neighbours, sharing, `split_range` |
| `Received` | `received`, `range_received` for any interval |
| `CompleteBlock`, `VerifyChunk` | a block completed from elsewhere (`close_block_ranges`), a chunk that is verified or lost |

A block of priority zero (`unwanted`) is neither chosen nor waited for; an
uploader that has chosen it goes on. Which of the other good blocks is taken
(rarity, priority, preview) is left open, so whatever is shown holds for every
preference. `find_range` walks the blocks of an
uploader and their ranges in order, and stops at the first range that nobody
downloads; the model says which range comes out (`Best` among `Correct`): the
first without an uploader, or else the last of those with the fewest.

### NameResolver, Hasher, ShareHashing, AsyncJob

The event loop and a thread. Each assignment of the thread to a variable that
the event loop reads without the mutex is a step, and so is each mutex the event
loop waits for; the rest of a handler is one action. Conditions may time out;
a signal reaches only a thread that waits (`SignalJob`). An address list, or a
digest, is represented by what it is the right answer to, so that a mix-up is
visible. A Hashtbl keeps several bindings of a name, and `ip_cache` does too.

`ShareHashing` extends `Hasher`: a handler (`EndMd4`, `EndTiger`) is the end of
a job in `Hasher` and what `donkeyShare.ml` or `dcShared.ml` does with the
digest, in one action. `dk_files` and `dc_files` are the lists captured in the
closures. `DiskFault` lets a file vanish, change its size or become unreadable;
a file that is gone does not come back.

`AsyncJob` is what both threads promise: one job at a time, an answer that
belongs to it, collected once, and always an answer. The refinement mappings
(`Worker` in NameResolver and in Hasher) map the current job to `job`, and the C
variables to `answer` only when `job_done` is set and the event loop is not
still inside the start of the job; this is the window in which the code reads
them without a lock.

### PortMapper

An entry has the state of both protocols. The thread looks at an entry without
the mutex (`ChooseVisit`), takes it (`BeginVisit`) and ends the visit
(`EndVisit`): commands come between the first two, `CancelThread` between the
last two, with `g_mutex` held. The pulses (`Pulse`) are functions from the entry
and the router's leases to the possible results; `CutOff` (`CutUnmap`, `CutMap`) gives what is left
behind by one that is cancelled while it waits for an answer. The router may refuse any
request or leave it unanswered, with or without doing what it was asked for; the
code takes a query without an answer for a port that is not mapped, a grant
without an answer for a refusal, and looks at no result of a delete. The history
variable `unheard` holds the leases of which the tables need not know for that
reason: those whose last request had no success. `upnp_thread_start`,
`upnp_thread_stop` and `remove_all_maps` wait, and are two or more actions each.
Clocks are left out: any entry may be due, any command too early.

## 3. Runs

| Run | Instance | Shows |
|---|---|---|
| `swarmer_merge` | 4 bytes, chunks of 2 and of 3, hashes learnt late, one corrupt message, one verification that fails, one copied chunk | bitmaps, counters, holes and size through a merge at any moment; a failed chunk of the primary can be given up |
| `swarmer_crash` | 3 bytes, chunks of 2 and 1, one save whose own flush fails (others may have gone before), one crash, fairness | nothing unverified comes back as verified, nothing saved is lost, the primary is finished in the end |
| `swarmer_recheck` | 3 bytes, one frontend, damage, save, crash, recheck | what is called verified is good or was damaged since |
| `swarmer_weak` | 3 bytes, one hash for the file / none yet / no verification, one of each: corrupt message, verification that fails, late hash, save, crash | every byte of a finished file was written to it |
| `lost_temp_file` | violation | finding 1 |
| `uploads_slots` | 3 clients, all friends; 1 slot; 2 files, one of them a small release, the other in a directory with a priority; 1 minute of credit | slots, waiting clients and blocks stay consistent and within limits |
| `uploads_live` | 2 clients, 1 slot, one friend, Fifo of 3, packets of 2 in a bandwidth of 3, 1 minute of credit, fairness | blocks are scheduled, bandwidth within bounds, the loop returns, nobody starves |
| `block_choice` | 2 uploaders with any blocks, 5 bytes in blocks of 3 and 2, ranges of 2, priorities that change | counters, ranges and lists agree |
| `name_resolver` | 4 requests: two for one name, one for another, one for a name that is too long; with and without threads; fairness | addresses belong to their name, nobody is forgotten or answered twice, the event loop never waits for the name server; implements AsyncJob |
| `share_hashing` | 2 files of 1 and 2 chunks, one fault of the disk, one verified download, fairness | digests in place, one job per network, all files hashed; implements AsyncJob |
| `tiger_buffer` | violation | finding 2 |
| `port_mapper` | 1 port, tables of 2, a router with either protocol, which refuses or leaves unanswered what it likes, and forgets once or meets one cancelled thread; fairness | leases whose last request had a success are known, one thread, a lost lease is noticed |

*Bounds.* Chunks of 2 and 3 in 4 bytes give blocks of two bytes and of one, a
chunk of the secondary that crosses two of the primary, and a last chunk that is
shorter than the others; that is every relation two frontends can have. One
fault of each kind is enough for each fault to meet every state of a download;
runs that combine several kinds have one each. Three clients and one slot let
one hold, one wait and one join; a Fifo of three lets a client that comes
back be there more than once. Five bytes in two blocks, with ranges of two, let a
range be shared, merged with its neighbour, cut, closed from elsewhere and
started anew while an uploader still holds it. Two requests for one name and one
for another let a job find the cache filled, old, or filled by somebody else.
One port in tables of two is enough for the same port to be in both tables.

The liveness of a download is checked with a crash and without corrupt data:
the two faults are kept apart so that the instance stays small.

*Deadlock.* A finished download may stop, so the swarmer runs switch the check
off, and so do the runs of block choice and share hashing, which end when all is
downloaded or hashed. In `port_mapper` the event loop may really hang (see the
notes below). The upload and resolver runs keep the check on.

*Fairness.* `Swarmer!FairSpec`: blocks are started and clients that have good
data keep sending it (the sources of a file are asked again for ever), the
minute timer runs, and networks learn hashes and look for finished files.
Outside faults have none. `UploadSlots!FairSpec`: the loop continues (one
thread), time brings bandwidth, a client that is served again and again takes
its packet at some point or its socket times out, `Random.int` does not avoid a
client for ever, and an uploader that has got its blocks leaves in the end,
because `QueryBlocReq` takes the slot of a client that has had enough and
`upload_timeout` closes silent ones. Strong fairness is needed where another
handler can disable the step in between. `NameResolver!FairSpec`,
`ShareHashing!FairSpec`: the timers run, and the system schedules the thread and
ends its timed waits (`pthread_cond_timedwait` is what makes up for a lost
signal). `PortMapper!FairSpec`: in addition an entry that the thread comes to
again and again is due at some point; its time does not move otherwise.

*Findings.* Two runs end with a violation of something the repository says about
itself:

1. `lost_temp_file`: the chunks of a temporary file that was created again stay
   verified (`donkeyComplexOptions.ml:309`; message at 306).
2. `tiger_buffer`: `tiger_hash` digests in one static buffer (`tiger.c:778`),
   which the hasher thread and the event loop both use; the comment at
   `commonHasher_c.c:48` says that each has its own.

*Deviations that can be reproduced.* These configurations are not in the list of
runs; TLC refutes the property each of them checks:

| Configuration | Property | What happens |
|---|---|---|
| `MCSwarmer_tag.cfg` | `SecondaryIsTagged` | A frontend merged after the primary has verified blocks never has its chunks tagged (`commonSwarming.ml:896`; comment at 1184); its file cannot finish. |
| `MCSwarmer_stuck.cfg` | `PrimaryFinishes` | A block started between a recheck and the failed verification of its chunk is never verified (`commonSwarming.ml:1263`; comment at 1605). |
| `MCSwarmer_assert.cfg` | `SecondariesCanFail` | A secondary whose own hash disagrees asks to reset a chunk of verified blocks and stops at the assertion of `commonSwarming.ml:1382`; it tries again each minute. |
| `MCUploadSlots_prio.cfg` | `PrioLimit` | A PrioSlot counts for the directory of the file its client has named last (`commonUploads.ml:864`); naming a file of another directory makes room for one more (`donkeyClient.ml:1751`, 2128). |
| `MCNameResolver_long.cfg` | `LongNamesFail` | A name of 256 characters or more gets the addresses of the job before (`stubs_c.c:868` sets `job_result` to 1; comment at 867: "fail immediately"). |
| `MCPortMapper_clear.cfg` | `RouterIsCleared` | With a router that speaks both protocols the NAT-PMP answer clears `extPort` (`upnp_stubs.c:560`) before the UPnP lease is deleted: it stays. |
| `MCPortMapper_delete.cfg` | `TakenBack` | A router that refuses to delete a port keeps the lease, and the entry is forgotten (`upnp_stubs.c:713` does not look at the result). |
| `MCBlockChoice_sizes.cfg` | `RemainingIsRight` | Uploaders of two networks with different range sizes: cutting a range that is being downloaded leaves its right half unselected and uncounted (`commonSwarming.ml:1661`). |

Met while modelling, in the model, and not the subject of a run of their own:

* A recheck counts missing blocks as downloaded (`commonSwarming.ml:1546`), so
  the downloaded size is wrong until the file is restarted; this is why
  `swarmer_recheck` does not check `DownloadedIsPresent`.
* A recheck of damaged data reaches `VerifiedBlock -> assert false` (1404), and
  leaves the bitmap complete under a verified chunk (`check_swarmer` calls that
  "Bad propagation").
* `associate` resets the bitmap of the merged frontend and not its counters;
  the instances merge frontends that are new (`SoloChunks`).
* A secondary that finishes takes the shared swarmer out of
  `swarmers_by_name` (3320).
* A client that is served while upload is disabled is not put back into the Fifo
  although `up_waiting` stays set (`donkeyFiles.ml:179`). No client with blocks
  is left by then, because `nu` and the minute timer disconnect all uploaders
  (theorem `ClientsStayScheduled`).
* The WRITE_DONE handler of `donkeyClient.ml:2206` never puts a client back: a
  client with blocks always has `up_waiting` set. The model leaves it out for
  that reason (theorem `ClientsStayScheduled` rests on the same fact).
* `ready_for_upload` puts a client into the Fifo without looking whether it is
  there; one that reconnects is served more often.
* The thread of the port mapper may see `g_running = 0` before
  `upnp_thread_start` sets it, and end; `g_running` then stays 1 without a
  thread. A thread that is cancelled with `g_mutex` held leaves it locked, and
  the next command hangs the daemon (`HangOnMutex`).
* `ForgottenIsNoticed` covers the first case only up to `thread = "none"`, and
  `DonkeyHashesAll` stops at `DonkeyStopped`: a file that cannot be opened when
  its turn comes leaves `computing` set, and eDonkey hashes nothing any more
  (`commonHasher.ml:81`).
* Direct Connect forgets files that are added during the last job of another
  (`dcShared.ml:295`), and nothing brings them back; it gives a file whose size
  is a multiple of the block size an empty chunk more (`dcGlobals.ml:99`).
* Without threads, `from_name` raises before either handler is called
  (`ip.ml:346`): the outcome "lost", which `EveryRequestEnds` accepts.
* Not in the model: a file that is truncated while the thread reads it (an OCaml
  exception in a C thread), `wait =
  Val_int(wait_v)` where `Int_val` is meant (`upnp_stubs.c:1007`, 1069), 333
  seconds for "pulse frequently" (823), TCP in every NAT-PMP request (540, 582),
  and `ml_upnpGetMaps`, which leaves out the first entry (1138).

## 4. Proofs

TLC checks small instances; the theorems below hold for every value of the
constants that the named assumptions allow. Every invariant that a passing run
checks is stated by a theorem. Where a theorem has a condition, it is a condition
on the constants (which faults can happen, which sizes are asked for), it holds
in the run that checks the invariant, and a configuration or a note above shows
what the code does without it.

| Module | Holds for | Named assumptions |
|---|---|---|
| `SwarmerProofs`, `SwarmerBlocksProofs`, `SwarmerCountsProofs` | any size, frontends, chunk sizes, verifiers and number of faults of each kind | sizes are positive, there is a primary |
| `UploadSlotsProofs` | any finite set of clients, any options | `min_upload_slots` is between 1 and `max_upload_slots`; packets are not empty |
| `BlockChoiceProofs` | any finite set of uploaders, any size of file, blocks, chunks and ranges | sizes are positive, bitmaps name blocks of the file |
| `NameResolverProofs` | any requests and names, with and without threads | `Nothing` and the outcomes are no names |
| `ShareHashingProofs` | any files of any sizes, any number of faults and verified downloads | `Nothing` is neither a file nor a job |
| `PortMapperProofs` | any ports, tables of any size, any routers, any number of faults | 0 is no port: a free entry has `extPort` 0 |

In each module an invariant is strengthened until it is inductive, proved to hold
at first and to be kept by each action (one lemma for each kind of action), and
what is promised follows from it.

`SwarmerProofs`:

* `TypeCorrect`: `Spec => []TypeOK`.
* `VerifiedDataSafe`: `Spec => []VerifiedDataIsGood`. `VerifiedDataIsGood` is
  not inductive: a chunk becomes verified from blocks, and comes back from the
  ini files. The inductive invariant `DataInv` adds that holes are only in
  PartialBlocks, that a verified chunk of the primary consists of
  VerifiedBlocks, that the saved verifier of the primary is as trustworthy as
  the current one, and that verified bytes, in memory and in the ini files, are
  good, not buffered and not in a hole. The last part is where the flush before
  the hash matters: a verified byte that was only in a buffer would be lost by a
  crash. It is proved for a primary that verifies (`Trusted`), which is what
  eDonkey and BitTorrent do.

`SwarmerBlocksProofs`, on top of `DataInv`:

* `HolesArePlaced`: `PartialBlocksHaveHoles` without any condition. It needs
  `Alike`, that the bytes of a block have one state, which each merge has to
  keep while it cuts blocks, and each restart while it puts them together again
  (`HolesInv`).
* `BitmapTellsBlocks`, `PrimaryAgrees`, `SecondaryFollows`,
  `CompletionIsNoticed`, `SavedIsVerified`, from one invariant, `CoherentInv`:
  none of these is inductive alone. A secondary's chunk follows the swarmer's
  bitmap, this follows the blocks, these follow the primary's chunks, and after a
  restart all of it comes from what was saved, so that the ini files must be
  coherent too (`SavedCoherent`). A primary without verification is alone in its
  swarmer (`NoneIsAlone`): `merge` refuses others.
* `SecondaryDataSafe`: with `DataInv`, what a secondary calls verified is good.
* All of these but the first are under `NoRecheck`: no user asks for a recheck.
  A recheck sets `s_verified_bitmap` and the downloaded size without looking at
  `s_blocks` (notes in section 3; `MCSwarmer_stuck.cfg` shows one consequence).
* `PrimaryNeverRaises`: `PrimaryCanFail` under `NoRecheck`, whatever fails, is
  damaged or lost. A chunk of the primary that waits for its verification has no
  verified block, whatever was verified, copied or restored around it, so that
  no assertion stops its reset; and a secondary that fails stops at the first
  assertion, before it has changed anything.

`SwarmerCountsProofs`:

* `DownloadedIsRight`: the downloaded size is the number of bytes present, under
  `NoRecheck`. Each action adds or takes away the cardinality of a set of bytes;
  the lemmas show that it is the set by which `Present` changes.
* `FinishedIsWritten`: `FinishedIsStored` under `NoRecheck`. The invariant
  `FinishedStays` says what keeps a finished file finished: either every block
  is verified, or the primary does not verify, and then nothing takes data away.
  `FileInv` ties this bookkeeping to the file: what the blocks and the bitmap of
  the primary count was written or is buffered (`Backed`), and what any frontend
  has in the ini files, and a restart takes from them, is on disk
  (`SavedBacked`). The property excepts a lost temporary file (finding 1) and a
  save that fails to flush: after these the ini files promise what is not there.
* `CountersCount`: `FrontendInvariant`, with rechecks, for frontends that are new
  when they are merged (`NothingSolo`); `associate` resets the bitmap and not the
  counters. `CountsInv` adds that the counters of a frontend that is not merged
  are 0.

`UploadSlotsProofs`:

* `SlotsTypeCorrect`, `SlotsAreExclusive`, `SlotsAreLimited`,
  `BlocksFollowSlots`, from the invariant `SlotsInv`, their conjunction. Each
  action either takes slots away (`Loses`), refills (`RefillResult`), gives a
  special slot, or leaves slots alone; the first two are proved once and used by
  every action of that kind; the disconnection of all uploaders by `nu` and the
  minute timer is one of the first. PrioSlots have no limit to prove
  (`MCUploadSlots_prio.cfg`). A refill keeps the limit on NormalSlots because all
  uploaders together stay below `max_upload_slots`, although special slots may
  exceed it later.
* `StreamIsBounded`, `CreditIsConserved`: both are inductive with `SlotsInv`.
* `ClientsStayScheduled`: `Scheduled`, without any condition. The invariant
  `Queued` adds that `up_waiting` is set exactly while blocks are left, without
  which QueryBlocReq might trust a flag that is stale, and that nobody has blocks
  while upload is disabled, which is when the Fifo forgets who is served.

`BlockChoiceProofs`:

* `ChoiceTypeCorrect`, `RangesStayApart`, `UploadersAreCounted`, from
  `ChoiceInv`. `UploadersCounted` sums over the uploaders; inductive is that
  `range_nuploading` is the number of uploaders that hold the range
  (`HoldersCounted`) and `s_nuploading` the number of entries, over all lists, that
  name the block (`ChosenCounted`). A range that is merged is free, so that
  nobody holds what disappears; one that is closed is taken out of all lists
  before its block can start anew.
* `RemainingIsKept`: `RemainingIsRight` as long as all uploaders ask for ranges
  of one size (`SameSize`). `RemainInv` adds that the counters of a block are the
  numbers of bytes in its ranges and in its free ranges (`Remains`), and that a
  range somebody downloads is not longer than what is asked for
  (`SmallSelected`): it is this fact that keeps `find_range` from cutting a range
  that is shared. With two sizes it fails (`MCBlockChoice_sizes.cfg`).
* The model sums with a fold. That a sum of sizes of disjoint sets is the
  size of their union (`SumIsCount`) is proved by taking a least set
  of summands for which it fails, since the provers cannot use the induction theorems.

`NameResolverProofs`:

* `ResolverTypeCorrect`, `AddressesAreRight`, `RequestsAreKept`,
  `EventLoopGoesOn`, from `ResolverInv`. The event loop reads `job_done` and the
  result without the mutex; the invariant (`Linked`, `Found`) says what they
  mean at each place where the thread and the event loop can be: the thread works
  only while the current job is not done, and what it has found is for
  that job.
* `ResolverImplementsAsyncJob`: each step is a step of `AsyncJob` or a stutter
  under the mapping `Worker`; `Start`, `Work` and `Collect` have a lemma each.

`ShareHashingProofs`:

* `ShareTypeCorrect`, `OneJobForEach`, `DigestsInPlace`, from `ShareInv`: which
  job each network waits for (`FifoInv`), what the C variables mean
  (`HasherInv`), and how far the lists of digests have come (`DonkeyInv`,
  `DcInv`). The job of a network is always the one for the first chunk without a
  digest; this ties the closures of the handlers to the job whose digest they
  are called with. A TigerTree digest may be the one of a verified download:
  finding 2.
* `HasherImplementsAsyncJob`: as for the resolver.

`PortMapperProofs`:

* `MapperTypeCorrect`, `OneThreadOnly`, `LeasesStayKnown`, from `MapperInv`.
  `ThreadInv` says who may have told whom to stop. `GoodEntry` says what a pulse,
  cut off or not, leaves in an entry: one that is mapped is idle or about to be
  unmapped, and with UPnP alone no entry without a port is mapped. `LeasesInv` is
  needed because entries move between the tables under the thread.
* `OneProtocolIsCleared`: with one protocol, the router holds no UPnP lease once
  both tables are free, but for a port whose last request had no success.
  `RouterIsCleared`
  fails for a router with both (`MCPortMapper_clear.cfg`).
* The proof showed one thing that the small instance does not: with both
  protocols a NAT-PMP answer clears `extPort` of an entry, and UPnP can then be
  asked to map port 0, so that 0 is among the possible leases in `TypeOK`.

Only model-checked: everything that says that something happens in the end
(`PrimaryFinishes`, `NextUploadsReturns`, `NoStarvation`, `NobodyWaitsForEver`,
`EveryRequestEnds`, `DonkeyHashesAll`, `ForgottenIsNoticed`, and that an
`AsyncJob` is always answered), since TLAPS reasons neither about fairness nor
about ENABLED.

## 5. Not modelled, and the plan

In the order in which they are worth adding:

1. An abstract download (missing, present, verified bytes) that Swarmer
   implements; BlockChoice composed with Swarmer, `split_blocks` included.
2. The source manager: one queue per source, times of requests.
3. File states and commit with several subfiles; the download engine; sockets
   with their close and timeout handlers.
4. Chunk bitmap conversions (`commonChunks.ml`) and the TigerTree root against
   reference definitions.

*How much of the C and C++ is covered.* The program's logic is in OCaml; that is
what most definitions translate. The repository also holds about 39,000 lines of
C and C++. The modules cover what of it is shared between threads: the resolver
of `stubs_c.c`, `commonHasher_c.c`, the buffer of `tiger.c`, and `upnp_stubs.c`.
Two thirds of the rest are a copy of Crypto++ and the machine-generated ciphers
of Fasttrack, and most of the remainder are digests, character sets, image
formats and wrappers of system calls. These are computations on bytes that keep
no state of the program; a model of them would repeat them line by line. The
share of C and C++ lines that the map names is therefore small, and stays so.

Left out for good: message formats, hash functions and other C code, user
interfaces, the overlay protocols of the networks (their behaviour is mostly in
remote peers), web and IP-blocking tables, statistics. `PROJECT.json` lists each
of them with its sources.
