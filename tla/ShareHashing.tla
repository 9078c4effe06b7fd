---------------------------- MODULE ShareHashing ----------------------------
(***************************************************************************)
(* How shared files get their hashes: the list of eDonkey (donkeyShare.ml) *)
(* and the one of Direct Connect (dcShared.ml), both of which give their   *)
(* chunks, one at a time, to the hasher. All files are in shared           *)
(* directories; each network is told of them again and again.              *)
(*                                                                         *)
(* Handlers are closures: the file they are about and the list that        *)
(* follows it are those of the moment the job was created (dk_files,       *)
(* dc_files).                                                              *)
(***************************************************************************)
EXTENDS Hasher

VARIABLES
  \* donkeyShare.ml
  shared_files,       \* files to hash
  computing,
  shared_list,        \* digests so far of the file being hashed
  dk_sh, dk_files,    \* the closure, while there is one: that file, the list after it
  shared_files_info,  \* the digests of a file that is hashed
  \* dcShared.ml
  dc_files_to_hash,
  dc_tiger_computing,
  dc_shared_tiger_list,  \* digests so far, of each file
  dc_files,              \* the closure
  dc_by_fullname,        \* files that have a dc_shared_file
  dc_by_hash             \* files whose root is known

donkeyVars == <<shared_files, computing, shared_list, dk_sh, dk_files, shared_files_info>>
dcVars == <<dc_files_to_hash, dc_tiger_computing, dc_shared_tiger_list, dc_files, dc_by_fullname,
            dc_by_hash>>
vars == <<hasherVars, donkeyVars, dcVars>>

Members(s) == {s[i] : i \in 1 .. Len(s)}
Digests == Jobs \cup {Downloaded}

(* Every variable keeps its type. *)
TypeOK ==
  /\ fifo \in Seq(Jobs) /\ current_job \in Jobs \cup {Nothing}
  /\ main \in {"loop", "take", "mutex", "tiger"}
  /\ job_args \in Jobs \cup {Nothing} /\ job_done \in BOOLEAN
  /\ job_result \in Digests \cup {Nothing} /\ tiger_buffer \in Digests \cup {Nothing}
  /\ thread \in {"none", "created", "waiting", "woken", "hashing", "compressing", "finishing",
                 "finished"}
  /\ faults \in 0 .. DiskFaults /\ verified \in 0 .. Verifications
  /\ disk \in [Files -> {"ok", "gone", "resized", "unreadable"}]
  /\ shared_files \in Seq(Files) /\ computing \in BOOLEAN
  /\ shared_list \in Seq(Digests)
  /\ dk_sh \in Files \cup {Nothing} /\ dk_files \in Seq(Files)
  /\ shared_files_info \in [Files -> Seq(Digests)]
  /\ dc_files_to_hash \in Seq(Files) /\ dc_tiger_computing \in Files \cup {Nothing}
  /\ dc_shared_tiger_list \in [Files -> Seq(Digests)] /\ dc_files \in Seq(Files)
  /\ dc_by_fullname \subseteq Files /\ dc_by_hash \subseteq Files

Init ==
  /\ HasherInit
  /\ shared_files = <<>> /\ computing = FALSE /\ shared_list = <<>>
  /\ dk_sh = Nothing /\ dk_files = <<>>
  /\ shared_files_info = [f \in Files |-> <<>>]
  /\ dc_files_to_hash = <<>> /\ dc_tiger_computing = Nothing
  /\ dc_shared_tiger_list = [f \in Files |-> <<>>] /\ dc_files = <<>>
  /\ dc_by_fullname = {} /\ dc_by_hash = {}

-----------------------------------------------------------------------------
(* eDonkey. *)

Hashed(f) == shared_files_info[f] # <<>>

\* The test of op_network_share before a file is added.
IsNew(f) == f \notin Members(shared_files)

\* op_network_share; a file whose hashes are known is shared at once.
DonkeyShareFile(f) ==
  /\ main = "loop" /\ Unchanged(f)
  /\ ~Hashed(f) /\ IsNew(f)
  /\ shared_files' = <<f>> \o shared_files
  /\ UNCHANGED <<hasherVars, computing, shared_list, dk_sh, dk_files, shared_files_info, dcVars>>

\* check_shared_files, given the list: a file that is gone or has changed is
\* taken off, for another a job is made. In the code shared_list belongs to
\* the entry: the only entry that is looked at again with digests in it is the
\* one whose mtime failed, and as a file that is gone does not come back here,
\* it is taken off.
CheckList(list) ==
  IF list # <<>> /\ Unchanged(Head(list))
  THEN /\ computing' = TRUE /\ shared_files' = list
       /\ dk_sh' = Head(list) /\ dk_files' = Tail(list) /\ shared_list' = <<>>
       /\ fifo' = Append(fifo, Job("MD4", Head(list), 0))
  ELSE /\ computing' = FALSE /\ shared_files' = IF list = <<>> THEN list ELSE Tail(list)
       /\ dk_sh' = Nothing /\ dk_files' = <<>> /\ shared_list' = <<>>
       /\ UNCHANGED fifo

\* Mutant: computing is not looked at.
CheckAnyway ==
  /\ main = "loop" /\ shared_files # <<>>
  /\ CheckList(shared_files)
  /\ UNCHANGED <<current_job, main, jobVars, thread, tiger_buffer, worldVars, shared_files_info, dcVars>>
\* Every five seconds.
CheckSharedFiles ==
  /\ main = "loop" /\ ~computing /\ shared_files # <<>>
  /\ CheckList(shared_files)
  /\ UNCHANGED <<current_job, main, jobVars, thread, tiger_buffer, worldVars, shared_files_info, dcVars>>

\* The handler of an MD4 job.
DonkeyHandler ==
  LET f == dk_sh
      list == Append(shared_list, job_result)
      complete == Len(list) = NChunks(f) IN
    CASE complete /\ disk[f] # "gone" ->
           shared_files_info' = [shared_files_info EXCEPT ![f] = list] /\ CheckList(dk_files)
      [] complete /\ disk[f] = "gone" ->    \* Unix32.mtime raises an exception
           computing' = FALSE /\ dk_sh' = Nothing /\ dk_files' = <<>> /\ shared_list' = <<>>
             /\ UNCHANGED <<shared_files, shared_files_info, fifo>>
      [] ~complete /\ Unchanged(f) ->
           shared_list' = list /\ fifo' = Append(fifo, Job("MD4", f, Len(list)))
             /\ UNCHANGED <<shared_files, computing, dk_sh, dk_files, shared_files_info>>
      [] ~complete /\ ~Unchanged(f) ->
           CheckList(dk_files) /\ UNCHANGED shared_files_info

EndMd4 == /\ EndJob /\ current_job.method = "MD4"
          /\ DonkeyHandler /\ UNCHANGED dcVars

-----------------------------------------------------------------------------
(* Direct Connect. *)

\* op_network_share; a file that has been added once is not looked at again.
DcShareFile(f) ==
  /\ main = "loop" /\ Unchanged(f) /\ f \notin dc_by_fullname
  /\ dc_by_fullname' = dc_by_fullname \cup {f}
  /\ dc_files_to_hash' = <<f>> \o dc_files_to_hash
  /\ UNCHANGED <<hasherVars, donkeyVars, dc_tiger_computing, dc_shared_tiger_list, dc_files, dc_by_hash>>

\* Mutant: dc_shared_pos is not advanced.
FirstChunk(f) == 0
\* dc_shared_pos, in chunks.
DcChunk(f) == Len(dc_shared_tiger_list[f])

\* dc_check_hashed_files.
DcCheckHashedFiles ==
  /\ main = "loop" /\ dc_tiger_computing = Nothing /\ dc_files_to_hash # <<>>
  /\ LET f == Head(dc_files_to_hash) IN
       IF Unchanged(f)
       THEN /\ dc_tiger_computing' = f /\ dc_files' = Tail(dc_files_to_hash)
            /\ fifo' = Append(fifo, Job("TIGER", f, DcChunk(f)))
            /\ UNCHANGED dc_files_to_hash
       ELSE /\ dc_files_to_hash' = Tail(dc_files_to_hash)
            /\ UNCHANGED <<dc_tiger_computing, dc_files, fifo>>
  /\ UNCHANGED <<current_job, main, jobVars, thread, tiger_buffer, worldVars, donkeyVars,
                 dc_shared_tiger_list, dc_by_fullname, dc_by_hash>>

\* The handler of a TIGER job. Files added since the job was made are not in
\* dc_files. The list of a complete file, which the code replaces by the root
\* computed from it, is kept: it stands for the root.
DcHandler ==
  LET f == dc_tiger_computing
      list == Append(dc_shared_tiger_list[f], job_result) IN
    /\ dc_tiger_computing' = Nothing /\ dc_files' = <<>>
    /\ dc_shared_tiger_list' = [dc_shared_tiger_list EXCEPT ![f] = list]
    /\ IF Len(list) = NChunks(f)
       THEN dc_files_to_hash' = dc_files /\ dc_by_hash' = dc_by_hash \cup {f}
       ELSE UNCHANGED <<dc_files_to_hash, dc_by_hash>>
    /\ UNCHANGED <<dc_by_fullname, fifo>>

EndTiger == /\ EndJob /\ current_job.method = "TIGER"
            /\ DcHandler /\ UNCHANGED donkeyVars

-----------------------------------------------------------------------------
Shared == UNCHANGED <<donkeyVars, dcVars>>

\* What the event loop goes on with by itself: handlers, timers, and the scan
\* of the shared directories.
EventLoop == \/ (NoCurrentJob \/ TakeNothing \/ TakeJob \/ SignalJob \/ DigestDownload) /\ Shared
             \/ EndMd4 \/ EndTiger \/ CheckSharedFiles \/ DcCheckHashedFiles
             \/ \E f \in Files : DonkeyShareFile(f) \/ DcShareFile(f)
World == (VerifyDownload \/ \E f \in Files : DiskFault(f)) /\ Shared

Next == EventLoop \/ (HasherThread /\ Shared) \/ World
Spec == Init /\ [][Next]_vars

\* The event loop does not stop while there is something to do, and the system
\* runs the thread and ends its waits.
FairSpec == Spec /\ WF_vars(EventLoop) /\ WF_vars(HasherThread /\ Shared)

-----------------------------------------------------------------------------
(* Properties. *)

(* The digests of a file are those of its chunks, each once and in its    *)
(* place, whatever else was hashed, shared or verified in between: the     *)
(* handlers, ml_job_done and hasher_thread. A TigerTree digest may instead *)
(* be the one of a verified download, see TigerDigestsAreRight.            *)
ChunksInPlace ==
  /\ \A i \in 1 .. Len(shared_list) : shared_list[i] = Job("MD4", dk_sh, i - 1)
  /\ \A f \in Files : Hashed(f) =>
       shared_files_info[f] = [i \in 1 .. NChunks(f) |-> Job("MD4", f, i - 1)]
  /\ \A f \in Files : Len(dc_shared_tiger_list[f]) <= NChunks(f)
  /\ \A f \in Files : \A i \in 1 .. Len(dc_shared_tiger_list[f]) :
       dc_shared_tiger_list[f][i] \in {Job("TIGER", f, i - 1), Downloaded}

(* "Use a different buffer to avoid sharing it between the two threads",   *)
(* says commonHasher_c.c: what the thread and the event loop digest is     *)
(* their own data.                                                         *)
TigerDigestsAreRight ==
  /\ main = "tiger" => tiger_buffer = Downloaded
  /\ \A f \in Files : \A i \in 1 .. Len(dc_shared_tiger_list[f]) :
       dc_shared_tiger_list[f][i] = Job("TIGER", f, i - 1)

Pending(m) == {i \in 1 .. Len(fifo) : fifo[i].method = m}
Current(m) == current_job # Nothing /\ current_job.method = m
(* A network has at most one job at a time, for the file it is computing.  *)
(* The flags computing and dc_tiger_computing, the recursive call in the   *)
(* handler and the timers never create a second.                           *)
OneJobEach ==
  /\ \A i, j \in Pending("MD4") \cup Pending("TIGER") : fifo[i].method = fifo[j].method => i = j
  /\ \A i \in Pending("MD4") : computing /\ fifo[i].file = dk_sh /\ ~Current("MD4")
  /\ \A i \in Pending("TIGER") : fifo[i].file = dc_tiger_computing /\ ~Current("TIGER")
  /\ Current("MD4") => computing /\ current_job.file = dk_sh
  /\ Current("TIGER") => current_job.file = dc_tiger_computing

\* The job was dropped because its file could not be opened: computing stays.
DonkeyStopped == computing /\ Pending("MD4") = {} /\ ~Current("MD4")
(* Every file in a shared directory is hashed by eDonkey some day, unless  *)
(* it changes or the hashing of all files has stopped: a file that the     *)
(* handler forgets (shared_files := files) comes back with the next scan.  *)
DonkeyHashesAll == \A f \in Files : <>(Hashed(f) \/ disk[f] # "ok" \/ DonkeyStopped)
=============================================================================
