------------------------------- MODULE Hasher -------------------------------
(***************************************************************************)
(* The hashing jobs of the daemon: the Fifo and the timer of               *)
(* commonHasher.ml, the thread of commonHasher_c.c that reads the files,   *)
(* and the buffer of tiger.c that this thread and the event loop share.    *)
(*                                                                         *)
(* Two actors, as in NameResolver: the event loop and hasher_thread. What  *)
(* a network does with a digest is up to ShareHashing, which composes this *)
(* module with the lists of files to hash.                                 *)
(*                                                                         *)
(* A digest is represented by the job it is the right answer to. A file    *)
(* may vanish, change its size or become unreadable; one that is truncated *)
(* while the thread reads it is left out (the thread would then raise an   *)
(* OCaml exception, which is undefined behaviour).                         *)
(***************************************************************************)
EXTENDS Naturals, Sequences

CONSTANTS
  Files,
  size,           \* of a file
  block_size,     \* of the chunks that are hashed one by one
  DiskFaults,     \* bound: files that vanish, change or become unreadable
  Verifications,  \* bound: chunks of downloads verified
  Nothing

ASSUME HasherAssumption ==
  /\ size \in [Files -> Nat] /\ block_size \in Nat \ {0} /\ DiskFaults \in Nat
  /\ Verifications \in Nat

VARIABLES
  fifo,
  current_job,
  main,           \* where the event loop is
  \* The variables of commonHasher_c.c:
  job_args,       \* job_fd, job_begin_pos, job_len, job_method
  job_done,
  job_result,
  thread,         \* where hasher_thread is
  \* ... of tiger.c, and the world:
  tiger_buffer,   \* whose data it holds
  disk, faults, verified

jobVars == <<job_args, job_done, job_result>>
worldVars == <<disk, faults, verified>>
hasherVars == <<fifo, current_job, main, jobVars, thread, tiger_buffer, worldVars>>

\* get_nchunks and dc_get_nchunks.
NChunks(f) == size[f] \div block_size + 1
Jobs == UNION {[method : {"MD4", "TIGER"}, file : {f}, chunk : 0 .. NChunks(f) - 1] : f \in Files}
Job(m, f, c) == [method |-> m, file |-> f, chunk |-> c]
\* The chunk of a download, which is no shared file, that the event loop checks.
Downloaded == Job("TIGER", Nothing, 0)
ASSUME NothingAssumption == Nothing \notin Files \cup Jobs \cup {Downloaded}

MutexHeld == thread \in {"hashing", "compressing", "finishing", "finished"}

HasherInit ==
  /\ fifo = <<>> /\ current_job = Nothing /\ main = "loop"
  /\ job_args = Nothing /\ job_done = TRUE /\ job_result = Nothing
  /\ thread = "none"
  /\ tiger_buffer = Nothing
  /\ disk = [f \in Files |-> "ok"] /\ faults = 0 /\ verified = 0

\* The file is gone, has another size (but is not shorter), or cannot be opened.
DiskFault(f) ==
  /\ faults < DiskFaults /\ disk[f] = "ok"
  /\ disk' \in {[disk EXCEPT ![f] = s] : s \in {"gone", "resized", "unreadable"}}
  /\ faults' = faults + 1
  /\ UNCHANGED <<verified, fifo, current_job, main, jobVars, thread, tiger_buffer>>

\* What the networks look at before they ask for a digest.
Unchanged(f) == disk[f] \in {"ok", "unreadable"}
CanOpen(f) == disk[f] \in {"ok", "resized"}

-----------------------------------------------------------------------------
(* The event loop. *)

\* Mutant: the flag is not looked at.
AlwaysDone == TRUE
\* ml_job_done.
JobDone == job_done

\* The timer finds the current job done; its handler is called, then the
\* timer goes on with the next.
EndJob ==
  /\ main = "loop" /\ current_job # Nothing /\ JobDone
  /\ current_job' = Nothing     \* and the file is closed
  /\ main' = "take"
  /\ UNCHANGED <<jobVars, thread, tiger_buffer, worldVars>>

NoCurrentJob ==
  /\ main = "loop" /\ current_job = Nothing /\ fifo # <<>>
  /\ main' = "take"
  /\ UNCHANGED <<fifo, current_job, jobVars, thread, tiger_buffer, worldVars>>

\* The Fifo is empty, or the file cannot be opened: the error is logged, the
\* handler is not called.
TakeNothing ==
  /\ main = "take"
  /\ fifo # <<>> => ~CanOpen(Head(fifo).file)
  /\ fifo' = IF fifo = <<>> THEN fifo ELSE Tail(fifo)
  /\ main' = "loop"
  /\ UNCHANGED <<current_job, jobVars, thread, tiger_buffer, worldVars>>

\* ml_job_start up to its mutex.
TakeJob ==
  /\ main = "take" /\ fifo # <<>> /\ CanOpen(Head(fifo).file)
  /\ current_job' = Head(fifo) /\ fifo' = Tail(fifo)
  /\ job_args' = Head(fifo)
  /\ thread' = IF thread = "none" THEN "created" ELSE thread
  /\ main' = "mutex"
  /\ UNCHANGED <<job_done, job_result, tiger_buffer, worldVars>>

SignalJob ==
  /\ main = "mutex" /\ ~MutexHeld
  /\ job_done' = FALSE
  /\ thread' = IF thread = "waiting" THEN "woken" ELSE thread
  /\ main' = "loop"
  /\ UNCHANGED <<fifo, current_job, job_args, job_result, tiger_buffer, worldVars>>

\* file_verify on a chunk that has a TigerTree hash: tiger_hash copies the
\* data into tiger_buffer,
VerifyDownload ==
  /\ main = "loop" /\ main' = "tiger"
  /\ verified < Verifications /\ verified' = verified + 1
  /\ tiger_buffer' = Downloaded
  /\ UNCHANGED <<fifo, current_job, jobVars, thread, disk, faults>>
\* and digests what it finds there.
DigestDownload ==
  /\ main = "tiger" /\ main' = "loop"
  /\ UNCHANGED <<fifo, current_job, jobVars, thread, tiger_buffer, worldVars>>

-----------------------------------------------------------------------------
(* hasher_thread. *)

Thread(from, to) ==
  /\ thread = from /\ thread' = to
  /\ UNCHANGED <<fifo, current_job, main, job_args, worldVars>>

FirstWait == Thread("created", "waiting") /\ UNCHANGED <<job_done, job_result, tiger_buffer>>

\* Mutant: pthread_cond_wait.
NoTimeout == FALSE /\ UNCHANGED hasherVars
Timeout == Thread("waiting", "woken") /\ UNCHANGED <<job_done, job_result, tiger_buffer>>

NothingToDo == /\ job_done
               /\ Thread("woken", "waiting") /\ UNCHANGED <<job_done, job_result, tiger_buffer>>

BeginJob == /\ ~job_done
            /\ Thread("woken", "hashing") /\ UNCHANGED <<job_done, job_result, tiger_buffer>>

\* Mutant: the thread tells that it is done before it has stored the digest.
TellFirst ==
  /\ Thread("hashing", "finishing") /\ job_args.method = "MD4"
  /\ job_done' = TRUE
  /\ UNCHANGED <<job_result, tiger_buffer>>
\* md4_unsafe64_fd_direct, with a buffer of its own.
HashMd4 ==
  /\ Thread("hashing", "finishing") /\ job_args.method = "MD4"
  /\ job_result' = job_args
  /\ UNCHANGED <<job_done, tiger_buffer>>

\* tiger_tree_fd: the data is read and copied, then what is in the buffer is
\* digested; one leaf of the tree stands for all.
CopyTiger ==
  /\ Thread("hashing", "compressing") /\ job_args.method = "TIGER"
  /\ tiger_buffer' = job_args
  /\ UNCHANGED <<job_done, job_result>>

CompressTiger ==
  /\ Thread("compressing", "finishing")
  /\ job_result' = tiger_buffer
  /\ UNCHANGED <<job_done, tiger_buffer>>

FinishJob ==
  /\ Thread("finishing", "finished")
  /\ job_done' = TRUE
  /\ UNCHANGED <<job_result, tiger_buffer>>

NextWait == Thread("finished", "waiting") /\ UNCHANGED <<job_done, job_result, tiger_buffer>>

HasherThread == \/ FirstWait \/ Timeout \/ NothingToDo \/ BeginJob
                \/ HashMd4 \/ CopyTiger \/ CompressTiger \/ FinishJob \/ NextWait

-----------------------------------------------------------------------------
(* Properties. *)

(* The thread answers the job it was given. For a TigerTree job this is    *)
(* not guaranteed: see TigerDigestsAreRight.                               *)
AnswersTo(j) == IF j.method = "MD4" THEN {j} ELSE {j, Downloaded}
Worker == INSTANCE AsyncJob WITH
  Answers <- AnswersTo, NoJob <- Nothing, NoAnswer <- Nothing,
  job <- current_job,
  answer <- IF current_job # Nothing /\ main # "mutex" /\ job_done THEN job_result ELSE Nothing
HasherIsAsyncJob == Worker!Spec
=============================================================================
